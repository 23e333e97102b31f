------------------------------ MODULE DirectChat ------------------------------
(***************************************************************************)
(* A direct room from end to end: two clients, each a CommunicationController*)
(* with its WebRTCService, negotiate a data channel through the signaling    *)
(* server and send messages over it.                                       *)
(*                                                                         *)
(* The clients are named by their peer ids in the room.  The server is what  *)
(* modules MessageHandler and GroupChat show of it with one thread: it       *)
(* handles requests in their order, tells members of one another and passes *)
(* signals on to a member that is online.  The network between a client and  *)
(* the server is in inbox alone.                                            *)
(*                                                                         *)
(* A peer connection of the WebRTC library (external) is known by a number.  *)
(* It calls back on its own threads; the service turns each call into an     *)
(* event of the client's event loop, and closing the connection does not     *)
(* take back the events posted already.  Two connections can talk when each  *)
(* has the other's description: ICE candidates are left out.                *)
(***************************************************************************)
EXTENDS Integers, Sequences, FiniteSets

CONSTANTS
  Peers,       \* the two peer ids
  ForeignIds,  \* peer ids the clients have in other rooms
  Troubles,    \* which of "disconnect", "failure" and "other room" may happen
  QueueCap,    \* messages queued for a peer (1000 in the code)
  MaxSent,     \* bound: messages each application sends
  MaxMoves     \* bound: joins and troubles in a run

ASSUME DirectChatAssumption ==
  /\ Peers \subseteq Nat \ {0} /\ IsFiniteSet(Peers) /\ Cardinality(Peers) = 2
  /\ ForeignIds \subseteq Nat \ (Peers \cup {0})
  /\ Troubles \subseteq {"disconnect", "failure", "other room"}
  /\ QueueCap \in Nat \ {0} /\ MaxSent \in Nat /\ MaxMoves \in Nat

VARIABLES
  online,    \* the server's view: who is in the room
  inbox,     \* inbox[c]: signaling messages on their way to c
  knows,     \* knows[c]: the other is among participants, and in m_peerToRoom
  joined,    \* joined[c]: myPeerId is set
  localId,   \* localId[c]: m_localPeerId, 0 for the empty string
  conn,      \* conn[c]: the entry of m_connections for the other
  events,    \* events[c]: posted by the library, not run yet
  wire,      \* wire[c]: sent over the channel to c
  pending,   \* pending[c]: m_pendingMessages for the other
  pcs,       \* the number of peer connections created
  sent,      \* history: sent[c], messages the application has sent
  delivered, \* history: delivered[c], those messageDelivered was emitted for
  got,       \* history: got[c], messages c was shown
  crashed,   \* clients ended by an exception nobody catches
  moves      \* history: the moves so far

roomVars == <<online, inbox, knows, joined, localId>>
rtcVars == <<conn, events, wire, pending, pcs>>
history == <<sent, delivered, got>>
vars == <<roomVars, rtcVars, history, crashed, moves>>

Other(c) == CHOOSE d \in Peers : d # c

\* pc: its number; remote: that of the connection whose description it has, 0
\* before; dc: the data channel, which is that of a connection here, 0 if none.
NoConn == [pc |-> 0, isInitiator |-> FALSE, remote |-> 0, dc |-> 0,
           state |-> "none"]

Exists(c) == conn[c].pc # 0

\* The two connections have each other's description.
Matched(c) ==
  /\ Exists(c) /\ conn[c].remote = conn[Other(c)].pc
  /\ Exists(Other(c)) /\ conn[Other(c)].remote = conn[c].pc

\* isDataChannelOpen.
IsOpen(cn) == cn.pc # 0 /\ cn.dc = cn.pc /\ cn.state = "open"

Move == moves < MaxMoves /\ moves' = moves + 1

Trouble(kind) == kind \in Troubles /\ Move

-----------------------------------------------------------------------------
(* WebRTCService.                                                          *)

Offer(pc) == [type |-> "offer", pc |-> pc]

Answer(pc, to) == [type |-> "answer", pc |-> pc, to |-> to]

\* setupPeerConnection as initiator: the library makes an offer.
Initiate(c) ==
  /\ pcs' = pcs + 1
  /\ conn' = [conn EXCEPT ![c] = [pc |-> pcs', isInitiator |-> TRUE,
                                  remote |-> 0, dc |-> pcs', state |-> "new"]]
  /\ events' = [events EXCEPT ![c] = Append(@, Offer(pcs'))]

\* initiateConnection.
Ensure(c) ==
  IF Exists(c) THEN UNCHANGED <<pcs, conn, events>> ELSE Initiate(c)

\* setupPeerConnection as receiver and setRemoteDescription(offer): the library
\* makes an answer.
Receive(c, offer) ==
  /\ pcs' = pcs + 1
  /\ conn' = [conn EXCEPT ![c] = [pc |-> pcs', isInitiator |-> FALSE,
                                  remote |-> offer.pc, dc |-> 0,
                                  state |-> "new"]]
  /\ events' = [events EXCEPT ![c] = Append(@, Answer(pcs', offer.pc))]

\* Mutants of Polite: whoever knows its id yields; the id is compared with the
\* client's own.
PoliteEach(c) == localId[c] # 0

PoliteToSelf(c) == localId[c] # 0 /\ localId[c] < c

\* The peer with the smaller id yields.
Polite(c) == localId[c] # 0 /\ localId[c] < Other(c)

\* closePeerConnection: what is on the wire to either side is lost.
Closed(c) ==
  /\ conn' = [conn EXCEPT ![c] = NoConn]
  /\ wire' = IF Exists(c) THEN [d \in Peers |-> <<>>] ELSE wire

\* onOfferReceived, acceptConnection.
OnOffer(c, m) ==
  /\ IF Exists(c) /\ ~(conn[c].isInitiator /\ Polite(c))
     THEN UNCHANGED <<pcs, conn, events, wire>>
     ELSE /\ Receive(c, m)
          /\ wire' = IF Exists(c) THEN [d \in Peers |-> <<>>] ELSE wire
  /\ UNCHANGED <<pending, crashed>>

\* onAnswerReceived: the library throws unless it has made an offer and has no
\* answer yet, and nobody catches it.
OnAnswer(c, m) ==
  /\ IF ~Exists(c) THEN UNCHANGED <<conn, crashed>>
     ELSE IF conn[c].isInitiator /\ conn[c].remote = 0
     THEN conn' = [conn EXCEPT ![c].remote = m.pc] /\ UNCHANGED crashed
     ELSE crashed' = crashed \cup {c} /\ UNCHANGED conn
  /\ UNCHANGED <<pcs, events, wire, pending>>

-----------------------------------------------------------------------------
(* The signaling messages.                                                 *)

Tell(c, m) == inbox' = [inbox EXCEPT ![c] = Append(@, m)]

\* join and its handling at the server: c is told of the other if that is
\* online, which is told of c. Events posted before have run: a client joins on
\* connected(), long after.
Join(c) ==
  /\ c \notin online \cup crashed /\ events[c] = <<>> /\ Move
  /\ online' = online \cup {c}
  /\ inbox' = [d \in Peers |->
       IF d = c THEN << [type |-> "joined", participants |-> online] >>
       ELSE IF d \in online THEN Append(inbox[d], [type |-> "peer-joined"])
       ELSE inbox[d]]
  /\ UNCHANGED <<knows, joined, localId, rtcVars, history, crashed>>

\* onSignalingDisconnected: the connection to a participant is closed, and what
\* was queued is dropped. The server tells the other.
Disconnect(c) ==
  /\ c \in online \ crashed /\ Trouble("disconnect")
  /\ online' = online \ {c}
  /\ inbox' = [d \in Peers |->
       IF d = c THEN <<>>
       ELSE IF d \in online THEN Append(inbox[d], [type |-> "peer-left"])
       ELSE inbox[d]]
  /\ IF knows[c] THEN Closed(c) ELSE UNCHANGED <<conn, wire>>
  /\ knows' = [knows EXCEPT ![c] = FALSE]
  /\ joined' = [joined EXCEPT ![c] = FALSE]
  /\ pending' = [pending EXCEPT ![c] = <<>>]
  /\ UNCHANGED <<localId, events, pcs, history, crashed>>

\* onSignalingJoined.
OnJoined(c, m) ==
  /\ joined' = [joined EXCEPT ![c] = TRUE]
  /\ localId' = [localId EXCEPT ![c] = c]
  /\ knows' = [knows EXCEPT ![c] = @ \/ m.participants # {}]
  /\ UNCHANGED <<rtcVars, crashed>>

\* onSignalingPeerJoined.
OnPeerJoined(c) ==
  /\ knows' = [knows EXCEPT ![c] = TRUE]
  /\ IF joined[c] THEN Ensure(c) ELSE UNCHANGED <<pcs, conn, events>>
  /\ UNCHANGED <<joined, localId, wire, pending, crashed>>

\* onSignalingPeerLeft.
OnPeerLeft(c) ==
  /\ knows' = [knows EXCEPT ![c] = FALSE]
  /\ Closed(c)
  /\ UNCHANGED <<joined, localId, events, pending, pcs, crashed>>

\* onTextMessageReceived.
OnMessage(c) ==
  /\ inbox[c] # <<>> /\ c \notin crashed
  /\ LET m == Head(inbox[c])
     IN  \/ m.type = "joined" /\ OnJoined(c, m)
         \/ m.type = "peer-joined" /\ OnPeerJoined(c)
         \/ m.type = "peer-left" /\ OnPeerLeft(c)
         \/ /\ \/ m.type = "offer" /\ OnOffer(c, m)
               \/ m.type = "answer" /\ OnAnswer(c, m)
            /\ UNCHANGED <<knows, joined, localId>>
  /\ inbox' = [inbox EXCEPT ![c] = Tail(@)]
  /\ UNCHANGED <<online, history, moves>>

\* The client joins another room too: setLocalPeerId.
JoinOther(c, id) ==
  /\ c \in online \ crashed /\ joined[c] /\ Trouble("other room")
  /\ localId' = [localId EXCEPT ![c] = id]
  /\ UNCHANGED <<online, inbox, knows, joined, rtcVars, history, crashed>>

-----------------------------------------------------------------------------
(* The library.                                                            *)

\* A channel opens. The one who was called learns of the channel first.
Connect(c) ==
  /\ Matched(c) /\ conn[c].isInitiator /\ ~conn[Other(c)].isInitiator
  /\ conn[c].state = "new" /\ conn[Other(c)].state = "new"
  /\ conn' = [d \in Peers |-> [conn[d] EXCEPT !.state = "open"]]
  /\ events' = [events EXCEPT
       ![c] = Append(@, [type |-> "opened"]),
       ![Other(c)] = @ \o << [type |-> "incoming", pc |-> conn[Other(c)].pc],
                             [type |-> "opened"] >>]
  /\ UNCHANGED <<roomVars, wire, pending, pcs, history, crashed, moves>>

\* The other side is gone, or the network between the two fails. The entry in
\* m_connections stays.
NoticeClosed(c) ==
  /\ conn[c].state = "open"
  /\ \/ ~Matched(c) /\ UNCHANGED moves
     \/ conn[Other(c)].state = "closed" /\ UNCHANGED moves
     \/ Trouble("failure")
  /\ conn' = [conn EXCEPT ![c].state = "closed"]
  /\ wire' = [d \in Peers |-> <<>>]
  /\ UNCHANGED <<roomVars, events, pending, pcs, history, crashed>>

\* onMessage: there is a callback once "incoming" has run.
Arrive(c) ==
  /\ wire[c] # <<>> /\ IsOpen(conn[c])
  /\ events' = [events EXCEPT ![c] =
                  Append(@, [type |-> "message", text |-> Head(wire[c])])]
  /\ wire' = [wire EXCEPT ![c] = Tail(@)]
  /\ UNCHANGED <<roomVars, conn, pending, pcs, history, crashed, moves>>

-----------------------------------------------------------------------------
(* Messages.                                                               *)

\* Mutants of Flush: the queue is not cleared; it is cleared in any case.
FlushKeeping(c, queue, cn) ==
  /\ pending' = [pending EXCEPT ![c] = queue]
  /\ wire' = IF IsOpen(cn) /\ Matched(c) /\ conn[Other(c)].state = "open"
             THEN [wire EXCEPT ![Other(c)] = @ \o queue] ELSE wire

FlushClearing(c, queue, cn) ==
  /\ pending' = [pending EXCEPT ![c] = <<>>]
  /\ wire' = IF IsOpen(cn) /\ Matched(c) /\ conn[Other(c)].state = "open"
             THEN [wire EXCEPT ![Other(c)] = @ \o queue] ELSE wire

\* flushPendingMessages of the messages queue, with cn for the connection.
\* A message to a side that is gone is lost.
Flush(c, queue, cn) ==
  IF IsOpen(cn)
  THEN /\ pending' = [pending EXCEPT ![c] = <<>>]
       /\ wire' = IF Matched(c) /\ conn[Other(c)].state = "open"
                  THEN [wire EXCEPT ![Other(c)] = @ \o queue] ELSE wire
  ELSE /\ pending' = [pending EXCEPT ![c] = queue]
       /\ UNCHANGED wire

\* At the cap the oldest message is dropped.
Enqueued(queue, text) ==
  Append(IF Len(queue) >= QueueCap THEN Tail(queue) ELSE queue, text)

\* handleDirectMessage.
SendMessage(c) ==
  /\ c \in online \ crashed /\ sent[c] < MaxSent
  /\ sent' = [sent EXCEPT ![c] = @ + 1]
  /\ IF knows[c]
     THEN /\ Ensure(c)
          /\ Flush(c, Enqueued(pending[c], sent'[c]), conn[c])
          /\ delivered' = [delivered EXCEPT ![c] = @ \cup {sent'[c]}]
     ELSE UNCHANGED <<pcs, conn, events, pending, wire, delivered>>
  /\ UNCHANGED <<roomVars, got, crashed, moves>>

\* A signal goes to the other through the server if both are online.
Relay(c, m) ==
  IF Peers \subseteq online THEN Tell(Other(c), m) ELSE UNCHANGED inbox

\* One event of the event loop.
OnEvent(c) ==
  /\ events[c] # <<>> /\ c \notin crashed
  /\ events' = [events EXCEPT ![c] = Tail(@)]
  /\ LET e == Head(events[c])
     IN  \/ /\ e.type \in {"offer", "answer"}
            /\ Relay(c, e)
            /\ UNCHANGED <<conn, wire, pending, got>>
         \/ /\ e.type = "incoming"
            /\ conn' = IF Exists(c) THEN [conn EXCEPT ![c].dc = e.pc] ELSE conn
            /\ UNCHANGED <<inbox, wire, pending, got>>
         \/ /\ e.type = "opened"
            /\ Flush(c, pending[c], conn[c])
            /\ UNCHANGED <<inbox, conn, got>>
         \/ /\ e.type = "message"
            /\ got' = IF knows[c] THEN [got EXCEPT ![c] = Append(@, e.text)]
                      ELSE got
            /\ UNCHANGED <<inbox, conn, wire, pending>>
  /\ UNCHANGED <<online, knows, joined, localId, pcs, sent, delivered, crashed,
                 moves>>

-----------------------------------------------------------------------------
Init ==
  /\ online = {} /\ crashed = {}
  /\ inbox = [c \in Peers |-> <<>>] /\ events = [c \in Peers |-> <<>>]
  /\ wire = [c \in Peers |-> <<>>] /\ pending = [c \in Peers |-> <<>>]
  /\ knows = [c \in Peers |-> FALSE] /\ joined = [c \in Peers |-> FALSE]
  /\ localId = [c \in Peers |-> 0]
  /\ conn = [c \in Peers |-> NoConn]
  /\ pcs = 0 /\ moves = 0
  /\ sent = [c \in Peers |-> 0] /\ delivered = [c \in Peers |-> {}]
  /\ got = [c \in Peers |-> <<>>]

Next ==
  \E c \in Peers :
    \/ Join(c) \/ Disconnect(c)
    \/ \E id \in ForeignIds : JoinOther(c, id)
    \/ OnMessage(c) \/ OnEvent(c) \/ SendMessage(c)
    \/ Connect(c) \/ NoticeClosed(c) \/ Arrive(c)

Spec == Init /\ [][Next]_vars

Fairness ==
  \A c \in Peers :
    /\ WF_vars(OnMessage(c)) /\ WF_vars(OnEvent(c))
    /\ WF_vars(Connect(c)) /\ WF_vars(Arrive(c))
    /\ WF_vars(NoticeClosed(c) /\ UNCHANGED moves)

FairSpec == Spec /\ Fairness

-----------------------------------------------------------------------------
(* Properties.                                                             *)

\* Every variable has its type; the queue keeps to its cap, and a client that
\* has no connection has no channel.
TypeOK ==
  /\ online \subseteq Peers /\ crashed \subseteq Peers
  /\ \A c \in Peers :
       /\ conn[c] \in [pc: 0..pcs, isInitiator: BOOLEAN, remote: 0..pcs,
                       dc: 0..pcs, state: {"none", "new", "open", "closed"}]
       /\ ~Exists(c) => conn[c] = NoConn
       /\ Len(pending[c]) <= QueueCap
       /\ localId[c] \in {0} \cup Peers \cup ForeignIds

\* What a user is shown comes in the order it was sent in and only once, over
\* however many channels, whatever is lost.
ShownInOrder ==
  \A c \in Peers : \A i, j \in DOMAIN got[c] : i < j => got[c][i] < got[c][j]

\* However offers cross, an answer meets the offer it is for: the library never
\* throws.
NoCrash == crashed = {}

\* "The peer with the SMALLER peerId is polite (yields)" (WebRTCService.cpp:54):
\* of two clients in the room one yields, the other does not.  The id compared is
\* that of the room joined last, whichever that is.
OneYields ==
  \A c \in Peers : joined[c] /\ joined[Other(c)] => Polite(c) # Polite(Other(c))

\* However offers cross, two clients that stay in the room get a channel.
ChannelOpens ==
  <>[](online = Peers /\ crashed = {})
    => <>(\A c \in Peers : IsOpen(conn[c]) /\ Matched(c))

\* A message that messageDelivered was emitted for, when it was queued, is
\* shown to the other at last.
DeliveredIsShown ==
  \A c \in Peers, n \in 1..MaxSent :
    n \in delivered[c] ~> (\E i \in DOMAIN got[Other(c)] : got[Other(c)][i] = n)
=============================================================================

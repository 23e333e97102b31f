---------------------------- MODULE MessageHandler ----------------------------
(***************************************************************************)
(* The signaling server around its registry: MessageHandler, WsSession and  *)
(* the threads of SignalingServer::run.                                    *)
(*                                                                         *)
(* A session reads one request at a time on its own strand.  The handler    *)
(* makes its registry call under the registry's mutex and only then, with   *)
(* the mutex released, posts what it has to say, one session after the      *)
(* other.  What is left of a handler is in todo; between two of its steps   *)
(* another thread may run the handler of another session.  With one thread  *)
(* (the default of main.cpp) a handler runs to its end.                     *)
(*                                                                         *)
(* A session's posted handlers, its outbox_ and the bytes on their way to   *)
(* the client keep their order: they are one queue here, outbox.  So are     *)
(* the requests a client has sent and the session has not read.             *)
(***************************************************************************)
EXTENDS RoomRegistry, Sequences

CONSTANT Workers   \* threads that run the io_context

SeqExt == INSTANCE SequencesExt

ASSUME WorkersAssumption == Workers \in Nat \ {0}

VARIABLES
  requests,  \* requests[s]: sent by the client of s, not read yet
  todo,      \* todo[s]: what the handler running on the strand of s has to do
  outbox     \* outbox[s]: sent to the client of s, not received yet

registryVars == <<db, clients, connections, nextPeerSeq, owed>>

handlerVars == <<vars, requests, todo, outbox>>

-----------------------------------------------------------------------------
(* Messages. The names in a "joined" or a "peer-joined" are left out: a peer  *)
(* id has one.                                                              *)

Joined(r, t, p, peers) ==
  [type |-> "joined", roomId |-> r, roomType |-> t, peerId |-> p,
   participants |-> peers]

BufferedMessages(r, seqs) ==
  [type |-> "buffered-messages", roomId |-> r, messages |-> seqs]

PeerJoined(r, p) == [type |-> "peer-joined", roomId |-> r, peerId |-> p]

PeerLeft(r, p) == [type |-> "peer-left", roomId |-> r, peerId |-> p]

GroupMessage(r, p, n) ==
  [type |-> "group-message", roomId |-> r, fromPeerId |-> p, messageSeq |-> n]

AckConfirm(r, n) == [type |-> "ack-confirm", roomId |-> r, upToSeq |-> n]

Error == [type |-> "error"]

-----------------------------------------------------------------------------
(* What a handler still has to do: send to some sessions, in the order of a   *)
(* list that depends on nothing, or look up the messages buffered for a      *)
(* member, under the mutex again.                                           *)

Send(to, msg) == IF to = {} THEN <<>> ELSE << [op |-> "send", to |-> to, msg |-> msg] >>

LookUp(r, p) == << [op |-> "pending", roomId |-> r, peerId |-> p] >>

\* A thread is free.
Idle == Cardinality({s \in Sessions : todo[s] # <<>>}) < Workers

\* It may run a handler on the strand of s.
Runs(s) == Idle /\ todo[s] = <<>>

Continue(s, steps) == todo' = [todo EXCEPT ![s] = steps]

Refuse(s) == UNCHANGED registryVars /\ Continue(s, Send({s}, Error))

-----------------------------------------------------------------------------
(* handleMessageImpl, by type of request.                                  *)

\* "joined" to the session, then the messages buffered for it, and at last
\* "peer-joined" to those who were online when the mutex was held.
HandleJoin(s, req) ==
  LET r == req.roomId
  IN  \/ /\ \/ JoinReconnect(s, r, req.username, req.roomType)
            \/ JoinNew(s, r, req.username, req.roomType)
         /\ \E c \in clients' \ clients :
              LET others == FindMembersByRoom(db, r) \ {c.peerId}
              IN  Continue(s,
                    Send({s}, Joined(r, c.roomType, c.peerId,
                                     {q \in others : Online(q)}))
                    \o (IF c.roomType = "group" THEN LookUp(r, c.peerId)
                        ELSE <<>>)
                    \o Send(OnlinePeers(r, c.peerId), PeerJoined(r, c.peerId)))
      \/ JoinRefused(s, r, req.username, req.roomType)
         /\ Continue(s, Send({s}, Error))
      \/ ~MayAsk(s, r, req.roomType) /\ Refuse(s)

\* The entry of s for the room a request names, if there is one.
Found(s, r) == {c \in ClientsOf(s) : c.roomId = r}

HandleLeave(s, req) ==
  LET found == {c \in Found(s, req.roomId) : c.peerId = req.peerId}
  IN  \/ \E c \in found :
           /\ Leave(c)
           /\ Continue(s, Send(OnlinePeers(c.roomId, c.peerId),
                               PeerLeft(c.roomId, c.peerId)))
      \/ found = {} /\ Refuse(s)

\* Mutant of HandleGroupMessage: the sender is not sent its own message.
HandleGroupMessageNoEcho(s, req) ==
  \/ \E c \in Found(s, req.roomId) :
       /\ Broadcast(c)
       /\ Continue(s, Send(OnlinePeers(c.roomId, c.peerId),
                           GroupMessage(c.roomId, c.peerId, db'.nextSeq)))
  \/ Found(s, req.roomId) = {} /\ Refuse(s)

\* To the sender first, then to the other members online.
HandleGroupMessage(s, req) ==
  \/ \E c \in Found(s, req.roomId) :
       LET message == GroupMessage(c.roomId, c.peerId, db'.nextSeq)
       IN  /\ Broadcast(c)
           /\ Continue(s, Send({s}, message)
                          \o Send(OnlinePeers(c.roomId, c.peerId), message))
  \/ Found(s, req.roomId) = {} /\ Refuse(s)

HandleAck(s, req) ==
  \/ \E c \in Found(s, req.roomId) :
       /\ Acknowledge(c, req.upToSeq)
       /\ Continue(s, Send({s}, AckConfirm(req.roomId, req.upToSeq)))
  \/ Found(s, req.roomId) = {} /\ Refuse(s)

-----------------------------------------------------------------------------
(* WsSession.                                                              *)

\* onRead: the next request.
OnRead(s) ==
  /\ session[s] = "open" /\ Runs(s) /\ requests[s] # <<>>
  /\ LET req == Head(requests[s])
     IN  \/ req.type = "join" /\ HandleJoin(s, req)
         \/ req.type = "leave" /\ HandleLeave(s, req)
         \/ req.type = "group-message" /\ HandleGroupMessage(s, req)
         \/ req.type = "ack" /\ HandleAck(s, req)
  /\ requests' = [requests EXCEPT ![s] = Tail(@)]
  /\ UNCHANGED <<session, outbox>>

\* sendText of the next message to one of its sessions; one whose session is
\* closed goes nowhere.
SendText(s) ==
  /\ todo[s] # <<>> /\ Head(todo[s]).op = "send"
  /\ LET step == Head(todo[s])
     IN  \E x \in step.to :
           /\ Continue(s, Send(step.to \ {x}, step.msg) \o Tail(todo[s]))
           /\ outbox' = IF session[x] = "open"
                        THEN [outbox EXCEPT ![x] = Append(@, step.msg)]
                        ELSE outbox
  /\ UNCHANGED <<vars, requests>>

\* getPendingMessages, and "buffered-messages" to the session.
SendPending(s) ==
  /\ todo[s] # <<>> /\ Head(todo[s]).op = "pending"
  /\ LET step    == Head(todo[s])
         pending == PendingMessages(step.peerId)
     IN  Continue(s, (IF pending = {} THEN <<>>
                      ELSE Send({s}, BufferedMessages(step.roomId, pending)))
                     \o Tail(todo[s]))
  /\ UNCHANGED <<vars, requests, outbox>>

\* A connection is accepted; its client may send at once. No handler still
\* holds a session that had this address before.
OnAccept(s) ==
  /\ Idle /\ Accept(s)
  /\ \A x \in Sessions : \A i \in DOMAIN todo[x] :
       x # s /\ (todo[x][i].op = "send" => s \notin todo[x][i].to)
  /\ UNCHANGED <<todo, outbox>>

\* disconnect() lists the session's rooms in some order, each with the others
\* who are online in it; a room with nobody else online costs nothing.
Farewells(s) ==
  LET told == {c \in ClientsOf(s) : OnlinePeers(c.roomId, c.peerId) # {}}
  IN  {[i \in DOMAIN order |->
          [op  |-> "send",
           to  |-> OnlinePeers(order[i].roomId, order[i].peerId),
           msg |-> PeerLeft(order[i].roomId, order[i].peerId)]] :
         order \in SeqExt!SetToSeqs(told)}

\* Mutant of Cleanup: the others are not told.
CleanupSilent(s) ==
  /\ Runs(s) /\ Close(s)
  /\ requests' = [requests EXCEPT ![s] = <<>>]
  /\ outbox' = [outbox EXCEPT ![s] = <<>>]
  /\ UNCHANGED todo

\* cleanup: what was not read or not written yet is lost.
Cleanup(s) ==
  /\ Runs(s) /\ Close(s)
  /\ \E farewells \in Farewells(s) : Continue(s, farewells)
  /\ requests' = [requests EXCEPT ![s] = <<>>]
  /\ outbox' = [outbox EXCEPT ![s] = <<>>]

-----------------------------------------------------------------------------
HandlerInit ==
  /\ Init
  /\ requests = [s \in Sessions |-> <<>>]
  /\ todo = [s \in Sessions |-> <<>>]
  /\ outbox = [s \in Sessions |-> <<>>]

-----------------------------------------------------------------------------
(* Types.                                                                  *)

\* What the server may say when n messages have been sent.
MessagesUpTo(n) ==
  [type: {"joined"}, roomId: RoomIds, roomType: RoomTypes, peerId: PeerIds,
   participants: SUBSET PeerIds]
  \cup [type: {"buffered-messages"}, roomId: RoomIds, messages: SUBSET (1..n)]
  \cup [type: {"peer-joined", "peer-left"}, roomId: RoomIds, peerId: PeerIds]
  \cup [type: {"group-message"}, roomId: RoomIds, fromPeerId: PeerIds,
        messageSeq: 1..n]
  \cup [type: {"ack-confirm"}, roomId: RoomIds, upToSeq: 1..n]
  \cup {Error}

StepsUpTo(n) ==
  [op: {"send"}, to: (SUBSET Sessions) \ {{}}, msg: MessagesUpTo(n)]
  \cup [op: {"pending"}, roomId: RoomIds, peerId: PeerIds]

\* What handlers still have to say, and what is on its way, has its type.
HandlerTypeOK ==
  /\ TypeOK
  /\ todo \in [Sessions -> Seq(StepsUpTo(db.nextSeq))]
  /\ outbox \in [Sessions -> Seq(MessagesUpTo(db.nextSeq))]
=============================================================================

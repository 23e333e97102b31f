------------------------------ MODULE GroupChat ------------------------------
(***************************************************************************)
(* Group rooms from end to end: the clients, each a CommunicationController *)
(* on a SignalingService, and the signaling server.  A user has one client, *)
(* which has at most one connection at a time.                              *)
(*                                                                         *)
(* A client loses its connection before the server knows: the session stays *)
(* open, and online, until the server's own timeout or read error.          *)
(***************************************************************************)
EXTENDS MessageHandler

CONSTANTS
  NoLink,       \* a client that is not connected
  Leavers,      \* the users that leave chats
  MaxRequests,  \* bound: requests on their way to a session
  MaxMoves      \* bound: joins, leaves, posts and lost connections in a run

ASSUME GroupChatAssumption == NoLink \notin Sessions /\ Leavers \subseteq Usernames

VARIABLES
  link,   \* link[u]: the session at the other end of the socket of u
  rooms,  \* rooms[u]: m_rooms, room -> [myPeerId, participants]
  shown,  \* history: what u was shown of a room since it was "joined", in order
  unseen, \* history: <<user, room, n>>, messages sent while the user was member
  moves   \* history: the moves so far

clientVars == <<link, rooms, shown>>

chatVars == <<handlerVars, clientVars, unseen, moves>>

\* peer id 0 is the empty string of a RoomState before "joined".
NoPeer == 0

Fresh == [myPeerId |-> NoPeer, participants |-> {}]

-----------------------------------------------------------------------------
(* Requests.                                                               *)

JoinRequest(u, r) ==
  [type |-> "join", roomId |-> r, username |-> u, roomType |-> "group"]

LeaveRequest(r, p) == [type |-> "leave", roomId |-> r, peerId |-> p]

PostRequest(r) == [type |-> "group-message", roomId |-> r]

\* Mutant of AckRequest: acknowledges the number that is to come next.
AckNextRequest(r, n) == [type |-> "ack", roomId |-> r, upToSeq |-> n + 1]

AckRequest(r, n) == [type |-> "ack", roomId |-> r, upToSeq |-> n]

\* SignalingService::sendMessage: without a connection the request is dropped.
\* On one the server has closed already it is lost.
Request(u, reqs) ==
  requests' = IF link[u] # NoLink /\ session[link[u]] = "open"
              THEN [requests EXCEPT ![link[u]] = @ \o reqs]
              ELSE requests

HasRoom(u, k) ==
  link[u] # NoLink => Len(requests[link[u]]) + k <= MaxRequests

Move == moves < MaxMoves /\ moves' = moves + 1

\* History: a message is unseen by those who are members when it is sent, and
\* by nobody who has left.
NoteSent ==
  unseen' =
    {x \in unseen : \E p \in DOMAIN db'.members :
        db'.members[p].username = x[1] /\ db'.members[p].room_id = x[2]}
    \cup {<<db'.members[p].username, db'.members[p].room_id, n>> :
            p \in {q \in DOMAIN db'.members : owed'[q] \ owed[q] # {}},
            n \in {db'.nextSeq}}

-----------------------------------------------------------------------------
(* What the application does.                                              *)

\* joinChat: also for a chat that is joined already.
JoinChat(u, r) ==
  /\ Move /\ HasRoom(u, 1)
  /\ Request(u, <<JoinRequest(u, r)>>)
  /\ rooms' = [rooms EXCEPT ![u] = Replace(@, r, Fresh)]
  /\ UNCHANGED <<vars, todo, outbox, link, shown, unseen>>

\* leaveChat: before "joined" its peer id is still empty.
LeaveChat(u, r) ==
  /\ u \in Leavers /\ Move /\ HasRoom(u, 1)
  /\ r \in DOMAIN rooms[u]
  /\ Request(u, <<LeaveRequest(r, rooms[u][r].myPeerId)>>)
  /\ rooms' = [rooms EXCEPT ![u] = Remove(@, {r})]
  /\ UNCHANGED <<vars, todo, outbox, link, shown, unseen>>

\* Group messages sent and not stored yet.
Posting ==
  {x \in Sessions \X (1..MaxRequests) :
     /\ x[2] <= Len(requests[x[1]])
     /\ requests[x[1]][x[2]].type = "group-message"}

\* handleGroupMessage.
Post(u, r) ==
  /\ Move /\ HasRoom(u, 1) /\ db.nextSeq + Cardinality(Posting) < MaxMsgSeq
  /\ link[u] # NoLink /\ r \in DOMAIN rooms[u]
  /\ Request(u, <<PostRequest(r)>>)
  /\ UNCHANGED <<vars, todo, outbox, clientVars, unseen>>

-----------------------------------------------------------------------------
(* The connection.                                                         *)

\* onSignalingConnected: join every room again.
OnConnected(u, s) ==
  /\ link[u] = NoLink /\ \A v \in Usernames : link[v] # s
  /\ OnAccept(s)
  /\ link' = [link EXCEPT ![u] = s]
  /\ \E order \in SeqExt!SetToSeqs(DOMAIN rooms[u]) :
       requests' = [requests EXCEPT ![s] =
                      [i \in DOMAIN order |-> JoinRequest(u, order[i])]]
  /\ UNCHANGED <<rooms, shown, unseen, moves>>

\* onSignalingDisconnected, when the connection is lost or has been closed by
\* the server. What the client sent may still be read.
OnDisconnected(u) ==
  /\ link[u] # NoLink
  /\ IF session[link[u]] = "open" THEN Move ELSE UNCHANGED moves
  /\ link' = [link EXCEPT ![u] = NoLink]
  /\ rooms' = [rooms EXCEPT ![u] = [r \in DOMAIN @ |-> Fresh]]
  /\ outbox' = [outbox EXCEPT ![link[u]] = <<>>]
  /\ UNCHANGED <<vars, requests, todo, shown, unseen>>

-----------------------------------------------------------------------------
(* The handlers of the client.                                             *)

\* The RoomState of room r becomes state; a room not in m_rooms is ignored.
UpdateRoom(u, r, state) ==
  rooms' = IF r \in DOMAIN rooms[u]
           THEN [rooms EXCEPT ![u][r] = state] ELSE rooms

\* Mutant of OnJoined: waits for "peer-joined" to learn of the others.
OnJoinedAlone(u, m) ==
  /\ UpdateRoom(u, m.roomId, [rooms[u][m.roomId] EXCEPT !.myPeerId = m.peerId])
  /\ shown' = [shown EXCEPT ![u][m.roomId] = <<>>]
  /\ UNCHANGED <<requests, unseen>>

\* onSignalingJoined adds the participants it is told of.
OnJoined(u, m) ==
  /\ UpdateRoom(u, m.roomId,
       [myPeerId |-> m.peerId,
        participants |-> rooms[u][m.roomId].participants \cup m.participants])
  /\ shown' = [shown EXCEPT ![u][m.roomId] = <<>>]
  /\ UNCHANGED <<requests, unseen>>

OnPeerJoined(u, m) ==
  /\ UpdateRoom(u, m.roomId,
       [rooms[u][m.roomId] EXCEPT !.participants = @ \cup {m.peerId}])
  /\ UNCHANGED <<requests, shown, unseen>>

OnPeerLeft(u, m) ==
  /\ UpdateRoom(u, m.roomId,
       [rooms[u][m.roomId] EXCEPT !.participants = @ \ {m.peerId}])
  /\ UNCHANGED <<requests, shown, unseen>>

\* onSignalingGroupMessageReceived, for each of some messages in their order:
\* show it, whether the room is still joined or not, and acknowledge it.
Show(u, r, seqs) ==
  /\ HasRoom(u, Len(seqs))
  /\ Request(u, [i \in DOMAIN seqs |-> AckRequest(r, seqs[i])])
  /\ shown' = [shown EXCEPT ![u][r] = @ \o seqs]
  /\ unseen' = unseen \ {<<u, r, seqs[i]>> : i \in DOMAIN seqs}
  /\ UNCHANGED rooms

OnGroupMessage(u, m) == Show(u, m.roomId, <<m.messageSeq>>)

\* Mutants of OnBufferedMessages: the last one only; the newest first.
OnBufferedMessagesLast(u, m) ==
  Show(u, m.roomId, <<CHOOSE n \in m.messages : \A k \in m.messages : k <= n>>)

OnBufferedMessagesNewest(u, m) ==
  Show(u, m.roomId, SeqExt!SetToSortSeq(m.messages, >))

\* The one sequence of the numbers ns by which the server orders them.
Ascending(ns) ==
  {seqs \in [1..Cardinality(ns) -> ns] :
     \A i, j \in DOMAIN seqs : i < j => seqs[i] < seqs[j]}

\* onSignalingBufferedMessagesReceived: the server sends them by their number.
OnBufferedMessages(u, m) ==
  \E seqs \in Ascending(m.messages) : Show(u, m.roomId, seqs)

\* "error" and "ack-confirm" change nothing in the controller.
OnReply(m) ==
  m.type \in {"error", "ack-confirm"} /\ UNCHANGED <<requests, rooms, shown, unseen>>

\* onTextMessageReceived.
OnMessage(u) ==
  /\ link[u] # NoLink /\ outbox[link[u]] # <<>>
  /\ LET m == Head(outbox[link[u]])
     IN  \/ m.type = "joined" /\ OnJoined(u, m)
         \/ m.type = "peer-joined" /\ OnPeerJoined(u, m)
         \/ m.type = "peer-left" /\ OnPeerLeft(u, m)
         \/ m.type = "group-message" /\ OnGroupMessage(u, m)
         \/ m.type = "buffered-messages" /\ OnBufferedMessages(u, m)
         \/ OnReply(m)
  /\ outbox' = [outbox EXCEPT ![link[u]] = Tail(@)]
  /\ UNCHANGED <<vars, todo, link, moves>>

-----------------------------------------------------------------------------
Linked(s) == \E u \in Usernames : link[u] = s

Handler(s) ==
  \/ OnRead(s) /\ NoteSent /\ UNCHANGED <<clientVars, moves>>
  \/ (SendText(s) \/ SendPending(s)) /\ UNCHANGED <<clientVars, unseen, moves>>

\* A read error or a timeout ends a session whose client is gone; as a move,
\* it may end any.
Expire(s) ==
  /\ Cleanup(s)
  /\ IF Linked(s) THEN Move ELSE UNCHANGED moves
  /\ UNCHANGED <<clientVars, unseen>>

ChatInit ==
  /\ HandlerInit
  /\ link = [u \in Usernames |-> NoLink]
  /\ rooms = [u \in Usernames |-> EmptyTable]
  /\ shown = [u \in Usernames |-> [r \in RoomIds |-> <<>>]]
  /\ unseen = {}
  /\ moves = 0

ChatNext ==
  \/ \E u \in Usernames :
       \/ \E r \in RoomIds : JoinChat(u, r) \/ LeaveChat(u, r) \/ Post(u, r)
       \/ \E s \in Sessions : OnConnected(u, s)
       \/ OnDisconnected(u)
       \/ OnMessage(u)
  \/ \E s \in Sessions : Handler(s) \/ Expire(s)

ChatSpec == ChatInit /\ [][ChatNext]_chatVars

\* The io_context runs what is ready, clients process what arrives, notice that
\* the server has closed a connection and connect again, and a session without
\* a client times out. Moves are not fair.
Fairness ==
  /\ \A s \in Sessions : WF_chatVars(Handler(s))
  /\ \A s \in Sessions : WF_chatVars(~Linked(s) /\ Expire(s))
  /\ \A u \in Usernames : WF_chatVars(OnMessage(u))
  /\ \A u \in Usernames : WF_chatVars(UNCHANGED moves /\ OnDisconnected(u))
  /\ \A u \in Usernames : WF_chatVars(\E s \in Sessions : OnConnected(u, s))

FairChatSpec == ChatSpec /\ Fairness

-----------------------------------------------------------------------------
(* Properties.                                                             *)

\* What clients may ask when n messages have been sent.
RequestsUpTo(n) ==
  [type: {"join"}, roomId: RoomIds, username: Usernames, roomType: {"group"}]
  \cup [type: {"leave"}, roomId: RoomIds, peerId: PeerIds \cup {NoPeer}]
  \cup [type: {"group-message"}, roomId: RoomIds]
  \cup [type: {"ack"}, roomId: RoomIds, upToSeq: 1..n]

RoomStates ==
  [myPeerId: PeerIds \cup {NoPeer}, participants: SUBSET PeerIds]

\* Every variable has its type; no number is under way, shown or unseen that
\* the server has not handed out.
ChatTypeOK ==
  /\ HandlerTypeOK
  /\ requests \in [Sessions -> Seq(RequestsUpTo(db.nextSeq))]
  /\ link \in [Usernames -> Sessions \cup {NoLink}]
  /\ DOMAIN rooms = Usernames
  /\ \A u \in Usernames :
       IsTable(rooms[u], RoomIds, RoomStates) /\ IsFiniteSet(DOMAIN rooms[u])
  /\ shown \in [Usernames -> [RoomIds -> Seq(SentSeqs)]]
  /\ unseen \subseteq Usernames \X RoomIds \X SentSeqs
  /\ moves \in Nat

\* The chat uses the registry as the registry is specified, however many
\* threads and clients there are: all that holds of RoomRegistry holds of it.
\* Above all, a client acknowledges only numbers the server has handed out.
UsesRegistry == Spec

\* A message sent while a user was a member, and not shown to that user, is
\* still buffered for that user: nobody acknowledges what has not been shown.
UnseenIsBuffered ==
  \A x \in unseen :
    /\ Namesakes(x[2], x[1]) # {}
    /\ x[3] \in PendingMessages(MemberNamed(x[2], x[1]))

\* Between two times it is joined, a user is shown the messages of a room in
\* the order of their numbers and none of them twice.
ShownInOrder ==
  \A u \in Usernames, r \in RoomIds :
    LET s == shown[u][r] IN \A i, j \in DOMAIN s : i < j => s[i] < s[j]

Quiet(u) ==
  /\ link[u] # NoLink /\ session[link[u]] = "open"
  /\ requests[link[u]] = <<>> /\ outbox[link[u]] = <<>>
  /\ \A s \in Sessions : todo[s] = <<>>

OnlineOthers(r, p) == {q \in FindMembersByRoom(db, r) \ {p} : Online(q)}

\* When nothing is on its way to or from a client, it misses nobody online.
NobodyMissing ==
  \A u \in Usernames : Quiet(u) =>
    \A r \in DOMAIN rooms[u] :
      LET state == rooms[u][r]
      IN  state.myPeerId # NoPeer =>
            OnlineOthers(r, state.myPeerId) \subseteq state.participants

\* Then a client also sees nobody who is gone, unless it leaves chats itself:
\* a "peer-joined" of before its leave may reach the room it has joined again.
NoGhosts ==
  \A u \in Usernames \ Leavers : Quiet(u) =>
    \A r \in DOMAIN rooms[u] :
      LET state == rooms[u][r]
      IN  state.myPeerId # NoPeer =>
            state.participants \subseteq OnlineOthers(r, state.myPeerId)

\* A member that stays online acknowledges every message it owes, its own
\* included.
OwedIsAcknowledged ==
  \A p \in PeerIds, n \in Seqs :
    n \in owed[p] /\ Online(p) ~> n \notin owed[p] \/ ~Online(p)

\* "Re-join all rooms we were in before disconnect": a client that stays
\* connected is at last in each of its rooms.  It is not, if the server has
\* not noticed the loss of its old connection; README 6.
StaysJoined ==
  \A u \in Usernames, r \in RoomIds :
    <>[](link[u] # NoLink /\ r \in DOMAIN rooms[u])
      => <>(link[u] # NoLink /\ r \in DOMAIN rooms[u]
            /\ rooms[u][r].myPeerId # NoPeer)
=============================================================================

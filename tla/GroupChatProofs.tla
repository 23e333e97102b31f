---------------------------- MODULE GroupChatProofs ----------------------------
(***************************************************************************)
(* Theorems about the chat as a whole, in three parts.                      *)
(*                                                                          *)
(* For any number of clients, sessions, rooms and worker threads every step  *)
(* it takes is a step of the registry as RoomRegistry specifies it.  So what  *)
(* is proved of the registry alone holds of the server as its clients use it. *)
(*                                                                          *)
(* What the clients of group rooms are shown is in the order of the numbers, *)
(* and nothing twice.  None is lost, because what was sent while a user was  *)
(* a member stays buffered until that user has seen it.  For these two the   *)
(* server must have one worker thread, the default of main.cpp: a handler    *)
(* then runs to its end before another begins, and a message is sent to all  *)
(* before the next is numbered.                                             *)
(***************************************************************************)
EXTENDS GroupChat, RoomRegistryProofs, SequenceTheorems

------------------------------------------------------------------------------
(* The chat takes steps of the registry.                                   *)

(***************************************************************************)
(* As more messages are sent, more may be said; what has been said stays     *)
(* among what may be said.                                                 *)
(***************************************************************************)
LEMMA MoreMayBeSaid ==
  ASSUME NEW m \in Nat, NEW n \in Nat, m <= n
  PROVE  /\ MessagesUpTo(m) \subseteq MessagesUpTo(n)
         /\ StepsUpTo(m) \subseteq StepsUpTo(n)
         /\ RequestsUpTo(m) \subseteq RequestsUpTo(n)
<1>1. 1..m \subseteq 1..n
  OBVIOUS
<1>2. MessagesUpTo(m) \subseteq MessagesUpTo(n)
  BY <1>1, ZenonT(30) DEF MessagesUpTo
<1>3. StepsUpTo(m) \subseteq StepsUpTo(n)
  BY <1>2 DEF StepsUpTo
<1>4. RequestsUpTo(m) \subseteq RequestsUpTo(n)
  BY <1>1 DEF RequestsUpTo
<1>5. QED
  BY <1>2, <1>3, <1>4

(***************************************************************************)
(* What a handler has to do is a sequence of steps, also when it sends to    *)
(* nobody.                                                                 *)
(***************************************************************************)
LEMMA SendIsSteps ==
  ASSUME NEW n, NEW to \in SUBSET Sessions, NEW msg \in MessagesUpTo(n)
  PROVE  Send(to, msg) \in Seq(StepsUpTo(n))
<1>1. CASE to = {}
  BY <1>1, EmptySeq DEF Send
<1>2. CASE to # {}
  <2>1. [op |-> "send", to |-> to, msg |-> msg] \in StepsUpTo(n)
    BY <1>2 DEF StepsUpTo
  <2>2. QED
    BY <1>2, <2>1 DEF Send
<1>3. QED
  BY <1>1, <1>2

(***************************************************************************)
(* So is the look-up of buffered messages.                                  *)
(***************************************************************************)
LEMMA LookUpIsSteps ==
  ASSUME NEW n, NEW r \in RoomIds, NEW p \in PeerIds
  PROVE  LookUp(r, p) \in Seq(StepsUpTo(n))
<1>1. [op |-> "pending", roomId |-> r, peerId |-> p] \in StepsUpTo(n)
  BY DEF StepsUpTo
<1>2. QED
  BY <1>1 DEF LookUp

(***************************************************************************)
(* The messages there are have their types.                                *)
(***************************************************************************)
LEMMA MessagesAreTyped ==
  ASSUME NEW n \in Nat, NEW r \in RoomIds, NEW p \in PeerIds
  PROVE  /\ \A t \in RoomTypes, ps \in SUBSET PeerIds :
              Joined(r, t, p, ps) \in MessagesUpTo(n)
         /\ PeerJoined(r, p) \in MessagesUpTo(n)
         /\ PeerLeft(r, p) \in MessagesUpTo(n)
         /\ \A k \in 1..n : GroupMessage(r, p, k) \in MessagesUpTo(n)
         /\ \A k \in 1..n : AckConfirm(r, k) \in MessagesUpTo(n)
         /\ \A ks \in SUBSET (1..n) : BufferedMessages(r, ks) \in MessagesUpTo(n)
         /\ Error \in MessagesUpTo(n)
<1>1. \A t \in RoomTypes, ps \in SUBSET PeerIds :
        Joined(r, t, p, ps) \in MessagesUpTo(n)
  BY DEF Joined, MessagesUpTo
<1>2. /\ PeerJoined(r, p) \in MessagesUpTo(n)
      /\ PeerLeft(r, p) \in MessagesUpTo(n)
  BY DEF PeerJoined, PeerLeft, MessagesUpTo
<1>3. \A k \in 1..n : GroupMessage(r, p, k) \in MessagesUpTo(n)
  BY DEF GroupMessage, MessagesUpTo
<1>4. \A k \in 1..n : AckConfirm(r, k) \in MessagesUpTo(n)
  BY DEF AckConfirm, MessagesUpTo
<1>5. \A ks \in SUBSET (1..n) : BufferedMessages(r, ks) \in MessagesUpTo(n)
  BY DEF BufferedMessages, MessagesUpTo
<1>6. Error \in MessagesUpTo(n)
  BY DEF MessagesUpTo
<1>7. QED
  BY <1>1, <1>2, <1>3, <1>4, <1>5, <1>6

-----------------------------------------------------------------------------
(* The registry behind the handlers.                                       *)

(***************************************************************************)
(* A delivery goes to sessions.                                            *)
(***************************************************************************)
LEMMA DeliveriesGoToSessions ==
  ASSUME TypeOK, NEW r, NEW p
  PROVE  OnlinePeers(r, p) \subseteq Sessions
BY DEF OnlinePeers, Online, TypeOK, RamTypeOK, IsTable

(***************************************************************************)
(* What is buffered for a member are numbers handed out.                    *)
(***************************************************************************)
LEMMA PendingWasSent ==
  ASSUME RegistryInv, NEW p
  PROVE  PendingMessages(p) \in SUBSET SentSeqs
<1>1. \A n \in DOMAIN db.messages : n \in SentSeqs
  BY DEF RegistryInv, StoreConsistent, MessagesHaveRooms, TypeOK, IsDb, IsTable,
         Seqs, SentSeqs
<1>2. QED
  BY <1>1 DEF PendingMessages, GetMessagesAfter, MessagesOfRoom

(***************************************************************************)
(* There is one entry of clients_ for each member that is online, so there   *)
(* are finitely many.                                                      *)
(***************************************************************************)
LEMMA ClientsAreFinite ==
  ASSUME RegistryInv
  PROVE  IsFiniteSet(clients)
<1> DEFINE id == [c \in clients |-> c.peerId]
<1>1. IsFiniteSet(PeerIds)
  BY FS_Interval, RegistryAssumption DEF PeerIds
<1>2. id \in Injection(clients, PeerIds)
  BY DEF Injection, IsInjective, RegistryInv, TypeOK, RamTypeOK, ClientInfo,
         ConnectionsMatchClients
<1>3. QED
  BY <1>1, <1>2, FS_Injection

(***************************************************************************)
(* What disconnect() has to say is a sequence of steps.                     *)
(***************************************************************************)
LEMMA FarewellsAreSteps ==
  ASSUME RegistryInv, NEW s, NEW farewells \in Farewells(s), NEW n \in Nat
  PROVE  farewells \in Seq(StepsUpTo(n))
<1> DEFINE told == {c \in ClientsOf(s) : OnlinePeers(c.roomId, c.peerId) # {}}
           goodbye(c) == [op  |-> "send",
                          to  |-> OnlinePeers(c.roomId, c.peerId),
                          msg |-> PeerLeft(c.roomId, c.peerId)]
<1>1. PICK order \in SeqExt!SetToSeqs(told) :
        farewells = [i \in DOMAIN order |-> goodbye(order[i])]
  BY DEF Farewells
<1>2. told \subseteq clients /\ IsFiniteSet(told)
  BY ClientsAreFinite, FS_Subset DEF ClientsOf
<1>3. Cardinality(told) \in Nat
  BY <1>2, FS_CardinalityType
<1>4. order \in [1..Cardinality(told) -> told]
  BY DEF SeqExt!SetToSeqs, SeqExt!Cardinality, Cardinality
<1>5. \A c \in told : goodbye(c) \in StepsUpTo(n)
  <2>1. SUFFICES ASSUME NEW c \in told
                 PROVE  goodbye(c) \in StepsUpTo(n)
    OBVIOUS
  <2>2. c.roomId \in RoomIds /\ c.peerId \in PeerIds
    BY <1>2 DEF RegistryInv, TypeOK, RamTypeOK, ClientInfo
  <2>3. PeerLeft(c.roomId, c.peerId) \in MessagesUpTo(n)
    BY <2>2, MessagesAreTyped
  <2>4. OnlinePeers(c.roomId, c.peerId) \in (SUBSET Sessions) \ {{}}
    BY DeliveriesGoToSessions DEF RegistryInv
  <2>5. QED
    BY <2>3, <2>4 DEF StepsUpTo
<1> HIDE DEF told, goodbye
<1>6. DOMAIN order = 1..Cardinality(told)
  BY <1>4
<1>7. \A i \in 1..Cardinality(told) : goodbye(order[i]) \in StepsUpTo(n)
  BY <1>4, <1>5
<1>8. farewells = [i \in 1..Cardinality(told) |-> goodbye(order[i])]
  BY <1>1, <1>6
<1>9. QED
  BY <1>3, <1>7, <1>8

(***************************************************************************)
(* A request changes the registry as one of its methods does, or not at all. *)
(***************************************************************************)
LEMMA ReadUsesRegistry ==
  ASSUME ChatTypeOK, NEW s \in Sessions, OnRead(s)
  PROVE  [Next]_vars
<1> DEFINE n   == db.nextSeq
           req == Head(requests[s])
<1>1. /\ session[s] = "open" /\ UNCHANGED session
      /\ requests[s] \in Seq(RequestsUpTo(n)) /\ requests[s] # <<>>
  BY DEF OnRead, ChatTypeOK
<1>2. req \in RequestsUpTo(n)
  BY <1>1, HeadTailProperties
<1> HIDE DEF req
<1>3. ASSUME UNCHANGED registryVars
      PROVE  [Next]_vars
  BY <1>1, <1>3 DEF registryVars, vars
<1>4. ASSUME Joins(s)
      PROVE  [Next]_vars
  BY <1>1, <1>4 DEF Next
<1>5. ASSUME NEW c \in ClientsOf(s), Requests(c, SentSeqs)
      PROVE  [Next]_vars
  BY <1>1, <1>5 DEF Next
<1>6. ASSUME req.type = "join", HandleJoin(s, req)
      PROVE  [Next]_vars
  <2>1. /\ req.roomId \in RoomIds /\ req.username \in Usernames
        /\ req.roomType \in RequestedTypes
    BY <1>2, <1>6 DEF RequestsUpTo, RequestedTypes, RoomTypes
  <2>2. \/ JoinReconnect(s, req.roomId, req.username, req.roomType)
        \/ JoinNew(s, req.roomId, req.username, req.roomType)
        \/ JoinRefused(s, req.roomId, req.username, req.roomType)
        \/ UNCHANGED registryVars
    BY <1>6 DEF HandleJoin, Refuse
  <2>3. QED
    BY <1>3, <1>4, <2>1, <2>2 DEF Joins
<1>7. ASSUME HandleLeave(s, req)
      PROVE  [Next]_vars
  <2>1. (\E c \in ClientsOf(s) : Leave(c)) \/ UNCHANGED registryVars
    BY <1>7 DEF HandleLeave, Found, Refuse
  <2>2. QED
    BY <1>3, <1>5, <2>1 DEF Requests
<1>8. ASSUME HandleGroupMessage(s, req)
      PROVE  [Next]_vars
  <2>1. (\E c \in ClientsOf(s) : Broadcast(c)) \/ UNCHANGED registryVars
    BY <1>8 DEF HandleGroupMessage, Found, Refuse
  <2>2. QED
    BY <1>3, <1>5, <2>1 DEF Requests
<1>9. ASSUME req.type = "ack", HandleAck(s, req)
      PROVE  [Next]_vars
  <2>1. req.upToSeq \in SentSeqs
    BY <1>2, <1>9 DEF RequestsUpTo, SentSeqs
  <2>2. (\E c \in ClientsOf(s) : Acknowledge(c, req.upToSeq))
        \/ UNCHANGED registryVars
    BY <1>9 DEF HandleAck, Found, Refuse
  <2>3. QED
    BY <1>3, <1>5, <2>1, <2>2 DEF Requests
<1>10. QED
  BY <1>6, <1>7, <1>8, <1>9 DEF OnRead, req

(***************************************************************************)
(* So does every step of the chat: sessions come and go as they do in the    *)
(* registry, and nothing else touches it.                                  *)
(***************************************************************************)
LEMMA ChatStepsAreRegistrySteps ==
  ASSUME ChatTypeOK, [ChatNext]_chatVars
  PROVE  [Next]_vars
<1>1. CASE UNCHANGED chatVars
  BY <1>1 DEF chatVars, handlerVars
<1>2. ASSUME NEW u \in Usernames, NEW r \in RoomIds,
             JoinChat(u, r) \/ LeaveChat(u, r) \/ Post(u, r)
      PROVE  [Next]_vars
  BY <1>2 DEF JoinChat, LeaveChat, Post
<1>3. ASSUME NEW u \in Usernames, NEW s \in Sessions, OnConnected(u, s)
      PROVE  [Next]_vars
  BY <1>3 DEF OnConnected, OnAccept, Next
<1>4. ASSUME NEW u \in Usernames, OnDisconnected(u) \/ OnMessage(u)
      PROVE  [Next]_vars
  BY <1>4 DEF OnDisconnected, OnMessage
<1>5. ASSUME NEW s \in Sessions, Handler(s)
      PROVE  [Next]_vars
  BY <1>5, ReadUsesRegistry DEF Handler, SendText, SendPending
<1>6. ASSUME NEW s \in Sessions, Expire(s)
      PROVE  [Next]_vars
  BY <1>6 DEF Expire, Cleanup, Next
<1>7. QED
  BY <1>1, <1>2, <1>3, <1>4, <1>5, <1>6 DEF ChatNext

(***************************************************************************)
(* Numbers are handed out in ascending order.                               *)
(***************************************************************************)
LEMMA NumbersOnlyGrow ==
  ASSUME RegistryInv, [Next]_vars
  PROVE  db.nextSeq \in Nat /\ db'.nextSeq \in Nat /\ db.nextSeq <= db'.nextSeq
<1> DEFINE Grows == db.nextSeq <= db'.nextSeq
<1>1. IsDb(db) /\ RamTypeOK /\ db.nextSeq \in Nat
  BY DEF RegistryInv, TypeOK, IsDb
<1>2. RegistryInv' /\ db'.nextSeq \in Nat
  BY NextRegistryInv DEF RegistryInv, TypeOK, IsDb
<1>3. ASSUME UNCHANGED db
      PROVE  Grows
  BY <1>1, <1>3
<1>4. ASSUME NEW s \in Sessions, Joins(s)
      PROVE  Grows
  <2>1. PICK r \in RoomIds, u \in Usernames, t \in RequestedTypes :
          \/ JoinRefused(s, r, u, t)
          \/ JoinReconnect(s, r, u, t)
          \/ JoinNew(s, r, u, t)
    BY <1>4 DEF Joins
  <2>2. IsDb(WithRoom(r, t)) /\ WithRoom(r, t).nextSeq = db.nextSeq
    BY <1>1, WithRoomDb
  <2>3. \A p, row : SaveMember(WithRoom(r, t), p, row).nextSeq = db.nextSeq
    BY <2>2 DEF SaveMember, IsDb
  <2>4. \/ db' = WithRoom(r, t)
        \/ \E p, row : db' = SaveMember(WithRoom(r, t), p, row)
    BY <2>1, Zenon DEF JoinRefused, JoinReconnect, JoinNew
  <2>5. db'.nextSeq = db.nextSeq
    BY <2>2, <2>3, <2>4
  <2>6. QED
    BY <1>1, <2>5
<1>5. ASSUME NEW c \in clients, Requests(c, SentSeqs)
      PROVE  Grows
  <2>1. ASSUME NEW p \in PeerIds, Route(c, p)
        PROVE  Grows
    BY <1>3, <2>1 DEF Route
  <2>2. ASSUME Broadcast(c)
        PROVE  Grows
    BY <1>1, <2>2 DEF Broadcast, SaveGroupMessage
  <2>3. ASSUME NEW n \in SentSeqs, Acknowledge(c, n)
        PROVE  Grows
    <3>1. n \in Int
      BY <1>1 DEF SentSeqs
    <3>2. /\ IsDb(UpdateLastAckedSeq(db, c.peerId, n))
          /\ UpdateLastAckedSeq(db, c.peerId, n).nextSeq = db.nextSeq
      BY <1>1, <3>1, UpdateLastAckedSeqDb
    <3>3. db'.nextSeq = db.nextSeq
      BY <2>3, <3>2, RemoveMessagesDb DEF Acknowledge, CleanupMessages
    <3>4. QED
      BY <1>1, <3>3
  <2>4. ASSUME Leave(c)
        PROVE  Grows
    <3>1. WithoutMember(c).nextSeq = db.nextSeq
      BY <1>1, LeaveMembers
    <3>2. db' = WithoutMember(c)
      BY <2>4 DEF Leave
    <3>3. QED
      BY <1>1, <3>1, <3>2
  <2>5. QED
    BY <1>5, <2>1, <2>2, <2>3, <2>4 DEF Requests
<1>6. ASSUME UNCHANGED vars
      PROVE  Grows
  BY <1>3, <1>6 DEF vars
<1>7. Grows
  BY <1>3, <1>4, <1>5, <1>6 DEF Next, Accept, Close, Disconnect, ClientsOf
<1>8. QED
  BY <1>1, <1>2, <1>7

-----------------------------------------------------------------------------
(* Types.                                                                  *)

\* ChatTypeOK without the registry, when n messages have been sent.
TypedUpTo(n) ==
  /\ requests \in [Sessions -> Seq(RequestsUpTo(n))]
  /\ todo \in [Sessions -> Seq(StepsUpTo(n))]
  /\ outbox \in [Sessions -> Seq(MessagesUpTo(n))]
  /\ link \in [Usernames -> Sessions \cup {NoLink}]
  /\ DOMAIN rooms = Usernames
  /\ \A u \in Usernames :
       IsTable(rooms[u], RoomIds, RoomStates) /\ IsFiniteSet(DOMAIN rooms[u])
  /\ shown \in [Usernames -> [RoomIds -> Seq(1..n)]]
  /\ unseen \subseteq Usernames \X RoomIds \X (1..n)
  /\ moves \in Nat

(***************************************************************************)
(* ChatTypeOK, with the types of what is not the registry as a predicate of *)
(* the numbers handed out.                                                  *)
(***************************************************************************)
LEMMA ChatTypesMean == ChatTypeOK <=> TypeOK /\ TypedUpTo(db.nextSeq)
BY DEF ChatTypeOK, HandlerTypeOK, TypedUpTo, SentSeqs

(***************************************************************************)
(* What was typed stays typed as more messages are sent.                    *)
(***************************************************************************)
LEMMA TypesGrow ==
  ASSUME NEW m \in Nat, NEW n \in Nat, m <= n, TypedUpTo(m)
  PROVE  TypedUpTo(n)
<1>1. /\ 1..m \subseteq 1..n
      /\ MessagesUpTo(m) \subseteq MessagesUpTo(n)
      /\ StepsUpTo(m) \subseteq StepsUpTo(n)
      /\ RequestsUpTo(m) \subseteq RequestsUpTo(n)
  BY MoreMayBeSaid
<1>2. \A S, T : S \subseteq T => Seq(S) \subseteq Seq(T)
  BY SeqMonotonic
<1>3. /\ requests \in [Sessions -> Seq(RequestsUpTo(n))]
      /\ todo \in [Sessions -> Seq(StepsUpTo(n))]
      /\ outbox \in [Sessions -> Seq(MessagesUpTo(n))]
      /\ shown \in [Usernames -> [RoomIds -> Seq(1..n)]]
      /\ unseen \subseteq Usernames \X RoomIds \X (1..n)
  <2>1. /\ Seq(RequestsUpTo(m)) \subseteq Seq(RequestsUpTo(n))
        /\ Seq(StepsUpTo(m)) \subseteq Seq(StepsUpTo(n))
        /\ Seq(MessagesUpTo(m)) \subseteq Seq(MessagesUpTo(n))
        /\ Seq(1..m) \subseteq Seq(1..n)
    BY <1>1, <1>2
  <2>2. /\ requests \in [Sessions -> Seq(RequestsUpTo(n))]
        /\ todo \in [Sessions -> Seq(StepsUpTo(n))]
        /\ outbox \in [Sessions -> Seq(MessagesUpTo(n))]
    BY <2>1 DEF TypedUpTo
  <2>3. shown \in [Usernames -> [RoomIds -> Seq(1..n)]]
    BY <2>1 DEF TypedUpTo
  <2>4. unseen \subseteq Usernames \X RoomIds \X (1..n)
    BY <1>1 DEF TypedUpTo
  <2>5. QED
    BY <2>2, <2>3, <2>4
<1>4. QED
  BY <1>3 DEF TypedUpTo

(***************************************************************************)
(* A request is added to those of the client's session, or is lost.         *)
(***************************************************************************)
LEMMA RequestTypes ==
  ASSUME NEW n, TypedUpTo(n), NEW u \in Usernames,
         NEW reqs \in Seq(RequestsUpTo(n)), Request(u, reqs)
  PROVE  requests' \in [Sessions -> Seq(RequestsUpTo(n))]
<1>1. CASE UNCHANGED requests
  BY <1>1 DEF TypedUpTo
<1>2. CASE /\ link[u] # NoLink
           /\ requests' = [requests EXCEPT ![link[u]] = @ \o reqs]
  <2>1. link[u] \in Sessions
    BY <1>2 DEF TypedUpTo
  <2>2. requests[link[u]] \o reqs \in Seq(RequestsUpTo(n))
    BY <2>1, ConcatProperties DEF TypedUpTo
  <2>3. QED
    BY <1>2, <2>1, <2>2 DEF TypedUpTo
<1>3. QED
  BY <1>1, <1>2 DEF Request

(***************************************************************************)
(* The requests there are have their types.                                *)
(***************************************************************************)
LEMMA RequestsAreTyped ==
  ASSUME NEW n, NEW u \in Usernames, NEW r \in RoomIds
  PROVE  /\ JoinRequest(u, r) \in RequestsUpTo(n)
         /\ \A p \in PeerIds \cup {NoPeer} : LeaveRequest(r, p) \in RequestsUpTo(n)
         /\ PostRequest(r) \in RequestsUpTo(n)
         /\ \A k \in 1..n : AckRequest(r, k) \in RequestsUpTo(n)
<1>1. JoinRequest(u, r) \in RequestsUpTo(n)
  BY DEF JoinRequest, RequestsUpTo
<1>2. \A p \in PeerIds \cup {NoPeer} : LeaveRequest(r, p) \in RequestsUpTo(n)
  BY DEF LeaveRequest, RequestsUpTo
<1>3. PostRequest(r) \in RequestsUpTo(n)
  BY DEF PostRequest, RequestsUpTo
<1>4. \A k \in 1..n : AckRequest(r, k) \in RequestsUpTo(n)
  BY DEF AckRequest, RequestsUpTo
<1>5. QED
  BY <1>1, <1>2, <1>3, <1>4

(***************************************************************************)
(* A room not joined yet has a state.                                       *)
(***************************************************************************)
LEMMA FreshIsRoomState == Fresh \in RoomStates
BY DEF Fresh, RoomStates

(***************************************************************************)
(* What the application does leaves everything typed.                       *)
(***************************************************************************)
LEMMA JoinChatTypes ==
  ASSUME NEW n, TypedUpTo(n), NEW u \in Usernames, NEW r \in RoomIds,
         JoinChat(u, r)
  PROVE  TypedUpTo(n)'
<1>1. requests' \in [Sessions -> Seq(RequestsUpTo(n))]
  <2>1. <<JoinRequest(u, r)>> \in Seq(RequestsUpTo(n))
    BY RequestsAreTyped
  <2>2. QED
    BY <2>1, RequestTypes DEF JoinChat
<1>2. rooms' = [rooms EXCEPT ![u] = Replace(rooms[u], r, Fresh)]
  BY DEF JoinChat
<1>3. IsTable(rooms[u], RoomIds, RoomStates) /\ IsFiniteSet(DOMAIN rooms[u])
  BY DEF TypedUpTo
<1>4. /\ IsTable(Replace(rooms[u], r, Fresh), RoomIds, RoomStates)
      /\ DOMAIN Replace(rooms[u], r, Fresh) = DOMAIN rooms[u] \cup {r}
  BY <1>3, FreshIsRoomState, ReplaceTable
<1>5. IsFiniteSet(DOMAIN rooms[u] \cup {r})
  BY <1>3, FS_AddElement
<1>6. moves' \in Nat
  BY DEF JoinChat, Move, TypedUpTo
<1>7. UNCHANGED <<todo, outbox, link, shown, unseen>>
  BY DEF JoinChat
<1>8. /\ DOMAIN rooms' = Usernames
      /\ \A v \in Usernames :
           IsTable(rooms'[v], RoomIds, RoomStates) /\ IsFiniteSet(DOMAIN rooms'[v])
  BY <1>2, <1>4, <1>5 DEF TypedUpTo
<1>9. QED
  BY <1>1, <1>6, <1>7, <1>8 DEF TypedUpTo

(***************************************************************************)
(* Leaving a chat asks to leave as the member the client believes to be.    *)
(***************************************************************************)
LEMMA LeaveChatTypes ==
  ASSUME NEW n, TypedUpTo(n), NEW u \in Usernames, NEW r \in RoomIds,
         LeaveChat(u, r)
  PROVE  TypedUpTo(n)'
<1>1. IsTable(rooms[u], RoomIds, RoomStates) /\ IsFiniteSet(DOMAIN rooms[u])
  BY DEF TypedUpTo
<1>2. rooms[u][r].myPeerId \in PeerIds \cup {NoPeer}
  BY <1>1 DEF LeaveChat, IsTable, RoomStates
<1>3. requests' \in [Sessions -> Seq(RequestsUpTo(n))]
  <2>1. <<LeaveRequest(r, rooms[u][r].myPeerId)>> \in Seq(RequestsUpTo(n))
    BY <1>2, RequestsAreTyped
  <2>2. QED
    BY <2>1, RequestTypes DEF LeaveChat
<1>4. rooms' = [rooms EXCEPT ![u] = Remove(rooms[u], {r})]
  BY DEF LeaveChat
<1>5. /\ IsTable(Remove(rooms[u], {r}), RoomIds, RoomStates)
      /\ DOMAIN Remove(rooms[u], {r}) \subseteq DOMAIN rooms[u]
  BY <1>1 DEF Remove, IsTable
<1>6. IsFiniteSet(DOMAIN Remove(rooms[u], {r}))
  BY <1>1, <1>5, FS_Subset
<1>7. moves' \in Nat
  BY DEF LeaveChat, Move, TypedUpTo
<1>8. UNCHANGED <<todo, outbox, link, shown, unseen>>
  BY DEF LeaveChat
<1>9. /\ DOMAIN rooms' = Usernames
      /\ \A v \in Usernames :
           IsTable(rooms'[v], RoomIds, RoomStates) /\ IsFiniteSet(DOMAIN rooms'[v])
  BY <1>4, <1>5, <1>6 DEF TypedUpTo
<1>10. QED
  BY <1>3, <1>7, <1>8, <1>9 DEF TypedUpTo

(***************************************************************************)
(* A post is a request without a number.                                    *)
(***************************************************************************)
LEMMA PostTypes ==
  ASSUME NEW n, TypedUpTo(n), NEW u \in Usernames, NEW r \in RoomIds, Post(u, r)
  PROVE  TypedUpTo(n)'
<1>1. requests' \in [Sessions -> Seq(RequestsUpTo(n))]
  <2>1. <<PostRequest(r)>> \in Seq(RequestsUpTo(n))
    BY RequestsAreTyped
  <2>2. QED
    BY <2>1, RequestTypes DEF Post
<1>2. moves' \in Nat
  BY DEF Post, Move, TypedUpTo
<1>3. UNCHANGED <<todo, outbox, link, rooms, shown, unseen>>
  BY DEF Post, clientVars
<1>4. QED
  BY <1>1, <1>2, <1>3 DEF TypedUpTo

(***************************************************************************)
(* Connecting and losing the connection leave everything typed.             *)
(***************************************************************************)
LEMMA ConnectTypes ==
  ASSUME NEW n, TypedUpTo(n), NEW u \in Usernames, NEW s \in Sessions,
         OnConnected(u, s)
  PROVE  TypedUpTo(n)'
<1> DEFINE old == DOMAIN rooms[u]
<1>1. PICK order \in SeqExt!SetToSeqs(old) :
        requests' = [requests EXCEPT ![s] =
                       [i \in DOMAIN order |-> JoinRequest(u, order[i])]]
  BY DEF OnConnected
<1>2. IsFiniteSet(old) /\ old \subseteq RoomIds
  BY DEF TypedUpTo, IsTable
<1>3. Cardinality(old) \in Nat
  BY <1>2, FS_CardinalityType
<1>4. order \in [1..Cardinality(old) -> old]
  BY DEF SeqExt!SetToSeqs, SeqExt!Cardinality, Cardinality
<1>5. [i \in DOMAIN order |-> JoinRequest(u, order[i])] \in Seq(RequestsUpTo(n))
  <2>1. \A i \in 1..Cardinality(old) : JoinRequest(u, order[i]) \in RequestsUpTo(n)
    BY <1>2, <1>4, RequestsAreTyped
  <2>2. DOMAIN order = 1..Cardinality(old)
    BY <1>4
  <2>3. QED
    BY <1>3, <2>1, <2>2
<1>6. requests' \in [Sessions -> Seq(RequestsUpTo(n))]
  BY <1>1, <1>5 DEF TypedUpTo
<1>7. link' \in [Usernames -> Sessions \cup {NoLink}]
  BY DEF OnConnected, TypedUpTo
<1>8. UNCHANGED <<todo, outbox, rooms, shown, unseen, moves>>
  BY DEF OnConnected, OnAccept
<1>9. QED
  BY <1>6, <1>7, <1>8 DEF TypedUpTo

(***************************************************************************)
(* A lost connection leaves rooms that are not joined.                      *)
(***************************************************************************)
LEMMA DisconnectedTypes ==
  ASSUME NEW n, TypedUpTo(n), NEW u \in Usernames, OnDisconnected(u)
  PROVE  TypedUpTo(n)'
<1>1. /\ link' = [link EXCEPT ![u] = NoLink]
      /\ rooms' = [rooms EXCEPT ![u] = [r \in DOMAIN @ |-> Fresh]]
      /\ outbox' = [outbox EXCEPT ![link[u]] = <<>>]
      /\ UNCHANGED <<requests, todo, shown, unseen>>
  BY DEF OnDisconnected
<1>2. link' \in [Usernames -> Sessions \cup {NoLink}]
  BY <1>1 DEF TypedUpTo
<1>3. outbox' \in [Sessions -> Seq(MessagesUpTo(n))]
  BY <1>1, EmptySeq DEF TypedUpTo
<1>4. moves' \in Nat
  BY DEF OnDisconnected, Move, TypedUpTo
<1>5. /\ DOMAIN rooms' = Usernames
      /\ \A v \in Usernames :
           IsTable(rooms'[v], RoomIds, RoomStates) /\ IsFiniteSet(DOMAIN rooms'[v])
  <2>1. /\ IsTable([r \in DOMAIN rooms[u] |-> Fresh], RoomIds, RoomStates)
        /\ DOMAIN [r \in DOMAIN rooms[u] |-> Fresh] = DOMAIN rooms[u]
    BY FreshIsRoomState DEF TypedUpTo, IsTable
  <2>2. QED
    BY <1>1, <2>1 DEF TypedUpTo
<1>6. QED
  BY <1>1, <1>2, <1>3, <1>4, <1>5 DEF TypedUpTo

(***************************************************************************)
(* A handler of the client that gives one of its rooms a state.             *)
(***************************************************************************)
LEMMA UpdateRoomTypes ==
  ASSUME NEW n, TypedUpTo(n), NEW u \in Usernames, NEW r, NEW state,
         r \in DOMAIN rooms[u] => state \in RoomStates,
         UpdateRoom(u, r, state)
  PROVE  /\ DOMAIN rooms' = Usernames
         /\ \A v \in Usernames :
              /\ IsTable(rooms'[v], RoomIds, RoomStates)
              /\ IsFiniteSet(DOMAIN rooms'[v])
<1>1. CASE r \notin DOMAIN rooms[u]
  BY <1>1 DEF UpdateRoom, TypedUpTo
<1>2. CASE r \in DOMAIN rooms[u]
  <2>1. rooms' = [rooms EXCEPT ![u] = [rooms[u] EXCEPT ![r] = state]]
    BY <1>2 DEF UpdateRoom
  <2>2. /\ IsTable([rooms[u] EXCEPT ![r] = state], RoomIds, RoomStates)
        /\ DOMAIN [rooms[u] EXCEPT ![r] = state] = DOMAIN rooms[u]
    BY <1>2 DEF TypedUpTo, IsTable
  <2>3. QED
    BY <2>1, <2>2 DEF TypedUpTo
<1>3. QED
  BY <1>1, <1>2

(***************************************************************************)
(* What is in an outbox is typed by its type.                               *)
(***************************************************************************)
LEMMA MessagesMean ==
  ASSUME NEW n, NEW m \in MessagesUpTo(n)
  PROVE  /\ m.type = "joined" =>
              /\ m.roomId \in RoomIds /\ m.peerId \in PeerIds
              /\ m.participants \in SUBSET PeerIds
         /\ m.type \in {"peer-joined", "peer-left"} =>
              m.roomId \in RoomIds /\ m.peerId \in PeerIds
         /\ m.type = "group-message" =>
              m.roomId \in RoomIds /\ m.messageSeq \in 1..n
         /\ m.type = "buffered-messages" =>
              m.roomId \in RoomIds /\ m.messages \in SUBSET (1..n)
BY DEF MessagesUpTo, Error

(***************************************************************************)
(* The ascending sequence of some numbers is one of these numbers.          *)
(***************************************************************************)
LEMMA AscendingNumbers ==
  ASSUME NEW n \in Nat, NEW ns \in SUBSET (1..n), NEW seqs \in Ascending(ns)
  PROVE  seqs \in Seq(ns) /\ seqs \in Seq(1..n)
<1>1. IsFiniteSet(1..n)
  BY FS_Interval
<1>2. Cardinality(ns) \in Nat
  BY <1>1, FS_Subset, FS_CardinalityType
<1>3. seqs \in [1..Cardinality(ns) -> ns]
  BY DEF Ascending
<1>4. seqs \in Seq(ns)
  BY <1>2, <1>3
<1>5. QED
  BY <1>4, SeqMonotonic

(***************************************************************************)
(* Messages with numbers handed out are shown and acknowledged by their     *)
(* numbers.                                                                 *)
(***************************************************************************)
LEMMA ShowTypes ==
  ASSUME NEW n \in Nat, TypedUpTo(n), NEW u \in Usernames, NEW r \in RoomIds,
         NEW seqs \in Seq(1..n), Show(u, r, seqs),
         UNCHANGED <<todo, link, moves>>,
         outbox' \in [Sessions -> Seq(MessagesUpTo(n))]
  PROVE  TypedUpTo(n)'
<1>1. requests' \in [Sessions -> Seq(RequestsUpTo(n))]
  <2>1. /\ Len(seqs) \in Nat /\ DOMAIN seqs = 1..Len(seqs)
        /\ \A i \in 1..Len(seqs) : seqs[i] \in 1..n
    BY LenProperties
  <2>2. \A i \in 1..Len(seqs) : AckRequest(r, seqs[i]) \in RequestsUpTo(n)
    BY <2>1, RequestsAreTyped
  <2>3. [i \in DOMAIN seqs |-> AckRequest(r, seqs[i])] \in Seq(RequestsUpTo(n))
    BY <2>1, <2>2
  <2>4. QED
    BY <2>3, RequestTypes DEF Show
<1>2. shown' \in [Usernames -> [RoomIds -> Seq(1..n)]]
  <2>1. shown[u][r] \o seqs \in Seq(1..n)
    BY ConcatProperties DEF TypedUpTo
  <2>2. shown' = [shown EXCEPT ![u] = [shown[u] EXCEPT ![r] = shown[u][r] \o seqs]]
    BY DEF Show
  <2>3. QED
    BY <2>1, <2>2 DEF TypedUpTo
<1>3. unseen' \subseteq unseen /\ UNCHANGED rooms
  BY DEF Show
<1>4. QED
  BY <1>1, <1>2, <1>3 DEF TypedUpTo

(***************************************************************************)
(* Receiving a message leaves everything typed.                             *)
(***************************************************************************)
LEMMA OnMessageTypes ==
  ASSUME NEW n \in Nat, TypedUpTo(n), NEW u \in Usernames, OnMessage(u)
  PROVE  TypedUpTo(n)'
<1> DEFINE m == Head(outbox[link[u]])
<1>1. /\ link[u] \in Sessions
      /\ outbox[link[u]] \in Seq(MessagesUpTo(n)) /\ outbox[link[u]] # <<>>
      /\ UNCHANGED <<todo, link, moves>>
  BY DEF OnMessage, TypedUpTo
<1>2. /\ m \in MessagesUpTo(n)
      /\ Tail(outbox[link[u]]) \in Seq(MessagesUpTo(n))
  BY <1>1, HeadTailProperties
<1>3. outbox' \in [Sessions -> Seq(MessagesUpTo(n))]
  BY <1>1, <1>2 DEF OnMessage, TypedUpTo
<1> HIDE DEF m
<1>4. ASSUME UNCHANGED <<requests, shown, unseen>>, NEW state, NEW r,
             r \in DOMAIN rooms[u] => state \in RoomStates,
             UpdateRoom(u, r, state)
      PROVE  TypedUpTo(n)'
  <2>1. /\ DOMAIN rooms' = Usernames
        /\ \A v \in Usernames :
             IsTable(rooms'[v], RoomIds, RoomStates) /\ IsFiniteSet(DOMAIN rooms'[v])
    BY <1>4, UpdateRoomTypes
  <2>2. QED
    BY <1>1, <1>3, <1>4, <2>1 DEF TypedUpTo
<1>5. \A r \in DOMAIN rooms[u] : rooms[u][r] \in RoomStates
  BY DEF TypedUpTo, IsTable
<1>6. CASE m.type = "joined" /\ OnJoined(u, m)
  <2> DEFINE state == [myPeerId |-> m.peerId,
                       participants |->
                         rooms[u][m.roomId].participants \cup m.participants]
  <2>1. m.roomId \in RoomIds /\ m.peerId \in PeerIds /\ m.participants \in SUBSET PeerIds
    BY <1>2, <1>6, MessagesMean
  <2>2. m.roomId \in DOMAIN rooms[u] => state \in RoomStates
    BY <1>5, <2>1 DEF RoomStates
  <2>3. UpdateRoom(u, m.roomId, state)
    BY <1>6 DEF OnJoined
  <2> HIDE DEF state
  <2>4. /\ DOMAIN rooms' = Usernames
        /\ \A v \in Usernames :
             IsTable(rooms'[v], RoomIds, RoomStates) /\ IsFiniteSet(DOMAIN rooms'[v])
    BY <2>2, <2>3, UpdateRoomTypes
  <2>5. shown' = [shown EXCEPT ![u] = [shown[u] EXCEPT ![m.roomId] = <<>>]]
        /\ UNCHANGED <<requests, unseen>>
    BY <1>6 DEF OnJoined
  <2>6. shown' \in [Usernames -> [RoomIds -> Seq(1..n)]]
    BY <2>1, <2>5, EmptySeq DEF TypedUpTo
  <2>7. QED
    BY <1>1, <1>3, <2>4, <2>5, <2>6 DEF TypedUpTo
<1>7. CASE m.type = "peer-joined" /\ OnPeerJoined(u, m)
  <2> DEFINE state == [rooms[u][m.roomId] EXCEPT !.participants = @ \cup {m.peerId}]
  <2>1. m.peerId \in PeerIds
    BY <1>2, <1>7, MessagesMean
  <2>2. m.roomId \in DOMAIN rooms[u] => state \in RoomStates
    BY <1>5, <2>1 DEF RoomStates
  <2>3. UpdateRoom(u, m.roomId, state) /\ UNCHANGED <<requests, shown, unseen>>
    BY <1>7 DEF OnPeerJoined
  <2> HIDE DEF state
  <2>4. QED
    BY <1>4, <2>2, <2>3
<1>8. CASE m.type = "peer-left" /\ OnPeerLeft(u, m)
  <2> DEFINE state == [rooms[u][m.roomId] EXCEPT !.participants = @ \ {m.peerId}]
  <2>1. m.roomId \in DOMAIN rooms[u] => state \in RoomStates
    BY <1>5 DEF RoomStates
  <2>2. UpdateRoom(u, m.roomId, state) /\ UNCHANGED <<requests, shown, unseen>>
    BY <1>8 DEF OnPeerLeft
  <2> HIDE DEF state
  <2>3. QED
    BY <1>4, <2>1, <2>2
<1>9. CASE m.type = "group-message" /\ OnGroupMessage(u, m)
  <2>1. m.roomId \in RoomIds /\ m.messageSeq \in 1..n
    BY <1>2, <1>9, MessagesMean
  <2>2. <<m.messageSeq>> \in Seq(1..n)
    BY <2>1
  <2>3. QED
    BY <1>1, <1>3, <1>9, <2>1, <2>2, ShowTypes DEF OnGroupMessage
<1>10. CASE m.type = "buffered-messages" /\ OnBufferedMessages(u, m)
  <2>1. m.roomId \in RoomIds /\ m.messages \in SUBSET (1..n)
    BY <1>2, <1>10, MessagesMean
  <2>2. PICK seqs \in Ascending(m.messages) : Show(u, m.roomId, seqs)
    BY <1>10 DEF OnBufferedMessages
  <2>3. seqs \in Seq(1..n)
    BY <2>1, AscendingNumbers
  <2>4. QED
    BY <1>1, <1>3, <2>1, <2>2, <2>3, ShowTypes
<1>11. CASE OnReply(m)
  BY <1>1, <1>3, <1>11 DEF OnReply, TypedUpTo
<1>12. QED
  BY <1>6, <1>7, <1>8, <1>9, <1>10, <1>11 DEF OnMessage, m

(***************************************************************************)
(* A handler that leaves typed steps leaves todo typed.                     *)
(***************************************************************************)
LEMMA ContinueTypes ==
  ASSUME NEW n, TypedUpTo(n), NEW s \in Sessions,
         NEW steps \in Seq(StepsUpTo(n)), Continue(s, steps)
  PROVE  todo' \in [Sessions -> Seq(StepsUpTo(n))]
BY DEF Continue, TypedUpTo

(***************************************************************************)
(* What a join leaves to be said.                                          *)
(***************************************************************************)
LEMMA JoinSteps ==
  ASSUME NEW n \in Nat, TypeOK, TypeOK', TypedUpTo(n), NEW s \in Sessions,
         NEW req, HandleJoin(s, req)
  PROVE  todo' \in [Sessions -> Seq(StepsUpTo(n))]
<1> DEFINE r == req.roomId
           Steps(c, others) ==
             Send({s}, Joined(r, c.roomType, c.peerId, {q \in others : Online(q)}))
             \o (IF c.roomType = "group" THEN LookUp(r, c.peerId) ELSE <<>>)
             \o Send(OnlinePeers(r, c.peerId), PeerJoined(r, c.peerId))
<1>1. Error \in MessagesUpTo(n)
  BY DEF MessagesUpTo
<1>2. ASSUME Continue(s, Send({s}, Error))
      PROVE  todo' \in [Sessions -> Seq(StepsUpTo(n))]
  <2>1. Send({s}, Error) \in Seq(StepsUpTo(n))
    BY <1>1, SendIsSteps
  <2>2. QED
    BY <1>2, <2>1, ContinueTypes
<1>3. ASSUME NEW c \in clients' \ clients, c.roomId = r,
             Continue(s, Steps(c, FindMembersByRoom(db, r) \ {c.peerId}))
      PROVE  todo' \in [Sessions -> Seq(StepsUpTo(n))]
  <2> DEFINE others == FindMembersByRoom(db, r) \ {c.peerId}
             onlineOthers == {q \in others : Online(q)}
  <2>1. c.roomId \in RoomIds /\ c.peerId \in PeerIds /\ c.roomType \in RoomTypes
    BY DEF TypeOK, RamTypeOK, ClientInfo
  <2>2. onlineOthers \in SUBSET PeerIds
    BY DEF TypeOK, IsDb, IsTable, FindMembersByRoom
  <2> HIDE DEF onlineOthers
  <2>3. Send({s}, Joined(r, c.roomType, c.peerId, onlineOthers)) \in Seq(StepsUpTo(n))
    <3>1. Joined(r, c.roomType, c.peerId, onlineOthers) \in MessagesUpTo(n)
      BY <1>3, <2>1, <2>2, MessagesAreTyped
    <3>2. QED
      BY <3>1, SendIsSteps
  <2>4. (IF c.roomType = "group" THEN LookUp(r, c.peerId) ELSE <<>>)
          \in Seq(StepsUpTo(n))
    BY <1>3, <2>1, LookUpIsSteps, EmptySeq
  <2>5. Send(OnlinePeers(r, c.peerId), PeerJoined(r, c.peerId)) \in Seq(StepsUpTo(n))
    <3>1. PeerJoined(r, c.peerId) \in MessagesUpTo(n)
      BY <1>3, <2>1, MessagesAreTyped
    <3>2. OnlinePeers(r, c.peerId) \in SUBSET Sessions
      BY DeliveriesGoToSessions
    <3>3. QED
      BY <3>1, <3>2, SendIsSteps
  <2>6. Steps(c, others) \in Seq(StepsUpTo(n))
    BY <2>3, <2>4, <2>5, ConcatProperties, Zenon DEF onlineOthers
  <2>7. QED
    BY <1>3, <2>6, ContinueTypes
<1>4. ASSUME NEW c \in clients' \ clients,
             JoinReconnect(s, r, req.username, req.roomType)
             \/ JoinNew(s, r, req.username, req.roomType)
      PROVE  c.roomId = r
  <2>1. \E p : Enter(s, r, req.username, req.roomType, p)
    BY <1>4, Zenon DEF JoinReconnect, JoinNew
  <2>2. QED
    BY <2>1 DEF Enter
<1> HIDE DEF r
<1>5. \/ \E c \in clients' \ clients :
           c.roomId = r /\ Continue(s, Steps(c, FindMembersByRoom(db, r) \ {c.peerId}))
      \/ Continue(s, Send({s}, Error))
  BY <1>4 DEF HandleJoin, Refuse, r
<1>6. QED
  BY <1>2, <1>3, <1>5

(***************************************************************************)
(* What the other requests leave to be said.                                *)
(***************************************************************************)
LEMMA LeaveSteps ==
  ASSUME NEW n \in Nat, TypeOK, TypedUpTo(n), NEW s \in Sessions,
         NEW req, HandleLeave(s, req)
  PROVE  todo' \in [Sessions -> Seq(StepsUpTo(n))]
<1>1. CASE Refuse(s)
  <2>1. Send({s}, Error) \in Seq(StepsUpTo(n))
    BY SendIsSteps DEF MessagesUpTo
  <2>2. QED
    BY <1>1, <2>1, ContinueTypes DEF Refuse
<1>2. ASSUME NEW c \in clients,
             Continue(s, Send(OnlinePeers(c.roomId, c.peerId),
                              PeerLeft(c.roomId, c.peerId)))
      PROVE  todo' \in [Sessions -> Seq(StepsUpTo(n))]
  <2>1. c.roomId \in RoomIds /\ c.peerId \in PeerIds
    BY DEF TypeOK, RamTypeOK, ClientInfo
  <2>2. PeerLeft(c.roomId, c.peerId) \in MessagesUpTo(n)
    BY <2>1, MessagesAreTyped
  <2>3. OnlinePeers(c.roomId, c.peerId) \in SUBSET Sessions
    BY DeliveriesGoToSessions
  <2>4. Send(OnlinePeers(c.roomId, c.peerId), PeerLeft(c.roomId, c.peerId))
          \in Seq(StepsUpTo(n))
    BY <2>2, <2>3, SendIsSteps
  <2>5. QED
    BY <1>2, <2>4, ContinueTypes
<1>3. QED
  BY <1>1, <1>2 DEF HandleLeave, Found, ClientsOf

(***************************************************************************)
(* A group message is sent with the number it has just been given.          *)
(***************************************************************************)
LEMMA GroupMessageSteps ==
  ASSUME NEW n \in Nat, n = db'.nextSeq, TypeOK, TypedUpTo(n), NEW s \in Sessions,
         NEW req, HandleGroupMessage(s, req)
  PROVE  todo' \in [Sessions -> Seq(StepsUpTo(n))]
<1>1. CASE Refuse(s)
  <2>1. Send({s}, Error) \in Seq(StepsUpTo(n))
    BY SendIsSteps DEF MessagesUpTo
  <2>2. QED
    BY <1>1, <2>1, ContinueTypes DEF Refuse
<1>2. ASSUME NEW c \in clients, NEW message,
             message = GroupMessage(c.roomId, c.peerId, n), Broadcast(c),
             Continue(s, Send({s}, message)
                         \o Send(OnlinePeers(c.roomId, c.peerId), message))
      PROVE  todo' \in [Sessions -> Seq(StepsUpTo(n))]
  <2>1. c.roomId \in RoomIds /\ c.peerId \in PeerIds
    BY DEF TypeOK, RamTypeOK, ClientInfo
  <2>2. n \in 1..n
    BY <1>2 DEF Broadcast, SaveGroupMessage, TypeOK, IsDb
  <2>3. message \in MessagesUpTo(n)
    BY <1>2, <2>1, <2>2, MessagesAreTyped
  <2>4. OnlinePeers(c.roomId, c.peerId) \in SUBSET Sessions
    BY DeliveriesGoToSessions
  <2>5. /\ Send({s}, message) \in Seq(StepsUpTo(n))
        /\ Send(OnlinePeers(c.roomId, c.peerId), message) \in Seq(StepsUpTo(n))
    BY <2>3, <2>4, SendIsSteps
  <2>6. Send({s}, message) \o Send(OnlinePeers(c.roomId, c.peerId), message)
          \in Seq(StepsUpTo(n))
    BY <2>5, ConcatProperties
  <2>7. QED
    BY <1>2, <2>6, ContinueTypes
<1>3. QED
  BY <1>1, <1>2 DEF HandleGroupMessage, Found, ClientsOf

(***************************************************************************)
(* An acknowledgement is confirmed with the number it had.                  *)
(***************************************************************************)
LEMMA AckSteps ==
  ASSUME NEW n \in Nat, TypeOK, TypedUpTo(n), NEW s \in Sessions,
         NEW req \in RequestsUpTo(n), req.type = "ack", HandleAck(s, req)
  PROVE  todo' \in [Sessions -> Seq(StepsUpTo(n))]
<1>1. req.roomId \in RoomIds /\ req.upToSeq \in 1..n
  BY DEF RequestsUpTo
<1>2. AckConfirm(req.roomId, req.upToSeq) \in MessagesUpTo(n)
  BY <1>1 DEF AckConfirm, MessagesUpTo
<1>3. /\ Send({s}, AckConfirm(req.roomId, req.upToSeq)) \in Seq(StepsUpTo(n))
      /\ Send({s}, Error) \in Seq(StepsUpTo(n))
  BY <1>2, SendIsSteps DEF MessagesUpTo
<1>4. QED
  BY <1>3, ContinueTypes DEF HandleAck, Refuse

(***************************************************************************)
(* A request that is read leaves everything typed.                          *)
(***************************************************************************)
LEMMA ReadTypes ==
  ASSUME NEW n \in Nat, n = db'.nextSeq, TypeOK, TypeOK', RegistryInv',
         BufferedUntilAcked', TypedUpTo(n), NEW s \in Sessions,
         OnRead(s), NoteSent, UNCHANGED <<clientVars, moves>>
  PROVE  TypedUpTo(n)'
<1> DEFINE req == Head(requests[s])
<1>1. requests[s] \in Seq(RequestsUpTo(n)) /\ requests[s] # <<>>
  BY DEF OnRead, TypedUpTo
<1>2. req \in RequestsUpTo(n) /\ Tail(requests[s]) \in Seq(RequestsUpTo(n))
  BY <1>1, HeadTailProperties
<1>3. requests' \in [Sessions -> Seq(RequestsUpTo(n))]
  BY <1>2 DEF OnRead, TypedUpTo
<1> HIDE DEF req
<1>4. todo' \in [Sessions -> Seq(StepsUpTo(n))]
  <2>1. \/ req.type = "join" /\ HandleJoin(s, req)
        \/ HandleLeave(s, req)
        \/ HandleGroupMessage(s, req)
        \/ req.type = "ack" /\ HandleAck(s, req)
    BY DEF OnRead, req
  <2>2. QED
    BY <1>2, <2>1, JoinSteps, LeaveSteps, GroupMessageSteps, AckSteps
<1>5. unseen' \subseteq Usernames \X RoomIds \X (1..n)
  <2>1. ASSUME NEW p \in DOMAIN db'.members, owed'[p] \ owed[p] # {}
        PROVE  /\ n \in 1..n
               /\ db'.members[p].username \in Usernames
               /\ db'.members[p].room_id \in RoomIds
    <3>1. PICK k : k \in owed'[p]
      BY <2>1
    <3>2. k \in PendingMessages(p)'
      BY <3>1 DEF BufferedUntilAcked
    <3>3. k \in SentSeqs'
      <4>1. \A i \in DOMAIN db'.messages : i \in SentSeqs'
        BY DEF RegistryInv, StoreConsistent, MessagesHaveRooms, TypeOK, IsDb, IsTable,
               Seqs, SentSeqs
      <4>2. QED
        BY <3>2, <4>1 DEF PendingMessages, GetMessagesAfter, MessagesOfRoom
    <3>4. n \in 1..n
      BY <3>3 DEF SentSeqs
    <3>5. QED
      BY <3>4 DEF TypeOK, IsDb, IsTable, MemberRow
  <2>2. SUFFICES ASSUME NEW x \in unseen', x \notin unseen
                 PROVE  x \in Usernames \X RoomIds \X (1..n)
    BY DEF TypedUpTo
  <2>3. PICK p \in DOMAIN db'.members :
          /\ owed'[p] \ owed[p] # {}
          /\ x = <<db'.members[p].username, db'.members[p].room_id, n>>
    BY <2>2 DEF NoteSent
  <2>4. QED
    BY <2>1, <2>3
<1>6. UNCHANGED <<outbox, link, rooms, shown, moves>>
  BY DEF OnRead, clientVars
<1>7. QED
  BY <1>3, <1>4, <1>5, <1>6 DEF TypedUpTo

(***************************************************************************)
(* So do the sends.                                                        *)
(***************************************************************************)
LEMMA SendTextTypes ==
  ASSUME NEW n \in Nat, TypedUpTo(n), NEW s \in Sessions, SendText(s),
         UNCHANGED <<clientVars, unseen, moves>>
  PROVE  TypedUpTo(n)'
<1> DEFINE step == Head(todo[s])
<1>1. todo[s] \in Seq(StepsUpTo(n)) /\ todo[s] # <<>>
  BY DEF SendText, TypedUpTo
<1>2. step \in StepsUpTo(n) /\ Tail(todo[s]) \in Seq(StepsUpTo(n))
  BY <1>1, HeadTailProperties
<1>3. step.op = "send"
  BY DEF SendText
<1> HIDE DEF step
<1>4. step.to \in SUBSET Sessions /\ step.msg \in MessagesUpTo(n)
  BY <1>2, <1>3 DEF StepsUpTo
<1>5. PICK x \in step.to :
        /\ Continue(s, Send(step.to \ {x}, step.msg) \o Tail(todo[s]))
        /\ outbox' = IF session[x] = "open"
                     THEN [outbox EXCEPT ![x] = Append(@, step.msg)]
                     ELSE outbox
  BY DEF SendText, step
<1>6. todo' \in [Sessions -> Seq(StepsUpTo(n))]
  <2>1. Send(step.to \ {x}, step.msg) \in Seq(StepsUpTo(n))
    BY <1>4, SendIsSteps
  <2>2. Send(step.to \ {x}, step.msg) \o Tail(todo[s]) \in Seq(StepsUpTo(n))
    BY <1>2, <2>1, ConcatProperties
  <2>3. QED
    BY <1>5, <2>2, ContinueTypes
<1>7. outbox' \in [Sessions -> Seq(MessagesUpTo(n))]
  BY <1>4, <1>5 DEF TypedUpTo
<1>8. UNCHANGED <<requests, link, rooms, shown, unseen, moves>>
  BY DEF SendText, clientVars
<1>9. QED
  BY <1>6, <1>7, <1>8 DEF TypedUpTo

(***************************************************************************)
(* What is looked up for a member has been handed out.                      *)
(***************************************************************************)
LEMMA SendPendingTypes ==
  ASSUME NEW n \in Nat, n = db.nextSeq, RegistryInv, TypedUpTo(n),
         NEW s \in Sessions, SendPending(s),
         UNCHANGED <<clientVars, unseen, moves>>
  PROVE  TypedUpTo(n)'
<1> DEFINE step == Head(todo[s])
           pending == PendingMessages(step.peerId)
<1>1. todo[s] \in Seq(StepsUpTo(n)) /\ todo[s] # <<>>
  BY DEF SendPending, TypedUpTo
<1>2. step \in StepsUpTo(n) /\ Tail(todo[s]) \in Seq(StepsUpTo(n))
  BY <1>1, HeadTailProperties
<1>3. step.op = "pending"
  BY DEF SendPending
<1>4. Continue(s, (IF pending = {} THEN <<>>
                   ELSE Send({s}, BufferedMessages(step.roomId, pending)))
                  \o Tail(todo[s]))
  BY DEF SendPending
<1>5. pending \in SUBSET (1..n)
  BY PendingWasSent DEF SentSeqs
<1> HIDE DEF step, pending
<1>6. step.roomId \in RoomIds
  BY <1>2, <1>3 DEF StepsUpTo
<1>7. BufferedMessages(step.roomId, pending) \in MessagesUpTo(n)
  BY <1>5, <1>6 DEF BufferedMessages, MessagesUpTo
<1>8. (IF pending = {} THEN <<>>
       ELSE Send({s}, BufferedMessages(step.roomId, pending))) \in Seq(StepsUpTo(n))
  BY <1>7, SendIsSteps, EmptySeq
<1>9. todo' \in [Sessions -> Seq(StepsUpTo(n))]
  BY <1>2, <1>4, <1>8, ConcatProperties, ContinueTypes
<1>10. UNCHANGED <<requests, outbox, link, rooms, shown, unseen, moves>>
  BY DEF SendPending, clientVars
<1>11. QED
  BY <1>9, <1>10 DEF TypedUpTo

(***************************************************************************)
(* And the end of a session.                                               *)
(***************************************************************************)
LEMMA ExpireTypes ==
  ASSUME NEW n \in Nat, RegistryInv, TypedUpTo(n), NEW s \in Sessions, Expire(s)
  PROVE  TypedUpTo(n)'
<1>1. PICK farewells \in Farewells(s) : Continue(s, farewells)
  BY DEF Expire, Cleanup
<1>2. todo' \in [Sessions -> Seq(StepsUpTo(n))]
  BY <1>1, FarewellsAreSteps, ContinueTypes
<1>3. /\ requests' \in [Sessions -> Seq(RequestsUpTo(n))]
      /\ outbox' \in [Sessions -> Seq(MessagesUpTo(n))]
  BY EmptySeq DEF Expire, Cleanup, TypedUpTo
<1>4. moves' \in Nat
  BY DEF Expire, Move, TypedUpTo
<1>5. UNCHANGED <<link, rooms, shown, unseen>>
  BY DEF Expire, clientVars
<1>6. QED
  BY <1>2, <1>3, <1>4, <1>5 DEF TypedUpTo

-----------------------------------------------------------------------------
(* The chat's invariant: the registry's, and that everything is typed.      *)

ChatInv == RegistryInv /\ BufferedUntilAcked /\ ChatTypeOK

(***************************************************************************)
(* There is nothing to see at the start.                                    *)
(***************************************************************************)
LEMMA InitChatInv == ChatInit => ChatInv
<1> SUFFICES ASSUME ChatInit PROVE ChatInv
  OBVIOUS
<1>1. RegistryInv
  BY InitRegistryInv DEF ChatInit, HandlerInit
<1>2. BufferedUntilAcked
  BY EmptyTableIsTable DEF ChatInit, HandlerInit, Init, EmptyDb, BufferedUntilAcked
<1>3. \A S : <<>> \in Seq(S)
  BY EmptySeq
<1>4. TypedUpTo(db.nextSeq)
  <2>1. \A u \in Usernames :
          IsTable(rooms[u], RoomIds, RoomStates) /\ IsFiniteSet(DOMAIN rooms[u])
    BY EmptyTableIsTable, FS_EmptySet DEF ChatInit
  <2>2. QED
    BY <1>3, <2>1 DEF ChatInit, HandlerInit, TypedUpTo
<1>5. QED
  BY <1>1, <1>2, <1>4, ChatTypesMean DEF ChatInv, RegistryInv

(***************************************************************************)
(* ChatInv is inductive.                                                    *)
(***************************************************************************)
LEMMA NextChatInv == ChatInv /\ [ChatNext]_chatVars => ChatInv'
<1> SUFFICES ASSUME ChatInv, [ChatNext]_chatVars PROVE ChatInv'
  OBVIOUS
<1>1. [Next]_vars
  BY ChatStepsAreRegistrySteps DEF ChatInv
<1>2. /\ RegistryInv /\ BufferedUntilAcked /\ TypeOK /\ TypedUpTo(db.nextSeq)
      /\ RegistryInv' /\ BufferedUntilAcked' /\ TypeOK'
  BY <1>1, NextRegistryInv, NextKeepsBuffered, ChatTypesMean DEF ChatInv, RegistryInv
<1>3. PICK n \in Nat : n = db'.nextSeq /\ db.nextSeq \in Nat /\ db.nextSeq <= n
  BY <1>1, <1>2, NumbersOnlyGrow
<1>4. TypedUpTo(n)
  BY <1>2, <1>3, TypesGrow
<1>5. TypedUpTo(n)'
  <2>1. ASSUME NEW u \in Usernames, NEW r \in RoomIds,
               JoinChat(u, r) \/ LeaveChat(u, r) \/ Post(u, r)
        PROVE  TypedUpTo(n)'
    BY <1>4, <2>1, JoinChatTypes, LeaveChatTypes, PostTypes
  <2>2. ASSUME NEW u \in Usernames, NEW s \in Sessions, OnConnected(u, s)
        PROVE  TypedUpTo(n)'
    BY <1>4, <2>2, ConnectTypes
  <2>3. ASSUME NEW u \in Usernames, OnDisconnected(u) \/ OnMessage(u)
        PROVE  TypedUpTo(n)'
    BY <1>4, <2>3, DisconnectedTypes, OnMessageTypes
  <2>4. ASSUME NEW s \in Sessions, OnRead(s), NoteSent,
               UNCHANGED <<clientVars, moves>>
        PROVE  TypedUpTo(n)'
    BY <1>2, <1>3, <1>4, <2>4, ReadTypes
  <2>5. ASSUME NEW s \in Sessions, SendText(s) \/ SendPending(s),
               UNCHANGED <<clientVars, unseen, moves>>
        PROVE  TypedUpTo(n)'
    <3>1. n = db.nextSeq
      BY <1>3, <2>5 DEF SendText, SendPending, vars
    <3>2. QED
      BY <1>2, <1>4, <2>5, <3>1, SendTextTypes, SendPendingTypes
  <2>6. ASSUME NEW s \in Sessions, Expire(s)
        PROVE  TypedUpTo(n)'
    BY <1>2, <1>4, <2>6, ExpireTypes
  <2>7. ASSUME UNCHANGED chatVars
        PROVE  TypedUpTo(n)'
    BY <1>4, <2>7 DEF TypedUpTo, chatVars, handlerVars, clientVars
  <2>8. QED
    BY <2>1, <2>2, <2>3, <2>4, <2>5, <2>6, <2>7 DEF ChatNext, Handler
<1>6. ChatTypeOK'
  BY <1>2, <1>3, <1>5 DEF TypedUpTo, ChatTypeOK, HandlerTypeOK, SentSeqs
<1>7. QED
  BY <1>2, <1>6 DEF ChatInv

(***************************************************************************)
(* Every variable of the chat has its type in every state, and no number is   *)
(* under way, shown or acknowledged that the server has not handed out.       *)
(***************************************************************************)
THEOREM ChatTypes == ChatSpec => []ChatTypeOK
<1>1. ChatInv => ChatTypeOK
  BY DEF ChatInv
<1>2. QED
  BY <1>1, InitChatInv, NextChatInv, PTL DEF ChatSpec

(***************************************************************************)
(* The chat implements the registry: with any number of clients and worker   *)
(* threads, each of its steps is a step of RoomRegistry or leaves it alone.    *)
(***************************************************************************)
THEOREM ChatUsesRegistry == ChatSpec => UsesRegistry
<1>1. ChatInit => Init
  BY DEF ChatInit, HandlerInit
<1>2. ChatInv /\ [ChatNext]_chatVars => [Next]_vars
  BY ChatStepsAreRegistrySteps DEF ChatInv
<1>3. QED
  BY <1>1, <1>2, InitChatInv, NextChatInv, PTL DEF ChatSpec, UsesRegistry, Spec

(***************************************************************************)
(* So the chat as a whole keeps RAM and database in agreement, and every     *)
(* message buffered for each member that has not acknowledged it.            *)
(***************************************************************************)
COROLLARY ChatKeepsRegistry == ChatSpec => [](RegistryInv /\ BufferedUntilAcked)
<1>1. ChatInv => RegistryInv /\ BufferedUntilAcked
  BY DEF ChatInv
<1>2. QED
  BY <1>1, InitChatInv, NextChatInv, PTL DEF ChatSpec

-----------------------------------------------------------------------------
(* Queues of messages.                                                     *)

\* The numbers of messages of room r that m carries.
Numbers(m, r) ==
  IF m.type = "group-message" /\ m.roomId = r THEN {m.messageSeq}
  ELSE IF m.type = "buffered-messages" /\ m.roomId = r THEN m.messages
  ELSE {}

\* m makes the client begin anew with room r.
Starts(m, r) == m.type = "joined" /\ m.roomId = r

\* There is such a message in q after position i and not after j.
Apart(q, i, j, r) == \E k \in DOMAIN q : i < k /\ k <= j /\ Starts(q[k], r)

Ascends(g) == \A i, j \in DOMAIN g : i < j => g[i] < g[j]

\* The messages of q are in order.
QueueInOrder(q, r) ==
  \A i, j \in DOMAIN q :
    i < j => \/ Apart(q, i, j, r)
             \/ \A a \in Numbers(q[i], r), b \in Numbers(q[j], r) : a < b

\* And they come after those of g.
ThenQueue(g, q, r) ==
  \A j \in DOMAIN q :
    \/ Apart(q, 0, j, r)
    \/ \A i \in DOMAIN g, b \in Numbers(q[j], r) : g[i] < b

\* A message m at the end of q is in order with q, and with g.
FitsQueue(q, m, r) ==
  \A j \in DOMAIN q :
    \/ Apart(q, j, Len(q), r)
    \/ \A a \in Numbers(q[j], r), b \in Numbers(m, r) : a < b

FitsAfter(g, q, m, r) ==
  \/ Apart(q, 0, Len(q), r)
  \/ \A i \in DOMAIN g, b \in Numbers(m, r) : g[i] < b

(***************************************************************************)
(* To take the first message of a queue keeps what is apart apart.          *)
(***************************************************************************)
LEMMA TailApart ==
  ASSUME NEW M, NEW q \in Seq(M), q # <<>>, NEW r, NEW i \in Nat, NEW j \in Nat,
         Apart(q, i + 1, j + 1, r)
  PROVE  Apart(Tail(q), i, j, r)
<1>1. PICK k \in DOMAIN q : i + 1 < k /\ k <= j + 1 /\ Starts(q[k], r)
  BY DEF Apart
<1>2. k \in Nat /\ k - 1 \in DOMAIN Tail(q) /\ Tail(q)[k - 1] = q[k]
  BY <1>1
<1>3. i < k - 1 /\ k - 1 <= j
  BY <1>1, <1>2
<1>4. QED
  BY <1>1, <1>2, <1>3 DEF Apart

(***************************************************************************)
(* What is apart from the start is apart from the first message, unless it   *)
(* is the first message that starts anew.                                  *)
(***************************************************************************)
LEMMA ApartFromFirst ==
  ASSUME NEW M, NEW q \in Seq(M), q # <<>>, NEW r, NEW j \in Nat,
         Apart(q, 0, j, r), ~Starts(Head(q), r)
  PROVE  Apart(q, 1, j, r)
<1>1. PICK k \in DOMAIN q : 0 < k /\ k <= j /\ Starts(q[k], r)
  BY DEF Apart
<1>2. k # 1 /\ k \in Nat
  BY <1>1
<1>3. 1 < k
  BY <1>1, <1>2
<1>4. QED
  BY <1>1, <1>3 DEF Apart

(***************************************************************************)
(* The rest of a queue is in order.                                         *)
(***************************************************************************)
LEMMA TailInOrder ==
  ASSUME NEW M, NEW q \in Seq(M), q # <<>>, NEW r, QueueInOrder(q, r)
  PROVE  QueueInOrder(Tail(q), r)
<1>1. SUFFICES ASSUME NEW i \in DOMAIN Tail(q), NEW j \in DOMAIN Tail(q), i < j,
                      ~Apart(Tail(q), i, j, r),
                      NEW a \in Numbers(Tail(q)[i], r), NEW b \in Numbers(Tail(q)[j], r)
               PROVE  a < b
  BY DEF QueueInOrder
<1>2. /\ i \in Nat /\ j \in Nat /\ i + 1 \in DOMAIN q /\ j + 1 \in DOMAIN q
      /\ Tail(q)[i] = q[i + 1] /\ Tail(q)[j] = q[j + 1] /\ i + 1 < j + 1
  BY <1>1
<1>3. ~Apart(q, i + 1, j + 1, r)
  BY <1>1, <1>2, TailApart
<1>4. QED
  BY <1>1, <1>2, <1>3 DEF QueueInOrder

(***************************************************************************)
(* The numbers of the first message may be moved from the queue to what      *)
(* comes before it.                                                        *)
(***************************************************************************)
LEMMA HeadMoves ==
  ASSUME NEW M, NEW q \in Seq(M), q # <<>>, NEW r, QueueInOrder(q, r),
         NEW g \in Seq(Nat), Ascends(g), ThenQueue(g, q, r), ~Starts(Head(q), r),
         NEW h \in Seq(Nat), Ascends(h), \A i \in DOMAIN h : h[i] \in Numbers(Head(q), r)
  PROVE  Ascends(g \o h) /\ ThenQueue(g \o h, Tail(q), r)
<1>1. /\ g \o h \in Seq(Nat) /\ Len(g) \in Nat /\ Len(h) \in Nat
      /\ DOMAIN (g \o h) = 1..(Len(g) + Len(h))
      /\ DOMAIN g = 1..Len(g) /\ DOMAIN h = 1..Len(h)
  OBVIOUS
<1>2. \A i \in DOMAIN (g \o h) :
        \/ i \in DOMAIN g /\ (g \o h)[i] = g[i]
        \/ i > Len(g) /\ i - Len(g) \in DOMAIN h /\ (g \o h)[i] = h[i - Len(g)]
  BY <1>1
<1>3. 1 \in DOMAIN q /\ q[1] = Head(q)
  OBVIOUS
<1>4. ~Apart(q, 0, 1, r)
  BY <1>3 DEF Apart
<1>5. \A i \in DOMAIN g, k \in DOMAIN h : g[i] < h[k]
  BY <1>3, <1>4 DEF ThenQueue
<1>6. Ascends(g \o h)
  <2>1. SUFFICES ASSUME NEW i \in DOMAIN (g \o h), NEW j \in DOMAIN (g \o h), i < j
                 PROVE  (g \o h)[i] < (g \o h)[j]
    BY DEF Ascends
  <2>2. CASE i \in DOMAIN g /\ j \in DOMAIN g
    BY <1>1, <1>2, <2>1, <2>2 DEF Ascends
  <2>3. CASE i \in DOMAIN g /\ j \notin DOMAIN g
    BY <1>1, <1>2, <1>5, <2>1, <2>3
  <2>4. CASE i \notin DOMAIN g
    <3>1. /\ i - Len(g) \in DOMAIN h /\ (g \o h)[i] = h[i - Len(g)]
          /\ j - Len(g) \in DOMAIN h /\ (g \o h)[j] = h[j - Len(g)]
          /\ i - Len(g) < j - Len(g)
      BY <1>1, <1>2, <2>1, <2>4
    <3>2. QED
      BY <3>1 DEF Ascends
  <2>5. QED
    BY <2>2, <2>3, <2>4
<1>7. ThenQueue(g \o h, Tail(q), r)
  <2>1. SUFFICES ASSUME NEW j \in DOMAIN Tail(q), ~Apart(Tail(q), 0, j, r),
                        NEW i \in DOMAIN (g \o h), NEW b \in Numbers(Tail(q)[j], r)
                 PROVE  (g \o h)[i] < b
    BY DEF ThenQueue
  <2>2. /\ j \in Nat /\ j + 1 \in DOMAIN q /\ Tail(q)[j] = q[j + 1] /\ 1 < j + 1
        /\ 0 \in Nat /\ 0 + 1 = 1 /\ j + 1 \in Nat
    BY <2>1
  <2>3. ~Apart(q, 1, j + 1, r)
    BY <2>1, <2>2, TailApart
  <2>4. ~Apart(q, 0, j + 1, r)
    BY <2>2, <2>3, ApartFromFirst
  <2>5. \A k \in DOMAIN g : g[k] < b
    BY <2>1, <2>2, <2>4 DEF ThenQueue
  <2>6. \A k \in DOMAIN h : h[k] < b
    BY <1>3, <2>1, <2>2, <2>3 DEF QueueInOrder
  <2>7. QED
    BY <1>2, <2>5, <2>6
<1>8. QED
  BY <1>6, <1>7

(***************************************************************************)
(* A message that fits may be added at the end.                             *)
(***************************************************************************)
LEMMA AppendApart ==
  ASSUME NEW M, NEW q \in Seq(M), NEW m \in M, NEW r, NEW i \in Nat
  PROVE  /\ \A j \in DOMAIN q : Apart(q, i, j, r) => Apart(Append(q, m), i, j, r)
         /\ Apart(q, i, Len(q), r) => Apart(Append(q, m), i, Len(q) + 1, r)
         /\ Starts(m, r) /\ i <= Len(q) => Apart(Append(q, m), i, Len(q) + 1, r)
<1>1. /\ DOMAIN Append(q, m) = 1..(Len(q) + 1) /\ DOMAIN q = 1..Len(q)
      /\ \A k \in DOMAIN q : Append(q, m)[k] = q[k]
      /\ Append(q, m)[Len(q) + 1] = m /\ Len(q) \in Nat
  OBVIOUS
<1>2. QED
  BY <1>1 DEF Apart

\* A message that fits is put to the end of a queue.
LEMMA AppendInOrder ==
  ASSUME NEW M, NEW q \in Seq(M), NEW m \in M, NEW r, QueueInOrder(q, r),
         FitsQueue(q, m, r)
  PROVE  QueueInOrder(Append(q, m), r)
<1>1. /\ DOMAIN Append(q, m) = 1..(Len(q) + 1) /\ DOMAIN q = 1..Len(q)
      /\ \A k \in DOMAIN q : Append(q, m)[k] = q[k]
      /\ Append(q, m)[Len(q) + 1] = m /\ Len(q) \in Nat
  OBVIOUS
<1>2. SUFFICES ASSUME NEW i \in DOMAIN Append(q, m), NEW j \in DOMAIN Append(q, m),
                      i < j, ~Apart(Append(q, m), i, j, r),
                      NEW a \in Numbers(Append(q, m)[i], r),
                      NEW b \in Numbers(Append(q, m)[j], r)
               PROVE  a < b
  BY DEF QueueInOrder
<1>3. i \in DOMAIN q /\ i \in Nat /\ Append(q, m)[i] = q[i]
  BY <1>1, <1>2
<1>4. CASE j \in DOMAIN q
  <2>1. ~Apart(q, i, j, r)
    BY <1>2, <1>3, <1>4, AppendApart
  <2>2. QED
    BY <1>1, <1>2, <1>3, <1>4, <2>1 DEF QueueInOrder
<1>5. CASE j = Len(q) + 1
  <2>1. ~Apart(q, i, Len(q), r)
    BY <1>2, <1>3, <1>5, AppendApart
  <2>2. QED
    BY <1>1, <1>2, <1>3, <1>5, <2>1 DEF FitsQueue
<1>6. QED
  BY <1>1, <1>4, <1>5

\* And of a queue that comes after another.
LEMMA AppendThen ==
  ASSUME NEW M, NEW q \in Seq(M), NEW m \in M, NEW r, NEW g, ThenQueue(g, q, r),
         FitsAfter(g, q, m, r)
  PROVE  ThenQueue(g, Append(q, m), r)
<1>1. /\ DOMAIN Append(q, m) = 1..(Len(q) + 1) /\ DOMAIN q = 1..Len(q)
      /\ \A k \in DOMAIN q : Append(q, m)[k] = q[k]
      /\ Append(q, m)[Len(q) + 1] = m /\ Len(q) \in Nat /\ 0 \in Nat
  OBVIOUS
<1>2. SUFFICES ASSUME NEW j \in DOMAIN Append(q, m), ~Apart(Append(q, m), 0, j, r),
                      NEW i \in DOMAIN g, NEW b \in Numbers(Append(q, m)[j], r)
               PROVE  g[i] < b
  BY DEF ThenQueue
<1>3. CASE j \in DOMAIN q
  <2>1. ~Apart(q, 0, j, r)
    BY <1>1, <1>2, <1>3, AppendApart
  <2>2. QED
    BY <1>1, <1>2, <1>3, <2>1 DEF ThenQueue
<1>4. CASE j = Len(q) + 1
  <2>1. ~Apart(q, 0, Len(q), r)
    BY <1>1, <1>2, <1>4, AppendApart
  <2>2. QED
    BY <1>1, <1>2, <1>4, <2>1 DEF FitsAfter
<1>5. QED
  BY <1>1, <1>3, <1>4

-----------------------------------------------------------------------------
(* The invariant of the order.                                             *)

\* One handler at a time has something left to do.
OneThread ==
  \A s, t \in Sessions : todo[s] # <<>> /\ todo[t] # <<>> => s = t

\* No two clients are at the other end of one session.
LinksApart ==
  \A u, v \in Usernames : link[u] # NoLink /\ link[u] = link[v] => u = v

\* Nothing is sent to a session that is not open.
ClosedIsEmpty == \A s \in Sessions : session[s] # "open" => outbox[s] = <<>>

\* A session is in a room once.
OneEntry ==
  \A c, d \in clients : c.session = d.session /\ c.roomId = d.roomId => c = d

\* Everything on the way to x, and shown by the client of x, is older than n.
Below(x, n) ==
  \A r \in RoomIds :
    /\ \A j \in DOMAIN outbox[x] : \A a \in Numbers(outbox[x][j], r) : a < n
    /\ \A u \in Usernames : link[u] = x =>
         \A i \in DOMAIN shown[u][r] : shown[u][r][i] < n

\* Since it joined room r, nothing of r has been sent to x.
Clear(x, r) ==
  /\ \A j \in DOMAIN outbox[x] :
       Numbers(outbox[x][j], r) = {} \/ Apart(outbox[x], j, Len(outbox[x]), r)
  /\ \A u \in Usernames : link[u] = x =>
       shown[u][r] = <<>> \/ Apart(outbox[x], 0, Len(outbox[x]), r)

SendsTo(step, to) == step.op = "send" /\ step.to = to

\* Steps that send nothing with a number.
Plain(steps) ==
  \A i \in DOMAIN steps :
    steps[i].op = "send" /\ \A r \in RoomIds : Numbers(steps[i].msg, r) = {}

\* The handler of a join before it sends "joined", before it looks up what is
\* buffered, and before it sends that.
BeforeJoined(s) ==
  /\ session[s] = "open" /\ Len(todo[s]) >= 2
  /\ todo[s][2].op = "pending"
  /\ SendsTo(todo[s][1], {s}) /\ Starts(todo[s][1].msg, todo[s][2].roomId)
  /\ Plain(Tail(Tail(todo[s])))

BeforeLookUp(s) ==
  /\ session[s] = "open" /\ todo[s] # <<>>
  /\ todo[s][1].op = "pending" /\ Clear(s, todo[s][1].roomId)
  /\ Plain(Tail(todo[s]))

BeforeBuffered(s) ==
  /\ session[s] = "open" /\ todo[s] # <<>>
  /\ SendsTo(todo[s][1], {s}) /\ todo[s][1].msg.type = "buffered-messages"
  /\ Clear(s, todo[s][1].msg.roomId)
  /\ Plain(Tail(todo[s]))

\* The handler of a group message: nobody is sent it twice.
Broadcasting(s) ==
  /\ \A i \in DOMAIN todo[s] :
       /\ todo[s][i].op = "send" /\ todo[s][i].msg.type = "group-message"
       /\ \A x \in todo[s][i].to : Below(x, todo[s][i].msg.messageSeq)
  /\ \A i, j \in DOMAIN todo[s] : i # j => todo[s][i].to \cap todo[s][j].to = {}

HandlerInOrder(s) ==
  \/ Plain(todo[s])
  \/ BeforeJoined(s) \/ BeforeLookUp(s) \/ BeforeBuffered(s)
  \/ Broadcasting(s)

WayInOrder ==
  /\ \A s \in Sessions, r \in RoomIds : QueueInOrder(outbox[s], r)
  /\ \A u \in Usernames, r \in RoomIds :
       /\ Ascends(shown[u][r])
       /\ link[u] # NoLink => ThenQueue(shown[u][r], outbox[link[u]], r)

OrderInv ==
  /\ OneThread /\ LinksApart /\ ClosedIsEmpty /\ OneEntry
  /\ WayInOrder
  /\ \A s \in Sessions : HandlerInOrder(s)

-----------------------------------------------------------------------------
(* Steps that do not touch what is on its way.                              *)

(***************************************************************************)
(* With one worker thread a handler begins only when nothing is left to do.  *)
(***************************************************************************)
LEMMA IdleMeansDone ==
  ASSUME Workers = 1, OneThread, Idle
  PROVE  \A s \in Sessions : todo[s] = <<>>
<1>1. SUFFICES ASSUME NEW t \in Sessions, todo[t] # <<>>
               PROVE  FALSE
  OBVIOUS
<1> DEFINE busy == {s \in Sessions : todo[s] # <<>>}
<1>2. busy = {t}
  BY <1>1 DEF OneThread
<1>3. Cardinality(busy) = 1
  BY <1>2, FS_Singleton
<1>4. QED
  BY <1>3 DEF Idle

(***************************************************************************)
(* A handler that has just begun is the only one with something left to do.  *)
(***************************************************************************)
LEMMA OneBegins ==
  ASSUME NEW n, TypedUpTo(n), \A t \in Sessions : todo[t] = <<>>,
         NEW s \in Sessions, NEW steps, Continue(s, steps)
  PROVE  /\ OneThread'
         /\ todo'[s] = steps
         /\ \A t \in Sessions : t # s => todo'[t] = <<>>
<1>1. todo' = [todo EXCEPT ![s] = steps]
  BY DEF Continue
<1>2. todo'[s] = steps /\ \A t \in Sessions : t # s => todo'[t] = <<>>
  BY <1>1 DEF TypedUpTo
<1>3. QED
  BY <1>2 DEF OneThread

(***************************************************************************)
(* To have nothing to do is in order.                                       *)
(***************************************************************************)
LEMMA NothingIsPlain == Plain(<<>>)
BY DEF Plain

(***************************************************************************)
(* Each session is in each room once, whatever the registry does.           *)
(***************************************************************************)
LEMMA EntriesStaySingle ==
  ASSUME OneEntry, [Next]_vars
  PROVE  OneEntry'
<1>1. ASSUME clients' \subseteq clients
      PROVE  OneEntry'
  BY <1>1 DEF OneEntry
<1>2. ASSUME NEW s \in Sessions, Joins(s)
      PROVE  OneEntry'
  <2>1. PICK r \in RoomIds, u \in Usernames, t \in RequestedTypes :
          \/ JoinRefused(s, r, u, t)
          \/ JoinReconnect(s, r, u, t)
          \/ JoinNew(s, r, u, t)
    BY <1>2 DEF Joins
  <2>2. CASE JoinRefused(s, r, u, t)
    BY <1>1, <2>2 DEF JoinRefused
  <2>3. CASE JoinReconnect(s, r, u, t) \/ JoinNew(s, r, u, t)
    <3>1. ~InRoom(s, r)
      BY <2>3 DEF JoinReconnect, JoinNew, MayAsk
    <3>2. PICK p : Enter(s, r, u, t, p)
      BY <2>3, Zenon DEF JoinReconnect, JoinNew
    <3> DEFINE d == [session |-> s, roomId |-> r, peerId |-> p, username |-> u,
                     roomType |-> JoinedType(r, t)]
    <3>3. clients' = clients \cup {d} /\ d.session = s /\ d.roomId = r
      BY <3>2 DEF Enter
    <3> HIDE DEF d
    <3>4. QED
      BY <3>1, <3>3 DEF OneEntry, InRoom
  <2>4. QED
    BY <2>1, <2>2, <2>3
<1>3. ASSUME NEW c, Requests(c, SentSeqs)
      PROVE  OneEntry'
  <2>1. clients' \subseteq clients
    BY <1>3 DEF Requests, Route, Broadcast, Acknowledge, Leave
  <2>2. QED
    BY <1>1, <2>1
<1>4. ASSUME NEW s, Accept(s) \/ Close(s)
      PROVE  OneEntry'
  BY <1>1, <1>4 DEF Accept, Close, Disconnect
<1>5. CASE UNCHANGED vars
  BY <1>1, <1>5 DEF vars
<1>6. QED
  BY <1>2, <1>3, <1>4, <1>5 DEF Next

(***************************************************************************)
(* What the application does.                                              *)
(***************************************************************************)
LEMMA ApplicationKeepsOrder ==
  ASSUME OrderInv, UNCHANGED <<vars, todo, outbox, link, shown>>
  PROVE  OrderInv'
<1>1. UNCHANGED <<clients, session, todo, outbox, link, shown>>
  BY DEF vars
<1>2. \A x, n : Below(x, n)' <=> Below(x, n)
  BY <1>1 DEF Below
<1>3. \A x, r : Clear(x, r)' <=> Clear(x, r)
  BY <1>1 DEF Clear
<1>4. \A s \in Sessions : HandlerInOrder(s) => HandlerInOrder(s)'
  BY <1>1, <1>2, <1>3
     DEF HandlerInOrder, BeforeJoined, BeforeLookUp, BeforeBuffered, Broadcasting
<1>5. WayInOrder'
  BY <1>1 DEF OrderInv, WayInOrder
<1>6. OneThread' /\ LinksApart' /\ ClosedIsEmpty' /\ OneEntry'
  BY <1>1 DEF OrderInv, OneThread, LinksApart, ClosedIsEmpty, OneEntry
<1>7. QED
  BY <1>4, <1>5, <1>6 DEF OrderInv

(***************************************************************************)
(* A new connection begins with an empty queue.                             *)
(***************************************************************************)
LEMMA ConnectKeepsOrder ==
  ASSUME Workers = 1, NEW n, TypedUpTo(n), OrderInv, OneEntry',
         NEW u \in Usernames, NEW s \in Sessions, OnConnected(u, s)
  PROVE  OrderInv'
<1>1. /\ Idle /\ session[s] # "open"
      /\ \A t : session'[t] # "open" => session[t] # "open"
      /\ link' = [link EXCEPT ![u] = s] /\ \A v \in Usernames : link[v] # s
      /\ UNCHANGED <<todo, outbox, shown>>
  <2>1. /\ Idle /\ session[s] = "absent"
        /\ session' = [session EXCEPT ![s] = "open"]
        /\ link' = [link EXCEPT ![u] = s] /\ \A v \in Usernames : link[v] # s
        /\ UNCHANGED <<todo, outbox, shown>>
    BY DEF OnConnected, OnAccept, Accept
  <2>2. QED
    BY <2>1
<1>2. \A t \in Sessions : todo'[t] = <<>>
  BY <1>1, IdleMeansDone DEF OrderInv
<1>3. outbox[s] = <<>>
  BY <1>1 DEF OrderInv, ClosedIsEmpty
<1>4. link'[u] = s /\ \A v \in Usernames : v # u => link'[v] = link[v]
  BY <1>1 DEF TypedUpTo
<1>5. WayInOrder'
  <2>1. \A t \in Sessions, r \in RoomIds : QueueInOrder(outbox'[t], r)
    BY <1>1 DEF OrderInv, WayInOrder
  <2>2. \A v \in Usernames, r \in RoomIds : Ascends(shown'[v][r])
    BY <1>1 DEF OrderInv, WayInOrder
  <2>3. ASSUME NEW v \in Usernames, NEW r \in RoomIds, link'[v] # NoLink
        PROVE  ThenQueue(shown'[v][r], outbox'[link'[v]], r)
    <3>1. CASE v = u
      BY <1>1, <1>3, <1>4, <3>1 DEF ThenQueue
    <3>2. CASE v # u
      BY <1>1, <1>4, <2>3, <3>2 DEF OrderInv, WayInOrder
    <3>3. QED
      BY <3>1, <3>2
  <2>4. QED
    BY <2>1, <2>2, <2>3 DEF WayInOrder
<1>6. LinksApart'
  BY <1>1, <1>4 DEF OrderInv, LinksApart
<1>7. OneThread' /\ ClosedIsEmpty'
  BY <1>1, <1>2 DEF OrderInv, OneThread, ClosedIsEmpty
<1>8. \A t \in Sessions : HandlerInOrder(t)'
  BY <1>2, NothingIsPlain DEF HandlerInOrder
<1>9. QED
  BY <1>5, <1>6, <1>7, <1>8 DEF OrderInv

(***************************************************************************)
(* When queues and what is shown only get less, handlers stay in order.      *)
(***************************************************************************)
LEMMA HandlersStay ==
  ASSUME OrderInv, UNCHANGED <<session, todo>>,
         \A x \in Sessions : \A n : Below(x, n) => Below(x, n)',
         \A x \in Sessions, r \in RoomIds : Clear(x, r) => Clear(x, r)',
         NEW n, TypedUpTo(n), NEW s \in Sessions
  PROVE  HandlerInOrder(s)'
<1>1. /\ HandlerInOrder(s) /\ todo[s] \in Seq(StepsUpTo(n))
      /\ todo'[s] = todo[s] /\ session'[s] = session[s]
  BY DEF OrderInv, TypedUpTo
<1>2. \A i \in DOMAIN todo[s] : todo[s][i] \in StepsUpTo(n)
  BY <1>1
<1>3. CASE Plain(todo[s])
  BY <1>1, <1>3 DEF HandlerInOrder
<1>4. CASE BeforeJoined(s)
  BY <1>1, <1>4 DEF HandlerInOrder, BeforeJoined
<1>5. CASE BeforeLookUp(s)
  <2>1. todo[s][1] \in StepsUpTo(n) /\ todo[s][1].op = "pending"
    BY <1>1, <1>2, <1>5 DEF BeforeLookUp
  <2>2. todo[s][1].roomId \in RoomIds
    BY <2>1 DEF StepsUpTo
  <2>3. QED
    BY <1>1, <1>5, <2>2 DEF HandlerInOrder, BeforeLookUp
<1>6. CASE BeforeBuffered(s)
  <2>1. todo[s][1] \in StepsUpTo(n) /\ todo[s][1].op = "send"
        /\ todo[s][1].msg.type = "buffered-messages"
    BY <1>1, <1>2, <1>6 DEF BeforeBuffered, SendsTo
  <2>2. todo[s][1].msg \in MessagesUpTo(n)
    BY <2>1 DEF StepsUpTo
  <2>3. todo[s][1].msg.roomId \in RoomIds
    BY <2>1, <2>2, MessagesMean
  <2>4. QED
    BY <1>1, <1>6, <2>3 DEF HandlerInOrder, BeforeBuffered
<1>7. CASE Broadcasting(s)
  <2>1. \A i \in DOMAIN todo[s] : todo[s][i].op = "send"
    BY <1>7 DEF Broadcasting
  <2>2. \A i \in DOMAIN todo[s] : todo[s][i].to \subseteq Sessions
    BY <1>2, <2>1 DEF StepsUpTo
  <2>3. Broadcasting(s)'
    BY <1>1, <1>7, <2>2 DEF Broadcasting
  <2>4. QED
    BY <2>3 DEF HandlerInOrder
<1>8. QED
  BY <1>1, <1>3, <1>4, <1>5, <1>6, <1>7 DEF HandlerInOrder

(***************************************************************************)
(* A lost connection takes its queue along.                                 *)
(***************************************************************************)
LEMMA DisconnectedKeepsOrder ==
  ASSUME NEW n, TypedUpTo(n), OrderInv, OneEntry', NEW u \in Usernames, OnDisconnected(u)
  PROVE  OrderInv'
<1>1. /\ link[u] # NoLink /\ link[u] \in Sessions
      /\ link' = [link EXCEPT ![u] = NoLink]
      /\ outbox' = [outbox EXCEPT ![link[u]] = <<>>]
      /\ UNCHANGED <<session, todo, shown>>
  BY DEF OnDisconnected, TypedUpTo, vars
<1>2. /\ link'[u] = NoLink /\ \A v \in Usernames : v # u => link'[v] = link[v]
      /\ outbox'[link[u]] = <<>>
      /\ \A x \in Sessions : x # link[u] => outbox'[x] = outbox[x]
  BY <1>1 DEF TypedUpTo
<1>3. NoLink \notin Sessions
  BY GroupChatAssumption
<1>4. \A v \in Usernames : link'[v] # NoLink =>
        v # u /\ link'[v] = link[v] /\ link[v] # link[u] /\ link[v] \in Sessions
  BY <1>1, <1>2 DEF OrderInv, LinksApart, TypedUpTo
<1>5. \A x \in Sessions : \A k : Below(x, k) => Below(x, k)'
  <2>1. SUFFICES ASSUME NEW x \in Sessions, NEW k, Below(x, k), NEW r \in RoomIds
                 PROVE  /\ \A j \in DOMAIN outbox'[x] :
                             \A a \in Numbers(outbox'[x][j], r) : a < k
                        /\ \A v \in Usernames : link'[v] = x =>
                             \A i \in DOMAIN shown[v][r] : shown[v][r][i] < k
    BY <1>1 DEF Below
  <2>2. \A j \in DOMAIN outbox'[x] : \A a \in Numbers(outbox'[x][j], r) : a < k
    BY <1>2, <2>1 DEF Below
  <2>3. \A v \in Usernames : link'[v] = x => link[v] = x
    BY <1>3, <1>4
  <2>4. QED
    BY <2>1, <2>2, <2>3 DEF Below
<1>6. \A x \in Sessions, r \in RoomIds : Clear(x, r) => Clear(x, r)'
  <2>1. SUFFICES ASSUME NEW x \in Sessions, NEW r \in RoomIds, Clear(x, r)
                 PROVE  Clear(x, r)'
    OBVIOUS
  <2>2. CASE x = link[u]
    <3>1. \A v \in Usernames : link'[v] # x
      BY <1>3, <1>4, <2>2
    <3>2. QED
      BY <1>2, <2>2, <3>1 DEF Clear
  <2>3. CASE x # link[u]
    <3>1. \A v \in Usernames : link'[v] = x => link[v] = x
      BY <1>3, <1>4
    <3>2. QED
      BY <1>1, <1>2, <2>1, <2>3, <3>1 DEF Clear
  <2>4. QED
    BY <2>2, <2>3
<1>7. \A s \in Sessions : HandlerInOrder(s)'
  BY <1>1, <1>5, <1>6, HandlersStay
<1>8. WayInOrder'
  <2>1. \A x \in Sessions, r \in RoomIds : QueueInOrder(outbox'[x], r)
    <3>1. \A r : QueueInOrder(<<>>, r)
      BY DEF QueueInOrder
    <3>2. QED
      BY <1>2, <3>1 DEF OrderInv, WayInOrder
  <2>2. \A v \in Usernames, r \in RoomIds :
          /\ Ascends(shown'[v][r])
          /\ link'[v] # NoLink => ThenQueue(shown'[v][r], outbox'[link'[v]], r)
    BY <1>1, <1>2, <1>4 DEF OrderInv, WayInOrder
  <2>3. QED
    BY <2>1, <2>2 DEF WayInOrder
<1>9. LinksApart'
  BY <1>2, <1>4 DEF OrderInv, LinksApart
<1>10. OneThread' /\ ClosedIsEmpty'
  BY <1>1, <1>2 DEF OrderInv, OneThread, ClosedIsEmpty
<1>11. QED
  BY <1>7, <1>8, <1>9, <1>10 DEF OrderInv

-----------------------------------------------------------------------------
(* A client receives a message.                                            *)

(***************************************************************************)
(* Numbers are carried by two kinds of messages.                            *)
(***************************************************************************)
LEMMA NumbersMean ==
  ASSUME NEW n \in Nat, NEW m \in MessagesUpTo(n), NEW r
  PROVE  /\ Numbers(m, r) \subseteq 1..n
         /\ Numbers(m, r) # {} =>
              m.roomId = r /\ m.type \in {"group-message", "buffered-messages"}
         /\ Starts(m, r) => Numbers(m, r) = {}
BY MessagesMean DEF Numbers, Starts

(***************************************************************************)
(* Of each room the client begins anew, or shows some more of the numbers    *)
(* the message carries, or none.                                           *)
(***************************************************************************)
LEMMA OnMessageShows ==
  ASSUME NEW n \in Nat, TypedUpTo(n), NEW u \in Usernames, OnMessage(u),
         NEW m, m = Head(outbox[link[u]])
  PROVE  /\ \A v \in Usernames : v # u => shown'[v] = shown[v]
         /\ \A r \in RoomIds :
              \/ Starts(m, r) /\ shown'[u][r] = <<>>
              \/ /\ ~Starts(m, r)
                 /\ \E h \in Seq(Nat) :
                      /\ shown'[u][r] = shown[u][r] \o h /\ Ascends(h)
                      /\ \A i \in DOMAIN h : h[i] \in Numbers(m, r)
<1>1. m \in MessagesUpTo(n)
  <2>1. /\ link[u] \in Sessions
        /\ outbox[link[u]] \in Seq(MessagesUpTo(n)) /\ outbox[link[u]] # <<>>
    BY DEF OnMessage, TypedUpTo
  <2>2. QED
    BY <2>1, HeadTailProperties
<1>2. /\ shown \in [Usernames -> [RoomIds -> Seq(1..n)]]
      /\ 1..n \subseteq Nat /\ Seq(1..n) \subseteq Seq(Nat)
  BY SeqMonotonic DEF TypedUpTo
<1>3. ASSUME UNCHANGED shown, ~(m.type = "joined")
      PROVE  /\ \A v \in Usernames : v # u => shown'[v] = shown[v]
             /\ \A r \in RoomIds :
                  /\ ~Starts(m, r)
                  /\ \E h \in Seq(Nat) :
                       /\ shown'[u][r] = shown[u][r] \o h /\ Ascends(h)
                       /\ \A i \in DOMAIN h : h[i] \in Numbers(m, r)
  <2>1. SUFFICES ASSUME NEW r \in RoomIds
                 PROVE  \E h \in Seq(Nat) :
                          /\ shown'[u][r] = shown[u][r] \o h /\ Ascends(h)
                          /\ \A i \in DOMAIN h : h[i] \in Numbers(m, r)
    BY <1>3 DEF Starts
  <2>2. shown[u][r] \o <<>> = shown[u][r]
    BY <1>2
  <2>3. <<>> \in Seq(Nat) /\ Ascends(<<>>) /\ DOMAIN <<>> = {}
    BY DEF Ascends
  <2>4. QED
    BY <1>3, <2>2, <2>3
<1>4. ASSUME NEW seqs \in Seq(1..n), Ascends(seqs), m.roomId \in RoomIds,
             m.type # "joined", \A i \in DOMAIN seqs : seqs[i] \in Numbers(m, m.roomId),
             Show(u, m.roomId, seqs)
      PROVE  /\ \A v \in Usernames : v # u => shown'[v] = shown[v]
             /\ \A r \in RoomIds :
                  /\ ~Starts(m, r)
                  /\ \E h \in Seq(Nat) :
                       /\ shown'[u][r] = shown[u][r] \o h /\ Ascends(h)
                       /\ \A i \in DOMAIN h : h[i] \in Numbers(m, r)
  <2>1. shown' = [shown EXCEPT ![u] = [shown[u] EXCEPT ![m.roomId] =
                                         shown[u][m.roomId] \o seqs]]
    BY <1>4 DEF Show
  <2>2. /\ \A v \in Usernames : v # u => shown'[v] = shown[v]
        /\ shown'[u][m.roomId] = shown[u][m.roomId] \o seqs
        /\ \A r \in RoomIds : r # m.roomId => shown'[u][r] = shown[u][r]
    BY <1>2, <1>4, <2>1
  <2>3. SUFFICES ASSUME NEW r \in RoomIds
                 PROVE  \E h \in Seq(Nat) :
                          /\ shown'[u][r] = shown[u][r] \o h /\ Ascends(h)
                          /\ \A i \in DOMAIN h : h[i] \in Numbers(m, r)
    BY <1>4, <2>2 DEF Starts
  <2>4. CASE r = m.roomId
    BY <1>2, <1>4, <2>2, <2>4
  <2>5. CASE r # m.roomId
    <3>1. shown[u][r] \o <<>> = shown[u][r]
      BY <1>2
    <3>2. <<>> \in Seq(Nat) /\ Ascends(<<>>) /\ DOMAIN <<>> = {}
      BY DEF Ascends
    <3>3. QED
      BY <2>2, <2>5, <3>1, <3>2
  <2>6. QED
    BY <2>4, <2>5
<1>5. CASE m.type = "joined" /\ OnJoined(u, m)
  <2>1. m.roomId \in RoomIds
    BY <1>1, <1>5, MessagesMean
  <2>2. shown' = [shown EXCEPT ![u] = [shown[u] EXCEPT ![m.roomId] = <<>>]]
    BY <1>5 DEF OnJoined
  <2>3. /\ \A v \in Usernames : v # u => shown'[v] = shown[v]
        /\ shown'[u][m.roomId] = <<>>
        /\ \A r \in RoomIds : r # m.roomId => shown'[u][r] = shown[u][r]
    BY <1>2, <2>1, <2>2
  <2>4. SUFFICES ASSUME NEW r \in RoomIds, r # m.roomId
                 PROVE  /\ ~Starts(m, r)
                        /\ \E h \in Seq(Nat) :
                             /\ shown'[u][r] = shown[u][r] \o h /\ Ascends(h)
                             /\ \A i \in DOMAIN h : h[i] \in Numbers(m, r)
    BY <1>5, <2>3 DEF Starts
  <2>5. shown[u][r] \o <<>> = shown[u][r]
    BY <1>2
  <2>6. <<>> \in Seq(Nat) /\ Ascends(<<>>) /\ DOMAIN <<>> = {}
    BY DEF Ascends
  <2>7. QED
    BY <2>3, <2>4, <2>5, <2>6 DEF Starts
<1>6. CASE m.type \in {"peer-joined", "peer-left"}
           /\ (OnPeerJoined(u, m) \/ OnPeerLeft(u, m))
  BY <1>3, <1>6 DEF OnPeerJoined, OnPeerLeft
<1>7. CASE m.type = "group-message" /\ OnGroupMessage(u, m)
  <2>1. m.roomId \in RoomIds /\ m.messageSeq \in 1..n
    BY <1>1, <1>7, MessagesMean
  <2>2. <<m.messageSeq>> \in Seq(1..n) /\ Ascends(<<m.messageSeq>>)
    BY <2>1 DEF Ascends
  <2>3. \A i \in DOMAIN <<m.messageSeq>> : <<m.messageSeq>>[i] \in Numbers(m, m.roomId)
    BY <1>7 DEF Numbers
  <2>4. QED
    BY <1>4, <1>7, <2>1, <2>2, <2>3 DEF OnGroupMessage
<1>8. CASE m.type = "buffered-messages" /\ OnBufferedMessages(u, m)
  <2>1. m.roomId \in RoomIds /\ m.messages \in SUBSET (1..n)
    BY <1>1, <1>8, MessagesMean
  <2>2. PICK seqs \in Ascending(m.messages) : Show(u, m.roomId, seqs)
    BY <1>8 DEF OnBufferedMessages
  <2>3. seqs \in Seq(m.messages) /\ seqs \in Seq(1..n)
    BY <2>1, AscendingNumbers
  <2>4. Ascends(seqs)
    BY DEF Ascends, Ascending
  <2>5. \A i \in DOMAIN seqs : seqs[i] \in Numbers(m, m.roomId)
    BY <1>8, <2>3 DEF Numbers
  <2>6. QED
    BY <1>4, <1>8, <2>1, <2>2, <2>3, <2>4, <2>5
<1>9. CASE OnReply(m)
  BY <1>3, <1>9 DEF OnReply
<1>10. QED
  BY <1>5, <1>6, <1>7, <1>8, <1>9, Zenon DEF OnMessage

(***************************************************************************)
(* Whatever has been sent to a client stays in order when it shows the next. *)
(***************************************************************************)
LEMMA OnMessageKeepsOrder ==
  ASSUME NEW n \in Nat, TypedUpTo(n), OrderInv, OneEntry', NEW u \in Usernames,
         OnMessage(u)
  PROVE  OrderInv'
<1>1. PICK x : x = link[u]
  OBVIOUS
<1>2. PICK q : q = outbox[x]
  OBVIOUS
<1>3. PICK m : m = Head(q)
  OBVIOUS
<1>4. /\ x \in Sessions /\ x # NoLink
      /\ q \in Seq(MessagesUpTo(n)) /\ q # <<>>
      /\ outbox' = [outbox EXCEPT ![x] = Tail(q)]
      /\ UNCHANGED <<session, todo, link>>
  BY <1>1, <1>2, GroupChatAssumption DEF OnMessage, TypedUpTo, vars
<1>5. /\ outbox'[x] = Tail(q)
      /\ \A y \in Sessions : y # x => outbox'[y] = outbox[y]
  BY <1>4 DEF TypedUpTo
<1>6. /\ \A v \in Usernames : v # u => shown'[v] = shown[v]
      /\ \A r \in RoomIds :
           \/ Starts(m, r) /\ shown'[u][r] = <<>>
           \/ /\ ~Starts(m, r)
              /\ \E h \in Seq(Nat) :
                   /\ shown'[u][r] = shown[u][r] \o h /\ Ascends(h)
                   /\ \A i \in DOMAIN h : h[i] \in Numbers(m, r)
  BY <1>1, <1>2, <1>3, OnMessageShows
<1>7. \A v \in Usernames : link[v] = x => v = u
  BY <1>1, <1>4 DEF OrderInv, LinksApart
<1>8. \A v \in Usernames, r \in RoomIds : shown[v][r] \in Seq(Nat)
  BY SeqMonotonic DEF TypedUpTo
<1>9. /\ Len(q) \in Nat /\ Len(Tail(q)) = Len(q) - 1 /\ Len(q) >= 1 /\ m = q[1]
      /\ DOMAIN q = 1..Len(q) /\ DOMAIN Tail(q) = 1..(Len(q) - 1)
      /\ \A j \in DOMAIN Tail(q) : j \in Nat /\ j + 1 \in DOMAIN q /\ Tail(q)[j] = q[j + 1]
  BY <1>3, <1>4
<1>10. WayInOrder'
  <2>1. \A y \in Sessions, r \in RoomIds : QueueInOrder(outbox'[y], r)
    BY <1>2, <1>4, <1>5, TailInOrder DEF OrderInv, WayInOrder
  <2>2. ASSUME NEW v \in Usernames, NEW r \in RoomIds
        PROVE  /\ Ascends(shown'[v][r])
               /\ link[v] # NoLink => ThenQueue(shown'[v][r], outbox'[link[v]], r)
    <3>1. CASE v # u
      <4>1. link[v] # NoLink => link[v] # x /\ link[v] \in Sessions
        BY <1>7, <3>1 DEF TypedUpTo
      <4>2. QED
        BY <1>5, <1>6, <3>1, <4>1 DEF OrderInv, WayInOrder
    <3>2. CASE v = u
      <4>1. /\ Ascends(shown[u][r]) /\ ThenQueue(shown[u][r], q, r) /\ QueueInOrder(q, r)
        BY <1>1, <1>2, <1>4 DEF OrderInv, WayInOrder
      <4>2. CASE Starts(m, r) /\ shown'[u][r] = <<>>
        <5>1. Ascends(<<>>) /\ ThenQueue(<<>>, Tail(q), r)
          BY DEF Ascends, ThenQueue
        <5>2. QED
          BY <1>1, <1>5, <3>2, <4>2, <5>1
      <4>3. CASE ~Starts(m, r) /\ \E h \in Seq(Nat) :
                   /\ shown'[u][r] = shown[u][r] \o h /\ Ascends(h)
                   /\ \A i \in DOMAIN h : h[i] \in Numbers(m, r)
        <5>1. PICK h \in Seq(Nat) :
                   /\ shown'[u][r] = shown[u][r] \o h /\ Ascends(h)
                   /\ \A i \in DOMAIN h : h[i] \in Numbers(m, r)
          BY <4>3
        <5>2. Ascends(shown[u][r] \o h) /\ ThenQueue(shown[u][r] \o h, Tail(q), r)
          BY <1>3, <1>4, <1>8, <4>1, <4>3, <5>1, HeadMoves
        <5>3. QED
          BY <1>1, <1>5, <3>2, <5>1, <5>2
      <4>4. QED
        BY <1>6, <4>2, <4>3
    <3>3. QED
      BY <3>1, <3>2
  <2>3. QED
    BY <1>4, <2>1, <2>2 DEF WayInOrder
<1>11. \A y \in Sessions : \A k : Below(y, k) => Below(y, k)'
  <2>1. SUFFICES ASSUME NEW y \in Sessions, NEW k, Below(y, k), NEW r \in RoomIds
                 PROVE  /\ \A j \in DOMAIN outbox'[y] :
                             \A a \in Numbers(outbox'[y][j], r) : a < k
                        /\ \A v \in Usernames : link[v] = y =>
                             \A i \in DOMAIN shown'[v][r] : shown'[v][r][i] < k
    BY <1>4 DEF Below
  <2>2. CASE y # x
    <3>1. \A v \in Usernames : link[v] = y => v # u
      BY <1>1, <2>2
    <3>2. QED
      BY <1>5, <1>6, <2>1, <2>2, <3>1 DEF Below
  <2>3. CASE y = x
    <3>1. /\ \A j \in DOMAIN q : \A a \in Numbers(q[j], r) : a < k
          /\ \A i \in DOMAIN shown[u][r] : shown[u][r][i] < k
      BY <1>1, <1>2, <2>1, <2>3 DEF Below
    <3>2. \A j \in DOMAIN Tail(q) : \A a \in Numbers(Tail(q)[j], r) : a < k
      BY <1>9, <3>1
    <3>3. \A i \in DOMAIN shown'[u][r] : shown'[u][r][i] < k
      <4>1. CASE shown'[u][r] = <<>>
        BY <4>1
      <4>2. CASE \E h \in Seq(Nat) :
                   /\ shown'[u][r] = shown[u][r] \o h
                   /\ \A i \in DOMAIN h : h[i] \in Numbers(m, r)
        <5>1. PICK h \in Seq(Nat) :
                   /\ shown'[u][r] = shown[u][r] \o h
                   /\ \A i \in DOMAIN h : h[i] \in Numbers(m, r)
          BY <4>2
        <5>2. \A i \in DOMAIN h : h[i] < k
          <6>1. 1 \in DOMAIN q /\ q[1] = m
            BY <1>9
          <6>2. \A a \in Numbers(m, r) : a < k
            BY <3>1, <6>1
          <6>3. QED
            BY <5>1, <6>2
        <5>3. PICK g \in Seq(Nat) : g = shown[u][r]
          BY <1>8
        <5>4. \A i \in DOMAIN (g \o h) : (g \o h)[i] < k
          BY <3>1, <5>2, <5>3
        <5>5. QED
          BY <5>1, <5>3, <5>4
      <4>3. QED
        BY <1>6, <4>1, <4>2
    <3>4. QED
      BY <1>5, <1>7, <2>3, <3>2, <3>3
  <2>4. QED
    BY <2>2, <2>3
<1>12. \A y \in Sessions, r \in RoomIds : Clear(y, r) => Clear(y, r)'
  <2>1. SUFFICES ASSUME NEW y \in Sessions, NEW r \in RoomIds, Clear(y, r)
                 PROVE  Clear(y, r)'
    OBVIOUS
  <2>2. CASE y # x
    <3>1. \A v \in Usernames : link[v] = y => v # u
      BY <1>1, <2>2
    <3>2. QED
      BY <1>4, <1>5, <1>6, <2>1, <2>2, <3>1 DEF Clear
  <2>3. CASE y = x
    <3>1. /\ \A j \in DOMAIN q : Numbers(q[j], r) = {} \/ Apart(q, j, Len(q), r)
          /\ shown[u][r] = <<>> \/ Apart(q, 0, Len(q), r)
      BY <1>1, <1>2, <2>1, <2>3 DEF Clear
    <3>2. \A i \in Nat : Apart(q, i + 1, Len(q), r) => Apart(Tail(q), i, Len(Tail(q)), r)
      <4>1. Len(Tail(q)) \in Nat /\ Len(q) = Len(Tail(q)) + 1
        BY <1>9
      <4>2. QED
        BY <1>4, <4>1, TailApart
    <3>3. \A j \in DOMAIN Tail(q) :
            Numbers(Tail(q)[j], r) = {} \/ Apart(Tail(q), j, Len(Tail(q)), r)
      BY <1>9, <3>1, <3>2
    <3>4. shown'[u][r] = <<>> \/ Apart(Tail(q), 0, Len(Tail(q)), r)
      <4>1. SUFFICES ASSUME ~Apart(Tail(q), 0, Len(Tail(q)), r), ~Starts(m, r)
                     PROVE  shown'[u][r] = <<>>
        BY <1>6
      <4>2. ~Apart(q, 1, Len(q), r)
        BY <3>2, <4>1
      <4>3. Numbers(m, r) = {}
        BY <1>9, <3>1, <4>2
      <4>4. shown[u][r] = <<>>
        BY <1>3, <1>4, <1>9, <3>1, <4>1, <4>2, ApartFromFirst
      <4>5. PICK h \in Seq(Nat) :
              /\ shown'[u][r] = shown[u][r] \o h
              /\ \A i \in DOMAIN h : h[i] \in Numbers(m, r)
        BY <1>6, <4>1
      <4>6. h = <<>>
        <5>1. DOMAIN h = {}
          BY <4>3, <4>5
        <5>2. QED
          BY <5>1
      <4>7. QED
        BY <4>4, <4>5, <4>6
    <3>5. QED
      BY <1>4, <1>5, <1>7, <2>3, <3>3, <3>4 DEF Clear
  <2>4. QED
    BY <2>2, <2>3
<1>13. \A s \in Sessions : HandlerInOrder(s)'
  BY <1>4, <1>11, <1>12, HandlersStay
<1>14. OneThread' /\ LinksApart' /\ ClosedIsEmpty'
  <2>1. ClosedIsEmpty'
    <3>1. session[x] = "open"
      BY <1>2, <1>4 DEF OrderInv, ClosedIsEmpty
    <3>2. QED
      BY <1>4, <1>5, <3>1 DEF OrderInv, ClosedIsEmpty
  <2>2. QED
    BY <1>4, <2>1 DEF OrderInv, OneThread, LinksApart
<1>15. QED
  BY <1>10, <1>13, <1>14 DEF OrderInv

-----------------------------------------------------------------------------
(* The server sends what a handler has to send.                             *)

(***************************************************************************)
(* A message that fits what is on its way to x leaves the way in order.      *)
(***************************************************************************)
LEMMA SendingKeepsWay ==
  ASSUME NEW n \in Nat, TypedUpTo(n), WayInOrder, NEW x \in Sessions,
         NEW m \in MessagesUpTo(n), UNCHANGED <<link, shown>>,
         outbox' = [outbox EXCEPT ![x] = Append(outbox[x], m)],
         \A r \in RoomIds :
           /\ FitsQueue(outbox[x], m, r)
           /\ \A u \in Usernames : link[u] = x => FitsAfter(shown[u][r], outbox[x], m, r)
  PROVE  WayInOrder'
<1>1. /\ outbox'[x] = Append(outbox[x], m)
      /\ \A y \in Sessions : y # x => outbox'[y] = outbox[y]
      /\ outbox[x] \in Seq(MessagesUpTo(n))
  BY DEF TypedUpTo
<1>2. \A y \in Sessions, r \in RoomIds : QueueInOrder(outbox'[y], r)
  <2>1. \A r \in RoomIds : QueueInOrder(Append(outbox[x], m), r)
    BY <1>1, AppendInOrder DEF WayInOrder
  <2>2. QED
    BY <1>1, <2>1 DEF WayInOrder
<1>3. ASSUME NEW u \in Usernames, NEW r \in RoomIds, link[u] # NoLink
      PROVE  ThenQueue(shown[u][r], outbox'[link[u]], r)
  <2>1. link[u] \in Sessions
    BY <1>3 DEF TypedUpTo
  <2>2. ThenQueue(shown[u][r], outbox[link[u]], r)
    BY <1>3 DEF WayInOrder
  <2>3. CASE link[u] = x
    <3>1. ThenQueue(shown[u][r], Append(outbox[x], m), r)
      BY <1>1, <2>2, <2>3, AppendThen
    <3>2. QED
      BY <1>1, <2>3, <3>1
  <2>4. CASE link[u] # x
    BY <1>1, <2>1, <2>2, <2>4
  <2>5. QED
    BY <2>3, <2>4
<1>4. QED
  BY <1>2, <1>3 DEF WayInOrder

(***************************************************************************)
(* A message without a number fits anywhere.                                *)
(***************************************************************************)
LEMMA NumberlessFits ==
  ASSUME NEW q, NEW m, NEW r, Numbers(m, r) = {}
  PROVE  FitsQueue(q, m, r) /\ \A g : FitsAfter(g, q, m, r)
BY DEF FitsQueue, FitsAfter

(***************************************************************************)
(* What others are on the way to receive is as before.                      *)
(***************************************************************************)
LEMMA SendingElsewhere ==
  ASSUME NEW n, TypedUpTo(n), NEW x \in Sessions, NEW m,
         UNCHANGED <<link, shown>>,
         outbox' = [outbox EXCEPT ![x] = Append(outbox[x], m)],
         NEW y \in Sessions, y # x, NEW k, Below(y, k)
  PROVE  Below(y, k)'
<1>1. outbox'[y] = outbox[y]
  BY DEF TypedUpTo
<1>2. QED
  BY <1>1 DEF Below

(***************************************************************************)
(* A "joined" clears the way.                                               *)
(***************************************************************************)
LEMMA StartClears ==
  ASSUME NEW n \in Nat, TypedUpTo(n), NEW x \in Sessions,
         NEW m \in MessagesUpTo(n), UNCHANGED <<link, shown>>,
         outbox' = [outbox EXCEPT ![x] = Append(outbox[x], m)],
         NEW r \in RoomIds, Starts(m, r)
  PROVE  Clear(x, r)'
<1>1. PICK q \in Seq(MessagesUpTo(n)) : q = outbox[x]
  BY DEF TypedUpTo
<1>2. outbox'[x] = Append(q, m)
  BY <1>1 DEF TypedUpTo
<1>3. /\ Len(Append(q, m)) = Len(q) + 1 /\ Len(q) \in Nat /\ DOMAIN q = 1..Len(q)
      /\ DOMAIN Append(q, m) = 1..(Len(q) + 1)
      /\ Append(q, m)[Len(q) + 1] = m
  BY <1>1
<1>4. \A i \in Nat : i <= Len(q) => Apart(Append(q, m), i, Len(q) + 1, r)
  BY <1>1, AppendApart
<1>5. Numbers(m, r) = {}
  BY NumbersMean
<1>6. \A j \in DOMAIN Append(q, m) :
        \/ Numbers(Append(q, m)[j], r) = {}
        \/ Apart(Append(q, m), j, Len(Append(q, m)), r)
  <2>1. SUFFICES ASSUME NEW j \in DOMAIN Append(q, m), j # Len(q) + 1
                 PROVE  Apart(Append(q, m), j, Len(q) + 1, r)
    BY <1>3, <1>5
  <2>2. j \in Nat /\ j <= Len(q)
    BY <1>3, <2>1
  <2>3. QED
    BY <1>4, <2>2
<1>7. Apart(Append(q, m), 0, Len(Append(q, m)), r)
  BY <1>3, <1>4
<1>8. QED
  BY <1>2, <1>6, <1>7 DEF Clear

(***************************************************************************)
(* A sequence with one more element in front.                              *)
(***************************************************************************)
LEMMA Prepended ==
  ASSUME NEW U, NEW e \in U, NEW b \in Seq(U)
  PROVE  /\ Len(<<e>> \o b) = Len(b) + 1
         /\ DOMAIN (<<e>> \o b) = 1..(Len(b) + 1)
         /\ (<<e>> \o b)[1] = e
         /\ \A i \in 1..Len(b) : (<<e>> \o b)[i + 1] = b[i]
<1>1. PICK a : a = <<e>>
  OBVIOUS
<1>2. a \in Seq(U) /\ Len(a) = 1 /\ a[1] = e
  BY <1>1
<1>3. PICK c : c = a \o b
  OBVIOUS
<1>4. Len(c) = Len(a) + Len(b)
  BY <1>2, <1>3, ConcatProperties
<1>5. \A i \in 1 .. Len(a) + Len(b) : c[i] =
                     IF i <= Len(a) THEN a[i] ELSE b[i - Len(a)]
  BY <1>2, <1>3, ConcatProperties
<1>6. Len(b) \in Nat /\ c \in Seq(U)
  BY <1>2, <1>3, ConcatProperties
<1>7. c[1] = e
  BY <1>2, <1>5, <1>6
<1>8. \A i \in 1..Len(b) : c[i + 1] = b[i]
  BY <1>2, <1>5, <1>6
<1>9. Len(c) = Len(b) + 1 /\ DOMAIN c = 1..(Len(b) + 1)
  BY <1>2, <1>4, <1>6
<1>10. QED
  BY <1>1, <1>3, <1>7, <1>8, <1>9

\* left is T after its first step has sent to x, and has moved on by d steps.
Taken(T, x, left, d) ==
  \A i \in DOMAIN left :
    /\ i + d \in DOMAIN T /\ left[i].op = T[i + d].op
    /\ \/ left[i] = T[i + d] /\ i + d # 1
       \/ i + d = 1 /\ left[i].to = T[1].to \ {x} /\ left[i].msg = T[1].msg

(***************************************************************************)
(* What is left of a handler that has sent to x: the step itself without x,  *)
(* or, if nobody else is to receive it, what comes after it.                *)
(***************************************************************************)
LEMMA StepTaken ==
  ASSUME NEW S, NEW T \in Seq(S), T # <<>>, NEW x \in T[1].to, T[1].op = "send",
         NEW left, left = Send(T[1].to \ {x}, T[1].msg) \o Tail(T)
  PROVE  /\ T[1].to = {x} => left = Tail(T)
         /\ \E d \in {0, 1} : Taken(T, x, left, d)
<1>1. /\ Tail(T) \in Seq(S) /\ Len(T) \in Nat /\ Len(T) >= 1
      /\ DOMAIN T = 1..Len(T) /\ DOMAIN Tail(T) = 1..(Len(T) - 1)
      /\ Len(Tail(T)) = Len(T) - 1
      /\ \A i \in 1..(Len(T) - 1) : Tail(T)[i] = T[i + 1]
  OBVIOUS
<1>2. CASE T[1].to \ {x} = {}
  <2>1. left = Tail(T)
    BY <1>1, <1>2 DEF Send
  <2>2. \A i \in DOMAIN left : i + 1 \in DOMAIN T /\ left[i] = T[i + 1] /\ i + 1 # 1
    BY <1>1, <2>1
  <2>3. Taken(T, x, left, 1)
    BY <2>2 DEF Taken
  <2>4. QED
    BY <2>1, <2>3
<1>3. CASE T[1].to \ {x} # {}
  <2> DEFINE st == [op |-> "send", to |-> T[1].to \ {x}, msg |-> T[1].msg]
  <2>1. left = <<st>> \o Tail(T)
    BY <1>3 DEF Send
  <2>2. st.op = "send" /\ st.to = T[1].to \ {x} /\ st.msg = T[1].msg
    OBVIOUS
  <2> HIDE DEF st
  <2>3. /\ DOMAIN left = 1..Len(T) /\ left[1] = st
        /\ \A i \in 2..Len(T) : left[i] = T[i]
    <3>1. PICK U : U = S \cup {st}
      OBVIOUS
    <3>2. PICK b : b = Tail(T)
      OBVIOUS
    <3>3. b \in Seq(U) /\ st \in U /\ Len(b) = Len(T) - 1
      <4>1. S \subseteq U /\ st \in U
        BY <3>1
      <4>2. Seq(S) \subseteq Seq(U)
        BY <4>1, SeqMonotonic
      <4>3. QED
        BY <1>1, <3>2, <4>1, <4>2
    <3>4. /\ DOMAIN (<<st>> \o b) = 1..(Len(b) + 1)
          /\ (<<st>> \o b)[1] = st
          /\ \A i \in 1..Len(b) : (<<st>> \o b)[i + 1] = b[i]
      BY <3>3, Prepended
    <3>5. left = <<st>> \o b
      BY <2>1, <3>2
    <3>6. DOMAIN left = 1..Len(T) /\ left[1] = st
      <4>1. Len(b) + 1 = Len(T)
        BY <1>1, <3>3
      <4>2. QED
        BY <3>4, <3>5, <4>1
    <3>7. ASSUME NEW i \in 2..Len(T)
          PROVE  left[i] = T[i]
      <4>1. i - 1 \in 1..Len(b) /\ (i - 1) + 1 = i
        BY <1>1, <3>3
      <4>2. left[i] = b[i - 1]
        BY <3>4, <3>5, <4>1
      <4>3. QED
        BY <1>1, <3>2, <3>3, <4>1, <4>2
    <3>8. QED
      BY <3>6, <3>7
  <2>4. \A i \in DOMAIN left :
          /\ i + 0 = i /\ i \in DOMAIN T /\ left[i].op = T[i].op
          /\ \/ left[i] = T[i] /\ i # 1
             \/ i = 1 /\ left[i].to = T[1].to \ {x} /\ left[i].msg = T[1].msg
    <3>1. SUFFICES ASSUME NEW i \in DOMAIN left
                   PROVE  /\ i + 0 = i /\ i \in DOMAIN T /\ left[i].op = T[i].op
                          /\ \/ left[i] = T[i] /\ i # 1
                             \/ /\ i = 1
                                /\ left[i].to = T[1].to \ {x} /\ left[i].msg = T[1].msg
      OBVIOUS
    <3>2. i \in DOMAIN T /\ i + 0 = i /\ (i = 1 \/ i \in 2..Len(T))
      BY <1>1, <2>3
    <3>3. QED
      BY <2>2, <2>3, <3>2
  <2>5. Taken(T, x, left, 0)
    BY <2>4 DEF Taken
  <2>6. T[1].to # {x}
    BY <1>3
  <2>7. QED
    BY <2>5, <2>6
<1>4. QED
  BY <1>2, <1>3

(***************************************************************************)
(* To take one of those a handler sends to out of its steps keeps its shape. *)
(***************************************************************************)
LEMMA PlainStays ==
  ASSUME NEW S, NEW T \in Seq(S), T # <<>>, Plain(T), NEW x \in T[1].to,
         NEW left, left = Send(T[1].to \ {x}, T[1].msg) \o Tail(T)
  PROVE  Plain(left)
<1>1. T[1].op = "send"
  BY DEF Plain
<1>2. PICK d \in {0, 1} : Taken(T, x, left, d)
  BY <1>1, StepTaken
<1>3. \A i \in DOMAIN left :
        i + d \in DOMAIN T /\ left[i].op = T[i + d].op /\ left[i].msg = T[i + d].msg
  BY <1>2 DEF Taken
<1>4. QED
  BY <1>3 DEF Plain

\* The handler of a group message goes on with those not yet sent to.
LEMMA BroadcastStays ==
  ASSUME NEW n \in Nat, TypedUpTo(n), NEW s \in Sessions, todo[s] # <<>>,
         Broadcasting(s), NEW x \in todo[s][1].to, x \in Sessions,
         \A y \in Sessions : \A k : y # x /\ Below(y, k) => Below(y, k)',
         todo' \in [Sessions -> Seq(StepsUpTo(n))],
         todo'[s] = Send(todo[s][1].to \ {x}, todo[s][1].msg) \o Tail(todo[s])
  PROVE  Broadcasting(s)'
<1>1. PICK T \in Seq(StepsUpTo(n)) : T = todo[s]
  BY DEF TypedUpTo
<1>2. PICK left : left = todo'[s]
  OBVIOUS
<1>3. 1 \in DOMAIN T /\ \A i \in DOMAIN T : i \in Nat
  BY <1>1
<1>4. /\ \A i \in DOMAIN T :
           /\ T[i].op = "send" /\ T[i].msg.type = "group-message"
           /\ \A y \in T[i].to : Below(y, T[i].msg.messageSeq)
      /\ \A i, j \in DOMAIN T : i # j => T[i].to \cap T[j].to = {}
  BY <1>1 DEF Broadcasting
<1>5. \A i \in DOMAIN T : T[i].to \subseteq Sessions
  <2>1. \A i \in DOMAIN T : T[i] \in StepsUpTo(n)
    BY <1>1
  <2>2. QED
    BY <1>4, <2>1 DEF StepsUpTo
<1>6. PICK d \in {0, 1} : Taken(T, x, left, d)
  <2>1. /\ left = Send(T[1].to \ {x}, T[1].msg) \o Tail(T)
        /\ T # <<>> /\ T[1].op = "send" /\ x \in T[1].to
    BY <1>1, <1>2, <1>3, <1>4
  <2>2. QED
    BY <2>1, StepTaken
<1>7. \A i \in DOMAIN left :
        /\ i + d \in DOMAIN T /\ left[i].op = "send" /\ left[i].msg = T[i + d].msg
        /\ left[i].to \subseteq T[i + d].to /\ x \notin left[i].to
  BY <1>1, <1>3, <1>4, <1>6 DEF Taken
<1>8. ASSUME NEW i \in DOMAIN left
      PROVE  /\ left[i].op = "send" /\ left[i].msg.type = "group-message"
             /\ \A y \in left[i].to : Below(y, left[i].msg.messageSeq)'
  <2>1. PICK e \in DOMAIN T : e = i + d
    BY <1>7
  <2>2. /\ left[i].op = "send" /\ left[i].msg = T[e].msg
        /\ left[i].to \subseteq T[e].to /\ x \notin left[i].to
    BY <1>7, <2>1
  <2>3. \A y \in left[i].to : y \in Sessions /\ y # x
    BY <1>5, <2>2
  <2>4. \A y \in left[i].to : Below(y, left[i].msg.messageSeq)
    BY <1>4, <2>2
  <2>5. QED
    BY <1>4, <2>2, <2>3, <2>4
<1>9. ASSUME NEW i \in DOMAIN left, NEW j \in DOMAIN left, i # j
      PROVE  left[i].to \cap left[j].to = {}
  <2>1. /\ i + d \in DOMAIN T /\ j + d \in DOMAIN T
        /\ left[i].to \subseteq T[i + d].to /\ left[j].to \subseteq T[j + d].to
    BY <1>7
  <2>2. left \in Seq(StepsUpTo(n)) /\ i \in Nat /\ j \in Nat
    <3>1. left \in Seq(StepsUpTo(n))
      BY <1>2
    <3>2. QED
      BY <1>9, <3>1
  <2>3. i + d # j + d
    BY <1>9, <2>2
  <2>4. QED
    BY <1>4, <2>1, <2>3
<1>10. QED
  BY <1>2, <1>8, <1>9 DEF Broadcasting

(***************************************************************************)
(* What a handler sends next is in order with what it has sent.             *)
(***************************************************************************)
LEMMA NextFits ==
  ASSUME NEW n \in Nat, TypedUpTo(n), NEW s \in Sessions, todo[s] # <<>>,
         todo[s][1].op = "send", NEW x \in todo[s][1].to, HandlerInOrder(s),
         NEW r \in RoomIds
  PROVE  /\ FitsQueue(outbox[x], todo[s][1].msg, r)
         /\ \A u \in Usernames :
              link[u] = x => FitsAfter(shown[u][r], outbox[x], todo[s][1].msg, r)
<1>1. PICK T \in Seq(StepsUpTo(n)) : T = todo[s]
  BY DEF TypedUpTo
<1>2. PICK m : m = T[1].msg
  OBVIOUS
<1>3. 1 \in DOMAIN T /\ T[1] \in StepsUpTo(n)
  BY <1>1
<1>4. m \in MessagesUpTo(n) /\ x \in Sessions
  BY <1>1, <1>2, <1>3 DEF StepsUpTo
<1>5. CASE Numbers(m, r) = {}
  BY <1>1, <1>2, <1>5, NumberlessFits
<1>6. CASE BeforeBuffered(s) /\ m.roomId = r
  <2>1. x = s /\ Clear(x, r)
    BY <1>1, <1>2, <1>6 DEF BeforeBuffered, SendsTo
  <2>2. \A j \in DOMAIN outbox[x] :
          Numbers(outbox[x][j], r) = {} \/ Apart(outbox[x], j, Len(outbox[x]), r)
    BY <2>1 DEF Clear
  <2>3. \A u \in Usernames : link[u] = x =>
          shown[u][r] = <<>> \/ Apart(outbox[x], 0, Len(outbox[x]), r)
    BY <2>1 DEF Clear
  <2>4. \A g, q : g = <<>> => FitsAfter(g, q, m, r)
    BY DEF FitsAfter
  <2>5. FitsQueue(outbox[x], m, r)
    BY <2>2 DEF FitsQueue
  <2>6. \A u \in Usernames : link[u] = x => FitsAfter(shown[u][r], outbox[x], m, r)
    BY <2>3, <2>4 DEF FitsAfter
  <2>7. QED
    BY <1>1, <1>2, <2>5, <2>6
<1>7. CASE Broadcasting(s)
  <2>1. m.type = "group-message" /\ Below(x, m.messageSeq)
    BY <1>1, <1>2, <1>3, <1>7 DEF Broadcasting
  <2>2. \A b \in Numbers(m, r) : b = m.messageSeq
    BY <2>1 DEF Numbers
  <2>3. FitsQueue(outbox[x], m, r)
    BY <2>1, <2>2 DEF FitsQueue, Below
  <2>4. \A u \in Usernames : link[u] = x => FitsAfter(shown[u][r], outbox[x], m, r)
    BY <2>1, <2>2 DEF FitsAfter, Below
  <2>5. QED
    BY <1>1, <1>2, <2>3, <2>4
<1>8. ASSUME Numbers(m, r) # {}
      PROVE  m.roomId = r /\ ~Starts(m, T[2].roomId) /\ ~Plain(T)
  <2>1. m.roomId = r /\ m.type # "joined"
    BY <1>4, <1>8, NumbersMean
  <2>2. ~Plain(T)
    BY <1>2, <1>3, <1>8 DEF Plain
  <2>3. QED
    BY <2>1, <2>2 DEF Starts
<1>9. ~BeforeLookUp(s)
  BY DEF BeforeLookUp
<1>10. ~BeforeJoined(s) \/ Starts(m, T[2].roomId)
  BY <1>1, <1>2 DEF BeforeJoined
<1>11. QED
  BY <1>1, <1>5, <1>6, <1>7, <1>8, <1>9, <1>10 DEF HandlerInOrder

(***************************************************************************)
(* To take the element in front off again.                                  *)
(***************************************************************************)
LEMMA FirstAndRest ==
  ASSUME NEW S, NEW e, NEW b \in Seq(S)
  PROVE  <<e>> \o b # <<>> /\ (<<e>> \o b)[1] = e /\ Tail(<<e>> \o b) = b
<1>1. PICK U : U = S \cup {e}
  OBVIOUS
<1>2. b \in Seq(U) /\ e \in U
  <2>1. S \subseteq U
    BY <1>1
  <2>2. QED
    BY <1>1, <2>1, SeqMonotonic
<1>3. PICK c : c = <<e>> \o b
  OBVIOUS
<1>4. /\ Len(c) = Len(b) + 1 /\ c[1] = e
      /\ \A i \in 1..Len(b) : c[i + 1] = b[i]
  BY <1>2, <1>3, Prepended
<1>5. c \in Seq(U) /\ Len(b) \in Nat
  <2>1. <<e>> \in Seq(U)
    BY <1>2
  <2>2. QED
    BY <1>2, <1>3, <2>1, ConcatProperties
<1>6. c # <<>> /\ Len(Tail(c)) = Len(b) /\ Tail(c) \in Seq(U)
  BY <1>4, <1>5
<1>7. \A i \in 1..Len(b) : Tail(c)[i] = b[i]
  BY <1>4, <1>5, <1>6
<1>8. Tail(c) = b
  BY <1>2, <1>6, <1>7
<1>9. QED
  BY <1>3, <1>4, <1>6, <1>8

(***************************************************************************)
(* A handler sends the next of its messages to the next of its recipients.   *)
(***************************************************************************)
LEMMA SendTextKeepsOrder ==
  ASSUME NEW n \in Nat, TypedUpTo(n), TypedUpTo(n)', OrderInv, OneEntry',
         NEW s \in Sessions, SendText(s), UNCHANGED <<link, shown>>
  PROVE  OrderInv'
<1>1. PICK T \in Seq(StepsUpTo(n)) : T = todo[s]
  BY DEF TypedUpTo
<1>2. /\ T # <<>> /\ T[1].op = "send" /\ UNCHANGED session
      /\ 1 \in DOMAIN T /\ T[1] \in StepsUpTo(n) /\ Head(T) = T[1]
  BY <1>1 DEF SendText, vars
<1>3. PICK m : m = T[1].msg
  OBVIOUS
<1>4. T[1].to \subseteq Sessions /\ m \in MessagesUpTo(n)
  BY <1>2, <1>3 DEF StepsUpTo
<1>5. PICK x \in T[1].to :
        /\ todo' = [todo EXCEPT ![s] = Send(T[1].to \ {x}, m) \o Tail(T)]
        /\ outbox' = IF session[x] = "open"
                     THEN [outbox EXCEPT ![x] = Append(outbox[x], m)] ELSE outbox
  BY <1>1, <1>2, <1>3 DEF SendText, Continue
<1>6. PICK left : left = Send(T[1].to \ {x}, m) \o Tail(T)
  OBVIOUS
<1>7. /\ todo'[s] = left
      /\ \A t \in Sessions : t # s => todo[t] = <<>> /\ todo'[t] = todo[t]
  <2>1. \A t \in Sessions : t # s => todo[t] = <<>>
    BY <1>1, <1>2 DEF OrderInv, OneThread
  <2>2. QED
    BY <1>5, <1>6, <2>1 DEF TypedUpTo
<1>8. x \in Sessions /\ HandlerInOrder(s)
  BY <1>4, <1>5 DEF OrderInv
<1>9. WayInOrder'
  <2>1. CASE session[x] = "open"
    <3>1. \A r \in RoomIds :
            /\ FitsQueue(outbox[x], m, r)
            /\ \A u \in Usernames :
                 link[u] = x => FitsAfter(shown[u][r], outbox[x], m, r)
      BY <1>1, <1>2, <1>3, <1>5, <1>8, NextFits
    <3>2. QED
      BY <1>4, <1>5, <1>8, <2>1, <3>1, SendingKeepsWay DEF OrderInv
  <2>2. CASE session[x] # "open"
    BY <1>5, <2>2 DEF OrderInv, WayInOrder
  <2>3. QED
    BY <2>1, <2>2
<1>10. ClosedIsEmpty'
  BY <1>2, <1>5, <1>8 DEF OrderInv, ClosedIsEmpty, TypedUpTo
<1>11. \A y \in Sessions : \A k : y # x /\ Below(y, k) => Below(y, k)'
  <2>1. CASE session[x] = "open"
    BY <1>5, <1>8, <2>1, SendingElsewhere
  <2>2. CASE session[x] # "open"
    BY <1>5, <2>2 DEF Below
  <2>3. QED
    BY <2>1, <2>2
<1>12. HandlerInOrder(s)'
  <2>1. CASE Plain(T)
    <3>1. Plain(left)
      BY <1>2, <1>3, <1>6, <2>1, PlainStays
    <3>2. QED
      BY <1>7, <3>1 DEF HandlerInOrder
  <2>2. CASE Broadcasting(s)
    <3>1. /\ todo[s] # <<>> /\ x \in todo[s][1].to
          /\ todo'[s] = Send(todo[s][1].to \ {x}, todo[s][1].msg) \o Tail(todo[s])
          /\ todo' \in [Sessions -> Seq(StepsUpTo(n))]
      BY <1>1, <1>2, <1>3, <1>5, <1>6, <1>7 DEF TypedUpTo
    <3>2. Broadcasting(s)'
      BY <1>8, <1>11, <2>2, <3>1, BroadcastStays
    <3>3. QED
      BY <3>2 DEF HandlerInOrder
  <2>3. CASE BeforeJoined(s)
    <3>1. /\ T[1].to = {s} /\ x = s /\ session[s] = "open" /\ Len(T) >= 2
          /\ T[2].op = "pending" /\ Starts(m, T[2].roomId) /\ Plain(Tail(Tail(T)))
      BY <1>1, <1>3, <1>5, <2>3 DEF BeforeJoined, SendsTo
    <3>2. left = Tail(T) /\ Tail(T) # <<>> /\ Tail(T)[1] = T[2] /\ T[2] \in StepsUpTo(n)
      <4>1. left = Tail(T)
        BY <1>2, <1>3, <1>6, <3>1, StepTaken
      <4>2. /\ Len(T) \in Nat /\ Tail(T) \in Seq(StepsUpTo(n))
            /\ Len(Tail(T)) = Len(T) - 1 /\ Tail(T)[1] = T[2]
            /\ DOMAIN T = 1..Len(T)
        BY <1>2, <3>1
      <4>3. Tail(T) # <<>> /\ 2 \in DOMAIN T
        <5>1. Len(Tail(T)) # 0 /\ 2 \in 1..Len(T)
          BY <3>1, <4>2
        <5>2. Len(<<>>) = 0
          OBVIOUS
        <5>3. Tail(T) # <<>>
          BY <5>1, <5>2
        <5>4. QED
          BY <4>2, <5>1, <5>3
      <4>4. T[2] \in StepsUpTo(n)
        BY <4>3
      <4>5. QED
        BY <4>1, <4>2, <4>3, <4>4
    <3>3. T[2].roomId \in RoomIds
      BY <3>1, <3>2 DEF StepsUpTo
    <3>4. Clear(s, T[2].roomId)'
      BY <1>4, <1>5, <3>1, <3>3, StartClears
    <3>5. BeforeLookUp(s)'
      BY <1>2, <1>7, <3>1, <3>2, <3>4 DEF BeforeLookUp
    <3>6. QED
      BY <3>5 DEF HandlerInOrder
  <2>4. CASE BeforeBuffered(s)
    <3>1. T[1].to = {s} /\ x = s /\ Plain(Tail(T))
      BY <1>1, <1>5, <2>4 DEF BeforeBuffered, SendsTo
    <3>2. left = Tail(T)
      BY <1>2, <1>3, <1>6, <3>1, StepTaken
    <3>3. QED
      BY <1>7, <3>1, <3>2 DEF HandlerInOrder
  <2>5. ~BeforeLookUp(s)
    BY <1>1, <1>2 DEF BeforeLookUp
  <2>6. QED
    BY <1>1, <1>8, <2>1, <2>2, <2>3, <2>4, <2>5 DEF HandlerInOrder
<1>13. \A t \in Sessions : HandlerInOrder(t)'
  <2>1. \A t \in Sessions : t # s => todo'[t] = <<>>
    BY <1>7
  <2>2. QED
    BY <1>12, <2>1, NothingIsPlain DEF HandlerInOrder
<1>14. OneThread' /\ LinksApart'
  <2>1. OneThread'
    BY <1>7 DEF OneThread
  <2>2. QED
    BY <2>1 DEF OrderInv, LinksApart
<1>15. QED
  BY <1>9, <1>10, <1>13, <1>14 DEF OrderInv

(***************************************************************************)
(* A handler looks up the messages buffered for the session that has joined. *)
(***************************************************************************)
LEMMA SendPendingKeepsOrder ==
  ASSUME NEW n, TypedUpTo(n), OrderInv, OneEntry',
         NEW s \in Sessions, SendPending(s), UNCHANGED <<link, shown>>
  PROVE  OrderInv'
<1>1. PICK T \in Seq(StepsUpTo(n)) : T = todo[s]
  BY DEF TypedUpTo
<1>2. /\ T # <<>> /\ T[1].op = "pending" /\ UNCHANGED <<session, outbox>>
      /\ 1 \in DOMAIN T /\ Head(T) = T[1]
  BY <1>1 DEF SendPending, vars
<1>3. PICK pending : pending = PendingMessages(T[1].peerId)
  OBVIOUS
<1>4. PICK m : m = BufferedMessages(T[1].roomId, pending)
  OBVIOUS
<1>5. PICK left : left = (IF pending = {} THEN <<>> ELSE Send({s}, m)) \o Tail(T)
  OBVIOUS
<1>6. todo' = [todo EXCEPT ![s] = left]
  BY <1>1, <1>2, <1>3, <1>4, <1>5 DEF SendPending, Continue
<1>7. /\ todo'[s] = left
      /\ \A t \in Sessions : t # s => todo[t] = <<>> /\ todo'[t] = todo[t]
  <2>1. \A t \in Sessions : t # s => todo[t] = <<>>
    BY <1>1, <1>2 DEF OrderInv, OneThread
  <2>2. QED
    BY <1>6, <2>1 DEF TypedUpTo
<1>8. BeforeLookUp(s)
  <2>1. HandlerInOrder(s)
    BY DEF OrderInv
  <2>2. ~Plain(T) /\ ~Broadcasting(s)
    BY <1>1, <1>2 DEF Plain, Broadcasting
  <2>3. ~BeforeJoined(s) /\ ~BeforeBuffered(s)
    BY <1>1, <1>2 DEF BeforeJoined, BeforeBuffered, SendsTo
  <2>4. QED
    BY <1>1, <2>1, <2>2, <2>3 DEF HandlerInOrder
<1>9. session[s] = "open" /\ Clear(s, T[1].roomId) /\ Plain(Tail(T))
  BY <1>1, <1>8 DEF BeforeLookUp
<1>10. \A r : Clear(s, r) => Clear(s, r)'
  BY <1>2 DEF Clear
<1>11. HandlerInOrder(s)'
  <2>1. Tail(T) \in Seq(StepsUpTo(n))
    BY <1>2
  <2>2. CASE pending = {}
    <3>1. left = Tail(T)
      BY <1>5, <2>1, <2>2
    <3>2. QED
      BY <1>7, <1>9, <3>1 DEF HandlerInOrder
  <2>3. CASE pending # {}
    <3> DEFINE st == [op |-> "send", to |-> {s}, msg |-> m]
    <3>1. left = <<st>> \o Tail(T)
      BY <1>5, <2>3 DEF Send
    <3>2. st.op = "send" /\ st.to = {s} /\ st.msg = m
      OBVIOUS
    <3> HIDE DEF st
    <3>3. left # <<>> /\ left[1] = st /\ Tail(left) = Tail(T)
      BY <2>1, <3>1, FirstAndRest
    <3>4. m.type = "buffered-messages" /\ m.roomId = T[1].roomId
      BY <1>4 DEF BufferedMessages
    <3>5. BeforeBuffered(s)'
      BY <1>2, <1>7, <1>9, <1>10, <3>2, <3>3, <3>4 DEF BeforeBuffered, SendsTo
    <3>6. QED
      BY <3>5 DEF HandlerInOrder
  <2>4. QED
    BY <2>2, <2>3
<1>12. \A t \in Sessions : HandlerInOrder(t)'
  <2>1. \A t \in Sessions : t # s => todo'[t] = <<>>
    BY <1>7
  <2>2. QED
    BY <1>11, <2>1, NothingIsPlain DEF HandlerInOrder
<1>13. WayInOrder'
  BY <1>2 DEF OrderInv, WayInOrder
<1>14. OneThread' /\ LinksApart' /\ ClosedIsEmpty'
  <2>1. OneThread'
    BY <1>7 DEF OneThread
  <2>2. QED
    BY <1>2, <2>1 DEF OrderInv, LinksApart, ClosedIsEmpty
<1>15. QED
  BY <1>12, <1>13, <1>14 DEF OrderInv

-----------------------------------------------------------------------------
(* The server reads a request.                                              *)

(***************************************************************************)
(* All numbers there are come before the next.                              *)
(***************************************************************************)
LEMMA AllBelowNext ==
  ASSUME NEW n \in Nat, TypedUpTo(n), NEW x \in Sessions
  PROVE  Below(x, n + 1)
<1>1. SUFFICES ASSUME NEW r \in RoomIds
               PROVE  /\ \A j \in DOMAIN outbox[x] :
                           \A a \in Numbers(outbox[x][j], r) : a < n + 1
                      /\ \A u \in Usernames : link[u] = x =>
                           \A i \in DOMAIN shown[u][r] : shown[u][r][i] < n + 1
  BY DEF Below
<1>2. ASSUME NEW j \in DOMAIN outbox[x], NEW a \in Numbers(outbox[x][j], r)
      PROVE  a < n + 1
  <2>1. outbox[x][j] \in MessagesUpTo(n)
    BY DEF TypedUpTo
  <2>2. a \in 1..n
    BY <2>1, NumbersMean
  <2>3. QED
    BY <2>2
<1>3. ASSUME NEW u \in Usernames, NEW i \in DOMAIN shown[u][r]
      PROVE  shown[u][r][i] < n + 1
  <2>1. shown[u][r] \in Seq(1..n)
    BY DEF TypedUpTo
  <2>2. shown[u][r][i] \in 1..n
    BY <2>1
  <2>3. QED
    BY <2>2
<1>4. QED
  BY <1>2, <1>3

(***************************************************************************)
(* A broadcast does not go to the sender, which is in the room once.        *)
(***************************************************************************)
LEMMA SenderIsNoPeer ==
  ASSUME RegistryInv, OneEntry, NEW c \in clients
  PROVE  c.session \notin OnlinePeers(c.roomId, c.peerId)
<1>1. SUFFICES ASSUME NEW q \in FindMembersByRoom(db, c.roomId) \ {c.peerId},
                      Online(q), connections[q] = c.session
               PROVE  FALSE
  BY DEF OnlinePeers
<1>2. PICK d \in clients : d.peerId = q /\ d.session = c.session
  BY <1>1 DEF Online, RegistryInv, ConnectionsMatchClients
<1>3. d.roomId = c.roomId
  BY <1>2 DEF FindMembersByRoom, RegistryInv, ClientsAreMembers
<1>4. QED
  BY <1>2, <1>3 DEF OneEntry

(***************************************************************************)
(* What is sent without a number is plain, and plain steps may follow.      *)
(***************************************************************************)
LEMMA SendIsPlain ==
  ASSUME NEW to, NEW m, \A r \in RoomIds : Numbers(m, r) = {}
  PROVE  Plain(Send(to, m))
<1>1. CASE to = {}
  BY <1>1, NothingIsPlain DEF Send
<1>2. CASE to # {}
  <2> DEFINE st == [op |-> "send", to |-> to, msg |-> m]
  <2>1. Send(to, m) = <<st>> /\ st.op = "send" /\ st.msg = m
    BY <1>2 DEF Send
  <2> HIDE DEF st
  <2>2. DOMAIN <<st>> = {1} /\ <<st>>[1] = st
    OBVIOUS
  <2>3. QED
    BY <2>1, <2>2 DEF Plain
<1>3. QED
  BY <1>1, <1>2

\* Two queues with nothing numbered have nothing together.
LEMMA PlainThenPlain ==
  ASSUME NEW S, NEW a \in Seq(S), NEW b \in Seq(S), Plain(a), Plain(b)
  PROVE  Plain(a \o b)
<1>1. /\ a \o b \in Seq(S) /\ Len(a) \in Nat /\ Len(b) \in Nat
      /\ DOMAIN (a \o b) = 1..(Len(a) + Len(b))
      /\ DOMAIN a = 1..Len(a) /\ DOMAIN b = 1..Len(b)
  OBVIOUS
<1>2. \A i \in DOMAIN (a \o b) :
        \/ i \in DOMAIN a /\ (a \o b)[i] = a[i]
        \/ i - Len(a) \in DOMAIN b /\ (a \o b)[i] = b[i - Len(a)]
  BY <1>1
<1>3. QED
  BY <1>2 DEF Plain

(***************************************************************************)
(* A join to a group room goes on to look up what is buffered.              *)
(***************************************************************************)
LEMMA TwoAndRest ==
  ASSUME NEW S, NEW e \in S, NEW f \in S, NEW b \in Seq(S),
         NEW all, all = <<e>> \o <<f>> \o b
  PROVE  Len(all) >= 2 /\ all[1] = e /\ all[2] = f /\ Tail(Tail(all)) = b
<1>1. <<e>> \in Seq(S) /\ <<f>> \in Seq(S)
  OBVIOUS
<1>2. PICK g : g = <<f>> \o b
  OBVIOUS
<1>3. all = <<e>> \o g
  BY <1>1, <1>2, ConcatAssociative
<1>4. g # <<>> /\ g[1] = f /\ Tail(g) = b
  BY <1>2, FirstAndRest
<1>5. g \in Seq(S)
  BY <1>1, <1>2, ConcatProperties
<1>6. all # <<>> /\ all[1] = e /\ Tail(all) = g
  BY <1>3, <1>5, FirstAndRest
<1>7. Len(all) = Len(g) + 1 /\ \A i \in 1..Len(g) : all[i + 1] = g[i]
  BY <1>3, <1>5, Prepended
<1>8. Len(g) \in Nat /\ Len(g) >= 1
  BY <1>4, <1>5
<1>9. 1 \in 1..Len(g) /\ 1 + 1 = 2
  BY <1>8
<1>10. all[2] = f
  BY <1>4, <1>7, <1>9
<1>11. QED
  BY <1>4, <1>6, <1>7, <1>8, <1>10

(***************************************************************************)
(* One after the other.                                                     *)
(***************************************************************************)
LEMMA TwoInOrder ==
  ASSUME NEW e, NEW f
  PROVE  \A i \in DOMAIN (<<e>> \o <<f>>) :
           \/ i = 1 /\ (<<e>> \o <<f>>)[i] = e
           \/ i = 2 /\ (<<e>> \o <<f>>)[i] = f
<1>1. PICK w : w = <<f>>
  OBVIOUS
<1>2. w \in Seq({e, f}) /\ e \in {e, f}
  BY <1>1
<1>3. Len(w) = 1 /\ w[1] = f
  BY <1>1
<1>4. PICK all : all = <<e>> \o w
  OBVIOUS
<1>5. /\ DOMAIN (<<e>> \o w) = 1..(Len(w) + 1)
      /\ (<<e>> \o w)[1] = e
      /\ \A i \in 1..Len(w) : (<<e>> \o w)[i + 1] = w[i]
  BY <1>2, Prepended
<1>6. /\ Len(w) + 1 = 2 /\ 1 \in 1..Len(w) /\ 1 + 1 = 2
      /\ \A i \in 1..2 : i = 1 \/ i = 2
  BY <1>3
<1>7. DOMAIN all = 1..2 /\ all[1] = e /\ all[1 + 1] = w[1]
  BY <1>4, <1>5, <1>6
<1>8. ASSUME NEW i \in DOMAIN all
      PROVE  (i = 1 /\ all[i] = e) \/ (i = 2 /\ all[i] = f)
  <2>1. i = 1 \/ i = 2
    BY <1>6, <1>7
  <2>2. all[1] = e /\ all[2] = f
    BY <1>3, <1>6, <1>7
  <2>3. QED
    BY <2>1, <2>2
<1>9. QED
  BY <1>1, <1>4, <1>8

(***************************************************************************)
(* And both of them.                                                        *)
(***************************************************************************)
LEMMA TwoAreThere ==
  ASSUME NEW e, NEW f, NEW all, all = <<e>> \o <<f>>
  PROVE  /\ 1 \in DOMAIN all /\ all[1] = e
         /\ 2 \in DOMAIN all /\ all[2] = f
<1>1. PICK w : w = <<f>>
  OBVIOUS
<1>2. w \in Seq({e, f}) /\ e \in {e, f}
  BY <1>1
<1>3. Len(w) = 1 /\ w[1] = f
  BY <1>1
<1>4. /\ DOMAIN (<<e>> \o w) = 1..(Len(w) + 1)
      /\ (<<e>> \o w)[1] = e
      /\ \A i \in 1..Len(w) : (<<e>> \o w)[i + 1] = w[i]
  BY <1>2, Prepended
<1>5. all = <<e>> \o w
  BY <1>1
<1>6. 1 \in 1..(Len(w) + 1) /\ 2 \in 1..(Len(w) + 1) /\ 1 \in 1..Len(w) /\ 1 + 1 = 2
  BY <1>3
<1>7. all[1 + 1] = w[1]
  BY <1>4, <1>5, <1>6
<1>8. QED
  BY <1>3, <1>4, <1>5, <1>6, <1>7

\* The steps send m to each of the sets tos, and to nobody twice.
SendOnce(steps, m, tos) ==
  /\ \A i \in DOMAIN steps :
       /\ steps[i].op = "send" /\ steps[i].msg = m
       /\ steps[i].to \in tos
  /\ \A i, j \in DOMAIN steps : i # j => steps[i].to \cap steps[j].to = {}
  /\ \A t \in tos : t # {} => \E i \in DOMAIN steps : steps[i].to = t

(***************************************************************************)
(* A group message goes to its sender and then to others.                   *)
(***************************************************************************)
LEMMA TwoSends ==
  ASSUME NEW s, NEW to, s \notin to, NEW m,
         NEW all, all = Send({s}, m) \o Send(to, m)
  PROVE  SendOnce(all, m, {{s}, to})
<1> DEFINE st == [op |-> "send", to |-> {s}, msg |-> m]
           su == [op |-> "send", to |-> to, msg |-> m]
<1>1. /\ st.op = "send" /\ st.to = {s} /\ st.msg = m
      /\ su.op = "send" /\ su.to = to /\ su.msg = m
  OBVIOUS
<1>2. Send({s}, m) = <<st>> /\ Send(to, m) = IF to = {} THEN <<>> ELSE <<su>>
  BY DEF Send
<1> HIDE DEF st, su
<1>3. CASE to = {}
  <2>1. all = <<st>>
    BY <1>2, <1>3
  <2>2. \A i \in DOMAIN all : i = 1 /\ all[i] = st
    <3>1. \A i \in DOMAIN <<st>> : i = 1 /\ <<st>>[i] = st
      OBVIOUS
    <3>2. QED
      BY <2>1, <3>1, Zenon
  <2>3. \A i \in DOMAIN all :
          all[i].op = "send" /\ all[i].msg = m /\ all[i].to \in {{s}, to}
    BY <1>1, <2>2
  <2>4. \A i, j \in DOMAIN all : i # j => all[i].to \cap all[j].to = {}
    BY <2>2
  <2>5. 1 \in DOMAIN all /\ all[1] = st
    <3>1. 1 \in DOMAIN <<st>> /\ <<st>>[1] = st
      OBVIOUS
    <3>2. QED
      BY <2>1, <3>1, Zenon
  <2>6. \A t \in {{s}, to} : t # {} => \E i \in DOMAIN all : all[i].to = t
    BY <1>1, <1>3, <2>5
  <2>7. QED
    BY <2>3, <2>4, <2>6 DEF SendOnce
<1>4. CASE to # {}
  <2>1. all = <<st>> \o <<su>>
    BY <1>2, <1>4
  <2>2. \A i \in DOMAIN all : (i = 1 /\ all[i] = st) \/ (i = 2 /\ all[i] = su)
    BY <2>1, TwoInOrder, Zenon
  <2>3. \A i \in DOMAIN all :
          all[i].op = "send" /\ all[i].msg = m /\ all[i].to \in {{s}, to}
    BY <1>1, <2>2
  <2>4. \A i, j \in DOMAIN all : i # j => all[i].to \cap all[j].to = {}
    <3>1. \A i \in DOMAIN all :
            (i = 1 /\ all[i].to = {s}) \/ (i = 2 /\ all[i].to = to)
      BY <1>1, <2>2
    <3>2. {s} \cap to = {} /\ to \cap {s} = {}
      OBVIOUS
    <3>3. QED
      BY <3>1, <3>2
  <2>5. /\ 1 \in DOMAIN all /\ all[1] = st
        /\ 2 \in DOMAIN all /\ all[2] = su
    BY <2>1, TwoAreThere
  <2>6. all[1].to = {s} /\ all[2].to = to
    BY <1>1, <2>5
  <2>7. \A t \in {{s}, to} : \E i \in DOMAIN all : all[i].to = t
    BY <2>5, <2>6
  <2>8. QED
    BY <2>3, <2>4, <2>7 DEF SendOnce
<1>5. QED
  BY <1>3, <1>4

(***************************************************************************)
(* A join leaves "joined" to be sent, then what is buffered to be looked up  *)
(* in a group room, then "peer-joined".                                     *)
(***************************************************************************)
LEMMA JoinInOrder ==
  ASSUME NEW n \in Nat, RegistryInv', TypedUpTo(n), TypedUpTo(n)',
         NEW s \in Sessions, session[s] = "open", UNCHANGED session,
         todo'[s] \in Seq(StepsUpTo(n)), NEW req, HandleJoin(s, req)
  PROVE  \/ Plain(todo'[s]) /\ clients' \subseteq clients
         \/ \E c \in clients' \ clients :
              \/ Plain(todo'[s]) /\ c.roomType # "group"
              \/ BeforeJoined(s)' /\ LookUp(req.roomId, c.peerId) = <<todo'[s][2]>>
<1> DEFINE r == req.roomId
           S == StepsUpTo(n)
<1>1. CASE Continue(s, Send({s}, Error)) /\ UNCHANGED clients
  <2>1. \A x \in RoomIds : Numbers(Error, x) = {}
    BY DEF Numbers, Error
  <2>2. todo'[s] = Send({s}, Error)
    BY <1>1 DEF Continue, TypedUpTo
  <2>3. QED
    BY <1>1, <2>1, <2>2, SendIsPlain
<1>2. ASSUME NEW c \in clients' \ clients, NEW ps,
             Continue(s, Send({s}, Joined(r, c.roomType, c.peerId, ps))
                         \o (IF c.roomType = "group" THEN LookUp(r, c.peerId) ELSE <<>>)
                         \o Send(OnlinePeers(r, c.peerId), PeerJoined(r, c.peerId)))
      PROVE  \/ Plain(todo'[s]) /\ c.roomType # "group"
             \/ BeforeJoined(s)' /\ LookUp(r, c.peerId) = <<todo'[s][2]>>
  <2> DEFINE e == [op |-> "send", to |-> {s}, msg |-> Joined(r, c.roomType, c.peerId, ps)]
             f == [op |-> "pending", roomId |-> r, peerId |-> c.peerId]
  <2>1. PICK b : b = Send(OnlinePeers(r, c.peerId), PeerJoined(r, c.peerId))
    OBVIOUS
  <2>2. /\ e.op = "send" /\ e.to = {s} /\ Starts(e.msg, r)
        /\ \A x \in RoomIds : Numbers(e.msg, x) = {}
        /\ f.op = "pending" /\ f.roomId = r
    BY DEF Joined, Starts, Numbers
  <2>3. Send({s}, Joined(r, c.roomType, c.peerId, ps)) = <<e>> /\ LookUp(r, c.peerId) = <<f>>
    BY DEF Send, LookUp
  <2> HIDE DEF e, f
  <2>4. todo'[s] = <<e>> \o (IF c.roomType = "group" THEN <<f>> ELSE <<>>) \o b
    BY <1>2, <2>1, <2>3 DEF Continue, TypedUpTo
  <2>5. Plain(b)
    <3>1. \A x \in RoomIds : Numbers(PeerJoined(r, c.peerId), x) = {}
      BY DEF Numbers, PeerJoined
    <3>2. QED
      BY <2>1, <3>1, SendIsPlain
  <2>6. PICK U : e \in U /\ f \in U /\ b \in Seq(U)
    <3>1. CASE OnlinePeers(r, c.peerId) = {}
      <4>1. b = <<>>
        BY <2>1, <3>1 DEF Send
      <4>2. b \in Seq({e, f})
        BY <4>1
      <4>3. QED
        BY <4>2
    <3>2. CASE OnlinePeers(r, c.peerId) # {}
      <4>1. PICK g : b = <<g>>
        BY <2>1, <3>2 DEF Send
      <4>2. b \in Seq({e, f, g})
        BY <4>1
      <4>3. QED
        BY <4>2
    <3>3. QED
      BY <3>1, <3>2
  <2>7. CASE c.roomType = "group"
    <3>1. todo'[s] = <<e>> \o <<f>> \o b
      BY <2>4, <2>7
    <3>2. /\ Len(todo'[s]) >= 2 /\ todo'[s][1] = e /\ todo'[s][2] = f
          /\ Tail(Tail(todo'[s])) = b
      BY <2>6, <3>1, TwoAndRest
    <3>3. BeforeJoined(s)'
      BY <2>2, <2>5, <3>2 DEF BeforeJoined, SendsTo
    <3>4. QED
      BY <2>3, <3>2, <3>3
  <2>8. CASE c.roomType # "group"
    <3>1. todo'[s] = <<e>> \o <<>> \o b
      BY <2>4, <2>8
    <3>2. <<e>> \o <<>> = <<e>> /\ <<e>> \in Seq(U)
      <4>1. <<e>> \in Seq(U)
        BY <2>6
      <4>2. QED
        BY <4>1, ConcatEmptySeq
    <3>3. Plain(<<e>>)
      <4>1. \A i \in DOMAIN <<e>> : <<e>>[i] = e
        OBVIOUS
      <4>2. QED
        BY <2>2, <4>1 DEF Plain
    <3>4. Plain(<<e>> \o b)
      BY <2>5, <2>6, <3>2, <3>3, PlainThenPlain
    <3>5. QED
      BY <2>8, <3>1, <3>2, <3>4
  <2>9. QED
    BY <2>7, <2>8
<1>3. CASE (\E c \in clients' \ clients : \E ps :
             Continue(s, Send({s}, Joined(r, c.roomType, c.peerId, ps))
                         \o (IF c.roomType = "group" THEN LookUp(r, c.peerId) ELSE <<>>)
                         \o Send(OnlinePeers(r, c.peerId), PeerJoined(r, c.peerId))))
  BY <1>2, <1>3, Zenon
<1>4. QED
  BY <1>1, <1>3 DEF HandleJoin, Refuse, JoinRefused, registryVars

(***************************************************************************)
(* A group message is newer than all that has been sent, and goes to each of *)
(* its recipients once.                                                     *)
(***************************************************************************)
LEMMA GroupMessageInOrder ==
  ASSUME NEW n \in Nat, n = db.nextSeq, RegistryInv, OneEntry, TypedUpTo(n),
         NEW s \in Sessions, UNCHANGED <<outbox, link, shown>>,
         NEW req, HandleGroupMessage(s, req)
  PROVE  Plain(todo'[s]) \/ Broadcasting(s)'
<1>1. CASE Refuse(s)
  <2>1. \A x \in RoomIds : Numbers(Error, x) = {}
    BY DEF Numbers, Error
  <2>2. todo'[s] = Send({s}, Error)
    BY <1>1 DEF Refuse, Continue, TypedUpTo
  <2>3. QED
    BY <2>1, <2>2, SendIsPlain
<1>2. ASSUME NEW c \in clients, c.session = s, NEW m,
             m = GroupMessage(c.roomId, c.peerId, db'.nextSeq), Broadcast(c),
             Continue(s, Send({s}, m) \o Send(OnlinePeers(c.roomId, c.peerId), m))
      PROVE  Plain(todo'[s]) \/ Broadcasting(s)'
  <2>1. PICK to : to = OnlinePeers(c.roomId, c.peerId)
    OBVIOUS
  <2>2. s \notin to /\ to \subseteq Sessions
    BY <1>2, <2>1, SenderIsNoPeer, DeliveriesGoToSessions DEF RegistryInv
  <2>3. PICK all : all = Send({s}, m) \o Send(to, m)
    OBVIOUS
  <2>4. todo'[s] = all
    BY <1>2, <2>1, <2>3 DEF Continue, TypedUpTo
  <2>5. /\ \A i \in DOMAIN all :
             all[i].op = "send" /\ all[i].msg = m /\ all[i].to \in {{s}, to}
        /\ \A i, j \in DOMAIN all : i # j => all[i].to \cap all[j].to = {}
    <3>1. SendOnce(all, m, {{s}, to})
      BY <2>2, <2>3, TwoSends
    <3>2. QED
      BY <3>1 DEF SendOnce
  <2>6. m.type = "group-message" /\ m.messageSeq = n + 1
    BY <1>2 DEF GroupMessage, Broadcast, SaveGroupMessage
  <2>7. \A y \in Sessions : Below(y, m.messageSeq)'
    <3>1. \A y \in Sessions : Below(y, n + 1)
      BY AllBelowNext
    <3>2. QED
      BY <2>6, <3>1 DEF Below
  <2>8. \A i \in DOMAIN all : \A y \in all[i].to : Below(y, all[i].msg.messageSeq)'
    BY <2>2, <2>5, <2>7
  <2>9. Broadcasting(s)'
    BY <2>4, <2>5, <2>6, <2>8 DEF Broadcasting
  <2>10. QED
    BY <2>9
<1>3. QED
  BY <1>1, <1>2 DEF HandleGroupMessage, Found, ClientsOf

(***************************************************************************)
(* The other requests are answered without numbers.                         *)
(***************************************************************************)
LEMMA RepliesArePlain ==
  ASSUME NEW n, TypedUpTo(n), NEW s \in Sessions, NEW req,
         HandleLeave(s, req) \/ HandleAck(s, req)
  PROVE  Plain(todo'[s])
<1>1. /\ \A x \in RoomIds : Numbers(Error, x) = {}
      /\ \A p, x, y : Numbers(PeerLeft(y, p), x) = {}
      /\ \A k, x, y : Numbers(AckConfirm(y, k), x) = {}
  BY DEF Numbers, Error, PeerLeft, AckConfirm
<1>2. PICK to, m : /\ Continue(s, Send(to, m))
                   /\ \A x \in RoomIds : Numbers(m, x) = {}
  BY <1>1 DEF HandleLeave, HandleAck, Refuse
<1>3. todo'[s] = Send(to, m)
  BY <1>2 DEF Continue, TypedUpTo
<1>4. QED
  BY <1>2, <1>3, SendIsPlain

(***************************************************************************)
(* With one thread a request is read when nothing else is left to do.       *)
(***************************************************************************)
LEMMA ReadKeepsOrder ==
  ASSUME Workers = 1, NEW n \in Nat, n = db.nextSeq, RegistryInv, RegistryInv',
         NEW k \in Nat, TypedUpTo(n), TypedUpTo(k), TypedUpTo(k)', OrderInv, OneEntry',
         NEW s \in Sessions, OnRead(s), UNCHANGED <<link, shown>>
  PROVE  OrderInv'
<1>1. /\ Idle /\ session[s] = "open" /\ UNCHANGED <<session, outbox>>
      /\ todo'[s] \in Seq(StepsUpTo(k))
  BY DEF OnRead, Runs, TypedUpTo
<1>2. \A t \in Sessions : todo[t] = <<>>
  BY <1>1, IdleMeansDone DEF OrderInv
<1>3. PICK req : \/ HandleJoin(s, req)
                 \/ HandleLeave(s, req)
                 \/ HandleGroupMessage(s, req)
                 \/ HandleAck(s, req)
  BY DEF OnRead
<1>4. PICK steps : Continue(s, steps)
  BY <1>3, Zenon DEF HandleJoin, HandleLeave, HandleGroupMessage, HandleAck, Refuse
<1>5. OneThread' /\ \A t \in Sessions : t # s => todo'[t] = <<>>
  BY <1>2, <1>4, OneBegins
<1>6. HandlerInOrder(s)'
  <2>1. Plain(todo'[s]) \/ BeforeJoined(s)' \/ Broadcasting(s)'
    BY <1>1, <1>3, JoinInOrder, GroupMessageInOrder, RepliesArePlain, Zenon DEF OrderInv
  <2>2. QED
    BY <2>1 DEF HandlerInOrder
<1>7. \A t \in Sessions : HandlerInOrder(t)'
  BY <1>5, <1>6, NothingIsPlain DEF HandlerInOrder
<1>8. WayInOrder' /\ LinksApart' /\ ClosedIsEmpty'
  BY <1>1 DEF OrderInv, WayInOrder, LinksApart, ClosedIsEmpty
<1>9. QED
  BY <1>5, <1>7, <1>8 DEF OrderInv

(***************************************************************************)
(* The end of a session is told without numbers.                            *)
(***************************************************************************)
LEMMA FarewellsArePlain ==
  ASSUME NEW s, NEW farewells \in Farewells(s)
  PROVE  Plain(farewells)
<1>1. \A p, x, y : Numbers(PeerLeft(y, p), x) = {}
  BY DEF Numbers, PeerLeft
<1>2. \A i \in DOMAIN farewells :
        /\ farewells[i].op = "send"
        /\ \E y, p : farewells[i].msg = PeerLeft(y, p)
  <2>1. PICK order :
          farewells = [i \in DOMAIN order |->
            [op  |-> "send",
             to  |-> OnlinePeers(order[i].roomId, order[i].peerId),
             msg |-> PeerLeft(order[i].roomId, order[i].peerId)]]
    BY DEF Farewells
  <2>2. \A i \in DOMAIN farewells :
          /\ farewells[i].op = "send"
          /\ farewells[i].msg = PeerLeft(order[i].roomId, order[i].peerId)
    BY <2>1
  <2>3. QED
    BY <2>2
<1>3. QED
  BY <1>1, <1>2 DEF Plain

(***************************************************************************)
(* The end of a session leaves the others in order, and its queue is lost. *)
(***************************************************************************)
LEMMA ExpireKeepsOrder ==
  ASSUME Workers = 1, NEW n, TypedUpTo(n), OrderInv, OneEntry',
         NEW s \in Sessions, Expire(s)
  PROVE  OrderInv'
<1>1. /\ Idle /\ UNCHANGED <<link, shown>>
      /\ session' = [session EXCEPT ![s] = "absent"]
      /\ outbox' = [outbox EXCEPT ![s] = <<>>]
  BY DEF Expire, Cleanup, Runs, Close, clientVars
<1>2. PICK farewells \in Farewells(s) : Continue(s, farewells)
  BY DEF Expire, Cleanup
<1>3. \A t \in Sessions : todo[t] = <<>>
  BY <1>1, IdleMeansDone DEF OrderInv
<1>4. /\ OneThread' /\ todo'[s] = farewells
      /\ \A t \in Sessions : t # s => todo'[t] = <<>>
  BY <1>2, <1>3, OneBegins
<1>5. Plain(farewells)
  BY FarewellsArePlain
<1>6. \A t \in Sessions : HandlerInOrder(t)'
  BY <1>4, <1>5, NothingIsPlain DEF HandlerInOrder
<1>7. /\ outbox'[s] = <<>>
      /\ \A t \in Sessions : t # s => outbox'[t] = outbox[t]
  BY <1>1 DEF TypedUpTo
<1>8. WayInOrder'
  <2>1. /\ \A r : QueueInOrder(<<>>, r)
        /\ \A g, r : ThenQueue(g, <<>>, r)
    BY DEF QueueInOrder, ThenQueue
  <2>2. \A t \in Sessions, r \in RoomIds : QueueInOrder(outbox'[t], r)
    BY <1>7, <2>1 DEF OrderInv, WayInOrder
  <2>3. ASSUME NEW u \in Usernames, NEW r \in RoomIds
        PROVE  /\ Ascends(shown'[u][r])
               /\ link'[u] # NoLink => ThenQueue(shown'[u][r], outbox'[link'[u]], r)
    <3>1. /\ Ascends(shown[u][r]) /\ link[u] \in Sessions \cup {NoLink}
          /\ link[u] # NoLink => ThenQueue(shown[u][r], outbox[link[u]], r)
      BY DEF OrderInv, WayInOrder, TypedUpTo
    <3>2. QED
      BY <1>1, <1>7, <2>1, <3>1
  <2>4. QED
    BY <2>2, <2>3 DEF WayInOrder
<1>9. ClosedIsEmpty' /\ LinksApart'
  <2>1. \A t \in Sessions : t # s => session'[t] = session[t]
    BY <1>1
  <2>2. ClosedIsEmpty'
    BY <1>7, <2>1 DEF OrderInv, ClosedIsEmpty
  <2>3. QED
    BY <1>1, <2>2 DEF OrderInv, LinksApart
<1>10. QED
  BY <1>4, <1>6, <1>8, <1>9 DEF OrderInv

-----------------------------------------------------------------------------
(* The theorem.                                                            *)

(***************************************************************************)
(* There is nothing on its way at the start.                                *)
(***************************************************************************)
LEMMA InitOrderInv == ChatInit => OrderInv
<1> SUFFICES ASSUME ChatInit PROVE OrderInv
  OBVIOUS
<1>1. \A s \in Sessions : todo[s] = <<>> /\ outbox[s] = <<>>
  BY DEF ChatInit, HandlerInit
<1>2. /\ clients = {} /\ \A u \in Usernames : link[u] = NoLink
      /\ \A u \in Usernames, r \in RoomIds : shown[u][r] = <<>>
  BY DEF ChatInit, HandlerInit, Init
<1>3. WayInOrder
  <2>1. /\ \A r : QueueInOrder(<<>>, r)
        /\ Ascends(<<>>)
    BY DEF QueueInOrder, Ascends
  <2>2. QED
    BY <1>1, <1>2, <2>1 DEF WayInOrder
<1>4. \A s \in Sessions : HandlerInOrder(s)
  BY <1>1, NothingIsPlain DEF HandlerInOrder
<1>5. OneThread /\ LinksApart /\ ClosedIsEmpty /\ OneEntry
  BY <1>1, <1>2 DEF OneThread, LinksApart, ClosedIsEmpty, OneEntry
<1>6. QED
  BY <1>3, <1>4, <1>5 DEF OrderInv

(***************************************************************************)
(* OrderInv is inductive with the types and the registry's invariant.       *)
(***************************************************************************)
LEMMA NextOrderInv ==
  ASSUME Workers = 1, ChatInv, ChatInv', OrderInv, [ChatNext]_chatVars
  PROVE  OrderInv'
<1>1. [Next]_vars
  BY ChatStepsAreRegistrySteps DEF ChatInv
<1>2. OneEntry'
  BY <1>1, EntriesStaySingle DEF OrderInv
<1>3. PICK n \in Nat : n = db.nextSeq
  BY <1>1, NumbersOnlyGrow DEF ChatInv
<1>4. PICK k \in Nat : k = db'.nextSeq /\ n <= k
  BY <1>1, <1>3, NumbersOnlyGrow DEF ChatInv
<1>5. RegistryInv /\ RegistryInv' /\ TypedUpTo(n)
  BY <1>3, ChatTypesMean DEF ChatInv
<1>6. TypedUpTo(k)
  BY <1>3, <1>4, <1>5, TypesGrow
<1>7. TypedUpTo(k)'
  BY <1>4 DEF ChatInv, ChatTypeOK, HandlerTypeOK, TypedUpTo, SentSeqs
<1>8. CASE UNCHANGED chatVars
  BY <1>8, ApplicationKeepsOrder DEF chatVars, handlerVars, clientVars
<1>9. ASSUME NEW u \in Usernames, NEW r \in RoomIds,
             JoinChat(u, r) \/ LeaveChat(u, r) \/ Post(u, r)
      PROVE  OrderInv'
  BY <1>9, ApplicationKeepsOrder DEF JoinChat, LeaveChat, Post, clientVars
<1>10. ASSUME NEW u \in Usernames, NEW s \in Sessions, OnConnected(u, s)
       PROVE  OrderInv'
  BY <1>2, <1>6, <1>10, ConnectKeepsOrder
<1>11. ASSUME NEW u \in Usernames, OnDisconnected(u) \/ OnMessage(u)
       PROVE  OrderInv'
  BY <1>2, <1>6, <1>11, DisconnectedKeepsOrder, OnMessageKeepsOrder
<1>12. ASSUME NEW s \in Sessions, Handler(s)
       PROVE  OrderInv'
  <2>1. CASE OnRead(s)
    <3>1. UNCHANGED <<link, shown>>
      BY <1>12, <2>1 DEF Handler, clientVars
    <3>2. QED
      BY <1>2, <1>3, <1>5, <1>6, <1>7, <2>1, <3>1, ReadKeepsOrder
  <2>2. CASE SendText(s) \/ SendPending(s)
    <3>1. UNCHANGED <<link, shown>>
      BY <1>12, <2>2 DEF Handler, clientVars
    <3>2. QED
      BY <1>2, <1>6, <1>7, <2>2, <3>1, SendTextKeepsOrder, SendPendingKeepsOrder
  <2>3. QED
    BY <1>12, <2>1, <2>2 DEF Handler
<1>13. ASSUME NEW s \in Sessions, Expire(s)
       PROVE  OrderInv'
  BY <1>2, <1>6, <1>13, ExpireKeepsOrder
<1>14. QED
  BY <1>8, <1>9, <1>10, <1>11, <1>12, <1>13 DEF ChatNext

(***************************************************************************)
(* With one worker thread, the default of main.cpp, a client is shown the    *)
(* messages of a room in the order of their numbers and none twice between   *)
(* two times it joins it, however many clients, rooms and sessions there are. *)
(***************************************************************************)
THEOREM ShownInOrderWithOneThread ==
  ASSUME Workers = 1
  PROVE  ChatSpec => []ShownInOrder
<1>1. OrderInv => ShownInOrder
  BY DEF OrderInv, WayInOrder, Ascends, ShownInOrder
<1>2. ChatInv /\ OrderInv /\ [ChatNext]_chatVars => (ChatInv /\ OrderInv)'
  BY NextChatInv, NextOrderInv
<1>3. QED
  BY <1>1, <1>2, InitChatInv, InitOrderInv, PTL DEF ChatSpec

-----------------------------------------------------------------------------
(* The invariant of delivery.                                              *)

\* The messages of room r that u was to see and has not.
Missed(u, r) == {x[3] : x \in {y \in unseen : y[1] = u /\ y[2] = r}}

\* Session s is that of user u: the client of u is at its other end, it is in a
\* room as u, or a join of u is still to be read from it.
Owns(u, s) ==
  \/ link[u] = s
  \/ \E c \in clients : c.session = s /\ c.username = u
  \/ \E i \in DOMAIN requests[s] :
       requests[s][i].type = "join" /\ requests[s][i].username = u

OneOwner ==
  \A s \in Sessions : \A u, v \in Usernames : Owns(u, s) /\ Owns(v, s) => u = v

\* Number k of room r is on its way to x.
OnItsWay(x, r, k) == \E i \in DOMAIN outbox[x] : k \in Numbers(outbox[x][i], r)

\* A handler is about to send it to x.
ToBeSent(x, r, k) ==
  \E s \in Sessions : \E i \in DOMAIN todo[s] :
    /\ todo[s][i].op = "send" /\ x \in todo[s][i].to
    /\ k \in Numbers(todo[s][i].msg, r)

\* The handler of x is about to look up what is buffered for p.
ToBeLookedUp(x, r, p) ==
  \E i \in DOMAIN todo[x] :
    todo[x][i].op = "pending" /\ todo[x][i].roomId = r /\ todo[x][i].peerId = p

\* A member of that name owes what is not seen.
UnseenIsOwed ==
  \A u \in Usernames, r \in RoomIds : \A k \in Missed(u, r) :
    \E p \in Namesakes(r, u) : k \in owed[p]

\* No acknowledgement that is still to be read passes over it,
AcksSpareUnseen ==
  \A u \in Usernames, s \in Sessions : Owns(u, s) =>
    \A r \in RoomIds, i \in DOMAIN requests[s] :
      requests[s][i].type = "ack" /\ requests[s][i].roomId = r =>
        \A k \in Missed(u, r) : requests[s][i].upToSeq < k

\* no later message is on its way before it,
WaySparesUnseen ==
  \A u \in Usernames : link[u] # NoLink =>
    \A r \in RoomIds, j \in DOMAIN outbox[link[u]] :
      \A a \in Numbers(outbox[link[u]][j], r), k \in Missed(u, r) :
        k < a => \E i \in DOMAIN outbox[link[u]] :
                   i <= j /\ k \in Numbers(outbox[link[u]][i], r)

\* and none is about to be sent.
StepsSpareUnseen ==
  \A u \in Usernames, s \in Sessions : \A i \in DOMAIN todo[s] :
    todo[s][i].op = "send" /\ link[u] \in todo[s][i].to =>
      \A r \in RoomIds :
        \A a \in Numbers(todo[s][i].msg, r), k \in Missed(u, r) :
          k < a => k \in Numbers(todo[s][i].msg, r) \/ OnItsWay(link[u], r, k)

\* What is looked up is for the member that the session has joined as.
LookUpsAreOwn ==
  \A s \in Sessions : \A i \in DOMAIN todo[s] : todo[s][i].op = "pending" =>
    \E c \in clients : /\ c.session = s /\ c.roomId = todo[s][i].roomId
                       /\ c.peerId = todo[s][i].peerId

\* What a client in its room has not seen will reach it.
UnseenArrives ==
  \A c \in clients : link[c.username] = c.session =>
    \A k \in Missed(c.username, c.roomId) :
      \/ OnItsWay(c.session, c.roomId, k)
      \/ ToBeSent(c.session, c.roomId, k)
      \/ ToBeLookedUp(c.session, c.roomId, c.peerId)

UnseenInv ==
  /\ OneOwner /\ UnseenIsOwed /\ AcksSpareUnseen
  /\ WaySparesUnseen /\ StepsSpareUnseen
  /\ LookUpsAreOwn /\ UnseenArrives

-----------------------------------------------------------------------------
(* Requests.                                                               *)

(***************************************************************************)
(* What is missed are numbers handed out.                                   *)
(***************************************************************************)
LEMMA MissedMeans ==
  ASSUME NEW n, TypedUpTo(n)
  PROVE  \A u, r, k : /\ k \in Missed(u, r) <=> <<u, r, k>> \in unseen
                      /\ k \in Missed(u, r) => k \in 1..n
<1>1. unseen \subseteq Usernames \X RoomIds \X (1..n)
  BY DEF TypedUpTo
<1>2. \A x \in unseen : x = <<x[1], x[2], x[3]>> /\ x[3] \in 1..n
  BY <1>1
<1>3. ASSUME NEW u, NEW r, NEW k
      PROVE  /\ k \in Missed(u, r) <=> <<u, r, k>> \in unseen
             /\ k \in Missed(u, r) => k \in 1..n
  <2>1. ASSUME k \in Missed(u, r)
        PROVE  <<u, r, k>> \in unseen /\ k \in 1..n
    <3>1. PICK x \in unseen : x[1] = u /\ x[2] = r /\ x[3] = k
      BY <2>1 DEF Missed
    <3>2. QED
      BY <1>2, <3>1
  <2>2. ASSUME <<u, r, k>> \in unseen
        PROVE  k \in Missed(u, r)
    BY <2>2 DEF Missed
  <2>3. QED
    BY <2>1, <2>2
<1>4. QED
  BY <1>3

(***************************************************************************)
(* A client's requests make no session change hands, and leave what is not   *)
(* seen as it is, if its acknowledgements do.                               *)
(***************************************************************************)
LEMMA RequestSparesUnseen ==
  ASSUME NEW n, TypedUpTo(n), OneOwner, AcksSpareUnseen, UNCHANGED <<clients, link>>,
         \A v \in Usernames, r \in RoomIds : Missed(v, r)' \subseteq Missed(v, r),
         NEW u \in Usernames, NEW reqs \in Seq(RequestsUpTo(n)), Request(u, reqs),
         \A i \in DOMAIN reqs : reqs[i].type = "join" => reqs[i].username = u,
         \A r \in RoomIds, i \in DOMAIN reqs :
           reqs[i].type = "ack" /\ reqs[i].roomId = r =>
             \A k \in Missed(u, r)' : reqs[i].upToSeq < k
  PROVE  OneOwner' /\ AcksSpareUnseen'
<1>1. ASSUME NEW s \in Sessions, NEW i \in DOMAIN requests'[s]
      PROVE  \/ i \in DOMAIN requests[s] /\ requests'[s][i] = requests[s][i]
             \/ s = link[u] /\ \E j \in DOMAIN reqs : requests'[s][i] = reqs[j]
  <2>1. requests[s] \in Seq(RequestsUpTo(n)) /\ DOMAIN requests = Sessions
    BY DEF TypedUpTo
  <2>2. CASE requests'[s] = requests[s]
    BY <1>1, <2>2
  <2>3. CASE requests'[s] # requests[s]
    <3>1. s = link[u] /\ requests'[s] = requests[s] \o reqs
      BY <2>1, <2>3 DEF Request
    <3>2. /\ DOMAIN (requests[s] \o reqs) = 1..(Len(requests[s]) + Len(reqs))
          /\ DOMAIN requests[s] = 1..Len(requests[s]) /\ DOMAIN reqs = 1..Len(reqs)
          /\ Len(requests[s]) \in Nat /\ Len(reqs) \in Nat
      BY <2>1
    <3>3. CASE i \in DOMAIN requests[s]
      BY <2>1, <3>1, <3>3
    <3>4. CASE i \notin DOMAIN requests[s]
      <4>1. i - Len(requests[s]) \in DOMAIN reqs
        BY <1>1, <3>1, <3>2, <3>4
      <4>2. (requests[s] \o reqs)[i] = reqs[i - Len(requests[s])]
        BY <1>1, <2>1, <3>1, <3>2, <3>4
      <4>3. QED
        BY <3>1, <4>1, <4>2
    <3>5. QED
      BY <3>3, <3>4
  <2>4. QED
    BY <2>2, <2>3
<1>2. ASSUME NEW v \in Usernames, NEW s \in Sessions, Owns(v, s)'
      PROVE  Owns(v, s)
  <2>1. CASE link'[v] = s \/ \E c \in clients' : c.session = s /\ c.username = v
    BY <2>1 DEF Owns
  <2>2. CASE \E i \in DOMAIN requests'[s] :
               requests'[s][i].type = "join" /\ requests'[s][i].username = v
    <3>1. PICK i \in DOMAIN requests'[s] :
            requests'[s][i].type = "join" /\ requests'[s][i].username = v
      BY <2>2
    <3>2. QED
      BY <1>1, <3>1 DEF Owns
  <2>3. QED
    BY <1>2, <2>1, <2>2 DEF Owns
<1>3. OneOwner'
  BY <1>2 DEF OneOwner
<1>4. ASSUME NEW v \in Usernames, NEW s \in Sessions, Owns(v, s)',
             NEW r \in RoomIds, NEW i \in DOMAIN requests'[s],
             requests'[s][i].type = "ack", requests'[s][i].roomId = r,
             NEW k \in Missed(v, r)'
      PROVE  requests'[s][i].upToSeq < k
  <2>1. CASE i \in DOMAIN requests[s] /\ requests'[s][i] = requests[s][i]
    <3>1. k \in Missed(v, r)
      BY <1>4
    <3>2. QED
      BY <1>2, <1>4, <2>1, <3>1 DEF AcksSpareUnseen
  <2>2. CASE s = link[u] /\ \E j \in DOMAIN reqs : requests'[s][i] = reqs[j]
    <3>1. v = u
      BY <1>2, <1>4, <2>2 DEF OneOwner, Owns
    <3>2. QED
      BY <1>4, <2>2, <3>1
  <2>3. QED
    BY <1>1, <2>1, <2>2
<1>5. QED
  BY <1>3, <1>4 DEF AcksSpareUnseen

(***************************************************************************)
(* So it is with the requests the application makes.                        *)
(***************************************************************************)
LEMMA ApplicationSparesUnseen ==
  ASSUME NEW n, TypedUpTo(n), UnseenInv,
         UNCHANGED <<vars, todo, outbox, link, unseen>>,
         NEW u \in Usernames, NEW req \in RequestsUpTo(n), Request(u, <<req>>),
         req.type = "join" => req.username = u, req.type # "ack"
  PROVE  UnseenInv'
<1>1. UNCHANGED <<db, clients, owed>> /\ \A v, r : Missed(v, r)' = Missed(v, r)
  BY DEF vars, Missed
<1>2. <<req>> \in Seq(RequestsUpTo(n)) /\ \A i \in DOMAIN <<req>> : <<req>>[i] = req
  OBVIOUS
<1>3. OneOwner' /\ AcksSpareUnseen'
  BY <1>1, <1>2, RequestSparesUnseen DEF UnseenInv
<1>4. UnseenIsOwed'
  BY <1>1 DEF UnseenInv, UnseenIsOwed, Namesakes, FindMembersByRoom
<1>5. WaySparesUnseen' /\ StepsSpareUnseen' /\ LookUpsAreOwn'
  BY <1>1 DEF UnseenInv, WaySparesUnseen, StepsSpareUnseen, LookUpsAreOwn, OnItsWay
<1>6. UnseenArrives'
  BY <1>1 DEF UnseenInv, UnseenArrives, OnItsWay, ToBeSent, ToBeLookedUp
<1>7. QED
  BY <1>3, <1>4, <1>5, <1>6 DEF UnseenInv

-----------------------------------------------------------------------------
(* The connection.                                                         *)

(***************************************************************************)
(* A session that is accepted is nobody's, and nothing is on its way to it.  *)
(***************************************************************************)
LEMMA ConnectSparesUnseen ==
  ASSUME NEW n, TypedUpTo(n), RegistryInv, ClosedIsEmpty, UnseenInv,
         NEW u \in Usernames, NEW s \in Sessions, OnConnected(u, s)
  PROVE  UnseenInv'
<1>1. /\ session[s] = "absent" /\ UNCHANGED <<db, clients, owed, todo, outbox, unseen>>
      /\ link' = [link EXCEPT ![u] = s] /\ \A v \in Usernames : link[v] # s
      /\ \A x \in Sessions : \A i \in DOMAIN todo[x] :
           todo[x][i].op = "send" => s \notin todo[x][i].to
  BY DEF OnConnected, OnAccept, Accept
<1>2. /\ link'[u] = s /\ \A v \in Usernames : v # u => link'[v] = link[v]
      /\ \A v, r : Missed(v, r)' = Missed(v, r)
  BY <1>1 DEF TypedUpTo, Missed
<1>3. outbox[s] = <<>> /\ \A c \in clients : c.session # s
  BY <1>1 DEF ClosedIsEmpty, RegistryInv, ClientsAreMembers
<1>4. /\ \A i \in DOMAIN requests'[s] :
           requests'[s][i].type = "join" /\ requests'[s][i].username = u
      /\ \A x \in Sessions : x # s => requests'[x] = requests[x]
  <2>1. PICK order : requests' = [requests EXCEPT ![s] =
                       [i \in DOMAIN order |-> JoinRequest(u, order[i])]]
    BY DEF OnConnected
  <2>2. DOMAIN requests = Sessions
    BY DEF TypedUpTo
  <2>3. requests'[s] = [i \in DOMAIN order |-> JoinRequest(u, order[i])]
    BY <2>1, <2>2
  <2>4. \A i \in DOMAIN requests'[s] :
          requests'[s][i].type = "join" /\ requests'[s][i].username = u
    BY <2>3 DEF JoinRequest
  <2>5. QED
    BY <2>1, <2>2, <2>4
<1>5. \A v \in Usernames : Owns(v, s)' => v = u
  BY <1>1, <1>2, <1>3, <1>4 DEF Owns
<1>6. \A v \in Usernames, x \in Sessions : x # s /\ Owns(v, x)' => Owns(v, x)
  BY <1>1, <1>2, <1>4 DEF Owns
<1>7. OneOwner'
  BY <1>5, <1>6 DEF UnseenInv, OneOwner
<1>8. AcksSpareUnseen'
  <2>1. SUFFICES ASSUME NEW v \in Usernames, NEW x \in Sessions, Owns(v, x)',
                        NEW r \in RoomIds, NEW i \in DOMAIN requests'[x],
                        requests'[x][i].type = "ack", requests'[x][i].roomId = r,
                        NEW k \in Missed(v, r)'
                 PROVE  requests'[x][i].upToSeq < k
    BY DEF AcksSpareUnseen
  <2>2. x # s
    BY <1>4, <2>1
  <2>3. QED
    BY <1>2, <1>4, <1>6, <2>1, <2>2 DEF UnseenInv, AcksSpareUnseen
<1>9. UnseenIsOwed'
  BY <1>1, <1>2 DEF UnseenInv, UnseenIsOwed, Namesakes, FindMembersByRoom
<1>10. WaySparesUnseen'
  BY <1>1, <1>2, <1>3 DEF UnseenInv, WaySparesUnseen
<1>11. StepsSpareUnseen'
  <2>1. SUFFICES ASSUME NEW v \in Usernames, NEW x \in Sessions, NEW i \in DOMAIN todo[x],
                        todo[x][i].op = "send", link'[v] \in todo[x][i].to,
                        NEW r \in RoomIds, NEW a \in Numbers(todo[x][i].msg, r),
                        NEW k \in Missed(v, r), k < a
                 PROVE  k \in Numbers(todo[x][i].msg, r) \/ OnItsWay(link[v], r, k)'
    BY <1>1, <1>2 DEF StepsSpareUnseen
  <2>2. v # u /\ link'[v] = link[v]
    BY <1>1, <1>2, <2>1
  <2>3. k \in Numbers(todo[x][i].msg, r) \/ OnItsWay(link[v], r, k)
    BY <2>1, <2>2 DEF UnseenInv, StepsSpareUnseen
  <2>4. QED
    BY <1>1, <2>2, <2>3 DEF OnItsWay
<1>12. LookUpsAreOwn'
  BY <1>1 DEF UnseenInv, LookUpsAreOwn
<1>13. UnseenArrives'
  <2>1. SUFFICES ASSUME NEW c \in clients, link'[c.username] = c.session,
                        NEW k \in Missed(c.username, c.roomId)
                 PROVE  \/ OnItsWay(c.session, c.roomId, k)'
                        \/ ToBeSent(c.session, c.roomId, k)'
                        \/ ToBeLookedUp(c.session, c.roomId, c.peerId)'
    BY <1>1, <1>2 DEF UnseenArrives
  <2>2. c.username \in Usernames
    BY DEF RegistryInv, TypeOK, RamTypeOK, ClientInfo
  <2>3. link[c.username] = c.session
    BY <1>2, <1>3, <2>1, <2>2
  <2>4. QED
    BY <1>1, <2>1, <2>3
      DEF UnseenInv, UnseenArrives, OnItsWay, ToBeSent, ToBeLookedUp
<1>14. QED
  BY <1>7, <1>8, <1>9, <1>10, <1>11, <1>12, <1>13 DEF UnseenInv

(***************************************************************************)
(* What was on its way over a connection that is lost stays unseen.         *)
(***************************************************************************)
LEMMA DisconnectedSparesUnseen ==
  ASSUME NEW n, TypedUpTo(n), RegistryInv, UnseenInv, NEW u \in Usernames,
         OnDisconnected(u)
  PROVE  UnseenInv'
<1>1. /\ link[u] # NoLink /\ link' = [link EXCEPT ![u] = NoLink]
      /\ outbox' = [outbox EXCEPT ![link[u]] = <<>>]
      /\ UNCHANGED <<db, clients, owed, requests, todo, unseen>>
  BY DEF OnDisconnected, vars
<1>2. /\ link'[u] = NoLink /\ \A v \in Usernames : v # u => link'[v] = link[v]
      /\ \A x \in Sessions : x # link[u] => outbox'[x] = outbox[x]
      /\ link[u] \in Sessions /\ \A v \in Usernames : link[v] \in Sessions \cup {NoLink}
      /\ \A v, r : Missed(v, r)' = Missed(v, r)
  BY <1>1 DEF TypedUpTo, Missed
<1>3. NoLink \notin Sessions
  BY GroupChatAssumption
<1>4. \A v \in Usernames : v # u /\ link'[v] # NoLink =>
        link'[v] \in Sessions /\ outbox'[link'[v]] = outbox[link[v]]
  <2>1. SUFFICES ASSUME NEW v \in Usernames, v # u, link'[v] # NoLink
                 PROVE  link'[v] \in Sessions /\ link[v] # link[u]
    BY <1>2
  <2>2. QED
    BY <1>2, <2>1 DEF UnseenInv, OneOwner, Owns
<1>5. \A v \in Usernames, x \in Sessions : Owns(v, x)' => Owns(v, x)
  BY <1>1, <1>2, <1>3 DEF Owns
<1>6. OneOwner' /\ AcksSpareUnseen'
  BY <1>1, <1>2, <1>5 DEF UnseenInv, OneOwner, AcksSpareUnseen
<1>7. UnseenIsOwed'
  BY <1>1, <1>2 DEF UnseenInv, UnseenIsOwed, Namesakes, FindMembersByRoom
<1>8. WaySparesUnseen'
  BY <1>2, <1>4 DEF UnseenInv, WaySparesUnseen
<1>9. StepsSpareUnseen'
  <2>1. SUFFICES ASSUME NEW v \in Usernames, NEW x \in Sessions, NEW i \in DOMAIN todo[x],
                        todo[x][i].op = "send", link'[v] \in todo[x][i].to,
                        NEW r \in RoomIds, NEW a \in Numbers(todo[x][i].msg, r),
                        NEW k \in Missed(v, r), k < a
                 PROVE  k \in Numbers(todo[x][i].msg, r) \/ OnItsWay(link[v], r, k)'
    BY <1>1, <1>2 DEF StepsSpareUnseen
  <2>2. todo[x][i] \in StepsUpTo(n)
    BY DEF TypedUpTo
  <2>3. todo[x][i].to \subseteq Sessions
    BY <2>1, <2>2 DEF StepsUpTo
  <2>4. v # u /\ link'[v] = link[v] /\ link[v] # NoLink
    BY <1>2, <1>3, <2>1, <2>3
  <2>5. k \in Numbers(todo[x][i].msg, r) \/ OnItsWay(link[v], r, k)
    BY <2>1, <2>4 DEF UnseenInv, StepsSpareUnseen
  <2>6. QED
    BY <1>4, <2>4, <2>5 DEF OnItsWay
<1>10. LookUpsAreOwn'
  BY <1>1 DEF UnseenInv, LookUpsAreOwn
<1>11. UnseenArrives'
  <2>1. SUFFICES ASSUME NEW c \in clients, link'[c.username] = c.session,
                        NEW k \in Missed(c.username, c.roomId)
                 PROVE  \/ OnItsWay(c.session, c.roomId, k)'
                        \/ ToBeSent(c.session, c.roomId, k)'
                        \/ ToBeLookedUp(c.session, c.roomId, c.peerId)'
    BY <1>1, <1>2 DEF UnseenArrives
  <2>2. c.username \in Usernames /\ c.session \in Sessions
    BY DEF RegistryInv, TypeOK, RamTypeOK, ClientInfo
  <2>3. c.username # u /\ link[c.username] = c.session /\ outbox'[c.session] = outbox[c.session]
    BY <1>2, <1>3, <1>4, <2>1, <2>2
  <2>4. QED
    BY <1>1, <2>1, <2>3
      DEF UnseenInv, UnseenArrives, OnItsWay, ToBeSent, ToBeLookedUp
<1>12. QED
  BY <1>6, <1>7, <1>8, <1>9, <1>10, <1>11 DEF UnseenInv

-----------------------------------------------------------------------------
(* The client receives a message.                                          *)

\* seqs has all of ns.
HasAll(seqs, ns) == \A k \in ns : \E i \in DOMAIN seqs : seqs[i] = k

(***************************************************************************)
(* The ascending sequence of some numbers has all of them.                  *)
(***************************************************************************)
LEMMA AscendingHasAll ==
  ASSUME NEW n \in Nat, NEW ns \in SUBSET (1..n), NEW seqs \in Ascending(ns)
  PROVE  HasAll(seqs, ns)
<1>1. IsFiniteSet(ns) /\ Cardinality(ns) \in Nat
  <2>1. IsFiniteSet(1..n)
    BY FS_Interval
  <2>2. QED
    BY <2>1, FS_Subset, FS_CardinalityType
<1>2. PICK c \in Nat : c = Cardinality(ns)
  BY <1>1
<1>3. /\ seqs \in [1..c -> ns]
      /\ \A i, j \in 1..c : i < j => seqs[i] < seqs[j]
  BY <1>2 DEF Ascending
<1>4. \A i, j \in 1..c : seqs[i] = seqs[j] => i = j
  <2>1. SUFFICES ASSUME NEW i \in 1..c, NEW j \in 1..c, seqs[i] = seqs[j], i # j
                 PROVE  FALSE
    OBVIOUS
  <2>2. i < j \/ j < i
    BY <2>1
  <2>3. seqs[i] \in 1..n /\ seqs[j] \in 1..n
    BY <1>3
  <2>4. seqs[i] < seqs[j] \/ seqs[j] < seqs[i]
    BY <1>3, <2>2
  <2>5. QED
    BY <2>1, <2>3, <2>4
<1>5. seqs \in Injection(1..c, ns)
  BY <1>3, <1>4 DEF Injection, IsInjective
<1>6. Cardinality(1..c) = c
  BY FS_Interval
<1>7. seqs \in Surjection(1..c, ns)
  BY <1>1, <1>2, <1>5, <1>6, FS_Injection
<1>8. QED
  BY <1>3, <1>7 DEF Surjection, HasAll

(***************************************************************************)
(* What is shown is seen and acknowledged, and nothing unseen is before it.  *)
(***************************************************************************)
LEMMA ShowSparesUnseen ==
  ASSUME NEW n \in Nat, TypedUpTo(n), UnseenInv, NEW u \in Usernames,
         link[u] # NoLink, outbox[link[u]] # <<>>, UNCHANGED <<clients, link>>,
         NEW m, m = Head(outbox[link[u]]),
         NEW r \in RoomIds, NEW seqs \in Seq(1..n), Show(u, r, seqs),
         \A i \in DOMAIN seqs : seqs[i] \in Numbers(m, r),
         HasAll(seqs, Numbers(m, r)),
         \A x \in RoomIds : x # r => Numbers(m, x) = {}
  PROVE  /\ OneOwner' /\ AcksSpareUnseen'
         /\ \A v \in Usernames, x \in RoomIds : Missed(v, x)' \subseteq Missed(v, x)
         /\ \A x \in RoomIds : Missed(u, x)' \cap Numbers(m, x) = {}
<1>1. unseen' = unseen \ {<<u, r, seqs[i]>> : i \in DOMAIN seqs}
  BY DEF Show
<1>2. \A v, x : Missed(v, x)' \subseteq Missed(v, x)
  BY <1>1 DEF Missed
<1>3. \A x \in RoomIds : Missed(u, x)' \cap Numbers(m, x) = {}
  <2>1. SUFFICES ASSUME NEW k \in Missed(u, r)', k \in Numbers(m, r)
                 PROVE  FALSE
    OBVIOUS
  <2>2. PICK y \in unseen' : y[1] = u /\ y[2] = r /\ y[3] = k
    BY <2>1 DEF Missed
  <2>3. y = <<u, r, k>>
    BY <1>1, <2>2 DEF TypedUpTo
  <2>4. PICK i \in DOMAIN seqs : seqs[i] = k
    BY <2>1 DEF HasAll
  <2>5. QED
    BY <1>1, <2>2, <2>3, <2>4
<1>4. PICK reqs : reqs = [i \in DOMAIN seqs |-> AckRequest(r, seqs[i])]
  OBVIOUS
<1>5. /\ Request(u, reqs) /\ DOMAIN reqs = DOMAIN seqs
      /\ \A i \in DOMAIN reqs : /\ reqs[i] = AckRequest(r, seqs[i])
                                /\ reqs[i].type = "ack" /\ reqs[i].roomId = r
                                /\ reqs[i].upToSeq = seqs[i]
  BY <1>4 DEF Show, AckRequest
<1>6. reqs \in Seq(RequestsUpTo(n))
  <2>1. Len(seqs) \in Nat /\ DOMAIN seqs = 1..Len(seqs)
    OBVIOUS
  <2>2. \A i \in DOMAIN seqs : AckRequest(r, seqs[i]) \in RequestsUpTo(n)
    BY RequestsAreTyped
  <2>3. QED
    BY <1>4, <2>1, <2>2
<1>7. ASSUME NEW i \in DOMAIN seqs, NEW k \in Missed(u, r)'
      PROVE  seqs[i] < k
  <2>1. k \in Missed(u, r) /\ k \notin Numbers(m, r)
    BY <1>2, <1>3, <1>7
  <2>2. k \in 1..n
    BY <2>1, MissedMeans
  <2>3. seqs[i] \in 1..n /\ seqs[i] # k
    BY <2>1
  <2>4. link[u] \in Sessions
    BY DEF TypedUpTo
  <2>5. outbox[link[u]] \in Seq(MessagesUpTo(n))
    BY <2>4 DEF TypedUpTo
  <2>6. 1 \in DOMAIN outbox[link[u]] /\ m = outbox[link[u]][1]
    BY <2>5
  <2>7. \A j \in DOMAIN outbox[link[u]] : j <= 1 => j = 1
    BY <2>5
  <2>8. ~(k < seqs[i])
    BY <2>1, <2>6, <2>7 DEF UnseenInv, WaySparesUnseen
  <2>9. QED
    BY <2>2, <2>3, <2>8
<1>8. OneOwner' /\ AcksSpareUnseen'
  <2>1. \A x \in RoomIds, i \in DOMAIN reqs :
          reqs[i].type = "ack" /\ reqs[i].roomId = x =>
            \A k \in Missed(u, x)' : reqs[i].upToSeq < k
    BY <1>5, <1>7
  <2>2. \A i \in DOMAIN reqs : reqs[i].type = "join" => reqs[i].username = u
    BY <1>5
  <2>3. OneOwner /\ AcksSpareUnseen
    BY DEF UnseenInv
  <2>4. QED
    BY <1>2, <1>5, <1>6, <2>1, <2>2, <2>3, RequestSparesUnseen
<1>9. QED
  BY <1>2, <1>3, <1>8

(***************************************************************************)
(* Whatever a client receives, it acknowledges nothing before what is        *)
(* unseen, and has seen the numbers received.                               *)
(***************************************************************************)
LEMMA OnMessageSees ==
  ASSUME NEW n \in Nat, TypedUpTo(n), UnseenInv, NEW u \in Usernames, OnMessage(u),
         NEW m, m = Head(outbox[link[u]])
  PROVE  /\ OneOwner' /\ AcksSpareUnseen'
         /\ \A v \in Usernames, x \in RoomIds : Missed(v, x)' \subseteq Missed(v, x)
         /\ \A x \in RoomIds : Missed(u, x)' \cap Numbers(m, x) = {}
<1>1. /\ link[u] # NoLink /\ outbox[link[u]] # <<>> /\ UNCHANGED <<clients, link>>
      /\ link[u] \in Sessions
  BY DEF OnMessage, vars, TypedUpTo
<1>2. m \in MessagesUpTo(n)
  <2>1. outbox[link[u]] \in Seq(MessagesUpTo(n))
    BY <1>1 DEF TypedUpTo
  <2>2. QED
    BY <1>1, <2>1, HeadTailProperties
<1>3. ASSUME UNCHANGED <<requests, unseen>>,
             m.type \notin {"group-message", "buffered-messages"}
      PROVE  /\ OneOwner' /\ AcksSpareUnseen'
             /\ \A v \in Usernames, x \in RoomIds : Missed(v, x)' \subseteq Missed(v, x)
             /\ \A x \in RoomIds : Missed(u, x)' \cap Numbers(m, x) = {}
  <2>1. \A v, x : Missed(v, x)' = Missed(v, x)
    BY <1>3 DEF Missed
  <2>2. \A v, s : Owns(v, s)' <=> Owns(v, s)
    BY <1>1, <1>3 DEF Owns
  <2>3. OneOwner' /\ AcksSpareUnseen'
    BY <1>3, <2>1, <2>2 DEF UnseenInv, OneOwner, AcksSpareUnseen
  <2>4. \A x : Numbers(m, x) = {}
    BY <1>3 DEF Numbers
  <2>5. QED
    BY <2>1, <2>3, <2>4
<1>4. CASE m.type = "joined" /\ OnJoined(u, m)
  BY <1>3, <1>4 DEF OnJoined
<1>5. CASE m.type \in {"peer-joined", "peer-left"}
           /\ (OnPeerJoined(u, m) \/ OnPeerLeft(u, m))
  BY <1>3, <1>5 DEF OnPeerJoined, OnPeerLeft
<1>6. CASE m.type = "group-message" /\ OnGroupMessage(u, m)
  <2>1. m.roomId \in RoomIds /\ m.messageSeq \in 1..n
    BY <1>2, <1>6, MessagesMean
  <2>2. PICK seqs : seqs = <<m.messageSeq>>
    OBVIOUS
  <2>3. seqs \in Seq(1..n) /\ 1 \in DOMAIN seqs /\ seqs[1] = m.messageSeq
        /\ \A i \in DOMAIN seqs : seqs[i] = m.messageSeq
        /\ HasAll(seqs, {m.messageSeq})
    BY <2>1, <2>2 DEF HasAll
  <2>4. /\ Numbers(m, m.roomId) = {m.messageSeq}
        /\ \A x : x # m.roomId => Numbers(m, x) = {}
    BY <1>6 DEF Numbers
  <2>5. Show(u, m.roomId, seqs)
    BY <1>6, <2>2 DEF OnGroupMessage
  <2>6. /\ \A i \in DOMAIN seqs : seqs[i] \in Numbers(m, m.roomId)
        /\ HasAll(seqs, Numbers(m, m.roomId)) /\ seqs \in Seq(1..n)
    BY <2>3, <2>4
  <2>7. QED
    BY <1>1, <2>1, <2>4, <2>5, <2>6, ShowSparesUnseen
<1>7. CASE m.type = "buffered-messages" /\ OnBufferedMessages(u, m)
  <2>1. m.roomId \in RoomIds /\ m.messages \in SUBSET (1..n)
    BY <1>2, <1>7, MessagesMean
  <2>2. PICK seqs \in Ascending(m.messages) : Show(u, m.roomId, seqs)
    BY <1>7 DEF OnBufferedMessages
  <2>3. seqs \in Seq(m.messages) /\ seqs \in Seq(1..n)
    BY <2>1, AscendingNumbers
  <2>4. HasAll(seqs, m.messages)
    BY <2>1, AscendingHasAll
  <2>5. \A i \in DOMAIN seqs : seqs[i] \in m.messages
    BY <2>3
  <2>6. /\ Numbers(m, m.roomId) = m.messages
        /\ \A x : x # m.roomId => Numbers(m, x) = {}
    BY <1>7 DEF Numbers
  <2>7. QED
    BY <1>1, <2>1, <2>2, <2>3, <2>4, <2>5, <2>6, ShowSparesUnseen
<1>8. CASE OnReply(m)
  BY <1>3, <1>8 DEF OnReply
<1>9. QED
  BY <1>4, <1>5, <1>6, <1>7, <1>8, Zenon DEF OnMessage

(***************************************************************************)
(* What is still missed is among the messages after the one received.        *)
(***************************************************************************)
LEMMA OnMessageSparesUnseen ==
  ASSUME NEW n \in Nat, TypedUpTo(n), RegistryInv, UnseenInv, NEW u \in Usernames,
         OnMessage(u)
  PROVE  UnseenInv'
<1>1. PICK m : m = Head(outbox[link[u]])
  OBVIOUS
<1>2. PICK x : x = link[u]
  OBVIOUS
<1>3. PICK q : q = outbox[x]
  OBVIOUS
<1>4. /\ x # NoLink /\ q # <<>> /\ x \in Sessions /\ q \in Seq(MessagesUpTo(n))
      /\ outbox' = [outbox EXCEPT ![x] = Tail(q)]
      /\ UNCHANGED <<db, clients, owed, todo, link>>
  BY <1>2, <1>3 DEF OnMessage, vars, TypedUpTo
<1>5. /\ outbox'[x] = Tail(q)
      /\ \A y \in Sessions : y # x => outbox'[y] = outbox[y]
  BY <1>4 DEF TypedUpTo
<1>6. /\ OneOwner' /\ AcksSpareUnseen'
      /\ \A v \in Usernames, r \in RoomIds : Missed(v, r)' \subseteq Missed(v, r)
      /\ \A r \in RoomIds : Missed(u, r)' \cap Numbers(m, r) = {}
  BY <1>1, OnMessageSees
<1>7. \A v \in Usernames : link[v] = x => v = u
  BY <1>2, <1>4 DEF UnseenInv, OneOwner, Owns
<1>8. /\ Head(q) = q[1] /\ m = q[1] /\ Len(q) \in Nat
      /\ DOMAIN q = 1..Len(q) /\ DOMAIN Tail(q) = 1..(Len(q) - 1)
      /\ \A i \in DOMAIN Tail(q) : i + 1 \in DOMAIN q /\ Tail(q)[i] = q[i + 1]
  BY <1>1, <1>2, <1>3, <1>4
<1>9. ASSUME NEW r \in RoomIds, NEW k \in Missed(u, r)',
             NEW i \in DOMAIN q, k \in Numbers(q[i], r)
      PROVE  i - 1 \in DOMAIN Tail(q) /\ k \in Numbers(Tail(q)[i - 1], r)
  <2>1. i # 1
    BY <1>6, <1>8, <1>9
  <2>2. i - 1 \in DOMAIN Tail(q) /\ Tail(q)[i - 1] = q[i]
    BY <1>8, <2>1
  <2>3. QED
    BY <1>9, <2>2
<1>10. ASSUME NEW v \in Usernames, NEW y \in Sessions, link[v] = y, NEW r \in RoomIds,
              NEW k \in Missed(v, r)', OnItsWay(y, r, k)
       PROVE  OnItsWay(y, r, k)'
  <2>1. CASE y = x
    BY <1>3, <1>5, <1>7, <1>9, <1>10, <2>1 DEF OnItsWay
  <2>2. CASE y # x
    BY <1>5, <1>10, <2>2 DEF OnItsWay
  <2>3. QED
    BY <2>1, <2>2
<1>11. UnseenIsOwed'
  BY <1>4, <1>6 DEF UnseenInv, UnseenIsOwed, Namesakes, FindMembersByRoom
<1>12. WaySparesUnseen'
  <2>1. SUFFICES ASSUME NEW v \in Usernames, link[v] # NoLink, NEW r \in RoomIds,
                        NEW j \in DOMAIN outbox'[link[v]],
                        NEW a \in Numbers(outbox'[link[v]][j], r),
                        NEW k \in Missed(v, r)', k < a
                 PROVE  \E i \in DOMAIN outbox'[link[v]] :
                          i <= j /\ k \in Numbers(outbox'[link[v]][i], r)
    BY <1>4 DEF WaySparesUnseen
  <2>2. k \in Missed(v, r) /\ link[v] \in Sessions
    BY <1>6, <2>1 DEF TypedUpTo
  <2>3. CASE v = u
    <3>1. j \in DOMAIN Tail(q) /\ a \in Numbers(q[j + 1], r) /\ j + 1 \in DOMAIN q
      BY <1>2, <1>5, <1>8, <2>1, <2>3
    <3>2. PICK i \in DOMAIN q : i <= j + 1 /\ k \in Numbers(q[i], r)
      BY <1>2, <1>3, <2>1, <2>2, <2>3, <3>1 DEF UnseenInv, WaySparesUnseen
    <3>3. i - 1 \in DOMAIN Tail(q) /\ k \in Numbers(Tail(q)[i - 1], r)
      BY <1>9, <2>1, <2>3, <3>2
    <3>4. i - 1 <= j
      BY <1>8, <3>1, <3>2
    <3>5. QED
      BY <1>2, <1>5, <2>3, <3>3, <3>4
  <2>4. CASE v # u
    <3>1. outbox'[link[v]] = outbox[link[v]]
      BY <1>5, <1>7, <2>2, <2>4
    <3>2. QED
      BY <2>1, <2>2, <3>1 DEF UnseenInv, WaySparesUnseen
  <2>5. QED
    BY <2>3, <2>4
<1>13. StepsSpareUnseen'
  <2>1. SUFFICES ASSUME NEW v \in Usernames, NEW y \in Sessions, NEW i \in DOMAIN todo[y],
                        todo[y][i].op = "send", link[v] \in todo[y][i].to,
                        NEW r \in RoomIds, NEW a \in Numbers(todo[y][i].msg, r),
                        NEW k \in Missed(v, r)', k < a
                 PROVE  k \in Numbers(todo[y][i].msg, r) \/ OnItsWay(link[v], r, k)'
    BY <1>4 DEF StepsSpareUnseen, OnItsWay
  <2>2. k \in Missed(v, r)
    BY <1>6, <2>1
  <2>3. k \in Numbers(todo[y][i].msg, r) \/ OnItsWay(link[v], r, k)
    BY <2>1, <2>2 DEF UnseenInv, StepsSpareUnseen
  <2>4. todo[y][i] \in StepsUpTo(n)
    BY DEF TypedUpTo
  <2>5. PICK z \in Sessions : z = link[v]
    BY <2>1, <2>4 DEF StepsUpTo
  <2>6. k \in Numbers(todo[y][i].msg, r) \/ OnItsWay(z, r, k)'
    BY <1>10, <2>1, <2>3, <2>5
  <2>7. QED
    BY <1>4, <2>5, <2>6
<1>14. LookUpsAreOwn'
  BY <1>4 DEF UnseenInv, LookUpsAreOwn
<1>15. UnseenArrives'
  <2>1. SUFFICES ASSUME NEW c \in clients, link[c.username] = c.session,
                        NEW k \in Missed(c.username, c.roomId)'
                 PROVE  \/ OnItsWay(c.session, c.roomId, k)'
                        \/ ToBeSent(c.session, c.roomId, k)'
                        \/ ToBeLookedUp(c.session, c.roomId, c.peerId)'
    BY <1>4 DEF UnseenArrives
  <2>2. c.username \in Usernames /\ c.session \in Sessions /\ c.roomId \in RoomIds
    BY DEF RegistryInv, TypeOK, RamTypeOK, ClientInfo
  <2>3. k \in Missed(c.username, c.roomId)
    BY <1>6, <2>1, <2>2
  <2>4. CASE OnItsWay(c.session, c.roomId, k)
    BY <1>10, <2>1, <2>2, <2>4
  <2>5. CASE ToBeSent(c.session, c.roomId, k) \/ ToBeLookedUp(c.session, c.roomId, c.peerId)
    BY <1>4, <2>5 DEF ToBeSent, ToBeLookedUp
  <2>6. QED
    BY <2>1, <2>3, <2>4, <2>5 DEF UnseenInv, UnseenArrives
<1>16. QED
  BY <1>6, <1>11, <1>12, <1>13, <1>14, <1>15 DEF UnseenInv

-----------------------------------------------------------------------------
(* A handler goes on.                                                      *)

\* left are the steps T with those of E in place of the first.
Follows(T, E, left) ==
  /\ \A i \in DOMAIN left : left[i] \in E \/ \E j \in DOMAIN T : j # 1 /\ left[i] = T[j]
  /\ \A j \in DOMAIN T : j # 1 => \E i \in DOMAIN left : left[i] = T[j]
  /\ \A e \in E : \E i \in DOMAIN left : left[i] = e

(***************************************************************************)
(* The first step is done.                                                 *)
(***************************************************************************)
LEMMA FirstDone ==
  ASSUME NEW S, NEW T \in Seq(S), T # <<>>
  PROVE  Follows(T, {}, Tail(T))
<1>1. /\ Len(T) \in Nat /\ DOMAIN T = 1..Len(T) /\ DOMAIN Tail(T) = 1..(Len(T) - 1)
      /\ \A i \in 1..(Len(T) - 1) : Tail(T)[i] = T[i + 1]
  OBVIOUS
<1>2. ASSUME NEW i \in DOMAIN Tail(T)
      PROVE  \E j \in DOMAIN T : j # 1 /\ Tail(T)[i] = T[j]
  <2>1. i + 1 \in DOMAIN T /\ i + 1 # 1 /\ Tail(T)[i] = T[i + 1]
    BY <1>1
  <2>2. QED
    BY <2>1
<1>3. ASSUME NEW j \in DOMAIN T, j # 1
      PROVE  \E i \in DOMAIN Tail(T) : Tail(T)[i] = T[j]
  <2>1. j - 1 \in DOMAIN Tail(T) /\ Tail(T)[j - 1] = T[j]
    BY <1>1, <1>3
  <2>2. QED
    BY <2>1
<1>4. QED
  BY <1>2, <1>3 DEF Follows

(***************************************************************************)
(* Another takes its place.                                                *)
(***************************************************************************)
LEMMA FirstReplaced ==
  ASSUME NEW S, NEW T \in Seq(S), T # <<>>, NEW e
  PROVE  Follows(T, {e}, <<e>> \o Tail(T))
<1>1. PICK b : b = Tail(T)
  OBVIOUS
<1>2. PICK U : U = S \cup {e}
  OBVIOUS
<1>3. b \in Seq(U) /\ e \in U
  <2>1. S \subseteq U /\ b \in Seq(S)
    BY <1>1, <1>2
  <2>2. QED
    BY <1>2, <2>1, SeqMonotonic
<1>4. PICK left : left = <<e>> \o b
  OBVIOUS
<1>5. /\ DOMAIN left = 1..(Len(b) + 1) /\ left[1] = e
      /\ \A i \in 1..Len(b) : left[i + 1] = b[i]
  BY <1>3, <1>4, Prepended
<1>6. Len(b) \in Nat /\ DOMAIN b = 1..Len(b) /\ Follows(T, {}, b)
  BY <1>1, <1>3, FirstDone
<1>7. \A i \in DOMAIN left : i = 1 \/ (i - 1 \in DOMAIN b /\ left[i] = b[i - 1])
  <2>1. SUFFICES ASSUME NEW i \in DOMAIN left, i # 1
                 PROVE  i - 1 \in DOMAIN b /\ left[i] = b[i - 1]
    OBVIOUS
  <2>2. i - 1 \in 1..Len(b) /\ (i - 1) + 1 = i
    BY <1>5, <1>6, <2>1
  <2>3. QED
    BY <1>5, <1>6, <2>2
<1>8. \A i \in DOMAIN b : i + 1 \in DOMAIN left /\ left[i + 1] = b[i]
  BY <1>5, <1>6
<1>9. \A i \in DOMAIN left :
        left[i] \in {e} \/ \E j \in DOMAIN T : j # 1 /\ left[i] = T[j]
  <2>1. SUFFICES ASSUME NEW i \in DOMAIN left, i # 1
                 PROVE  \E j \in DOMAIN T : j # 1 /\ left[i] = T[j]
    BY <1>5
  <2>2. QED
    BY <1>6, <1>7, <2>1 DEF Follows
<1>10. \A j \in DOMAIN T : j # 1 => \E i \in DOMAIN left : left[i] = T[j]
  BY <1>6, <1>8 DEF Follows
<1>11. 1 \in DOMAIN left
  BY <1>5, <1>6
<1>12. Follows(T, {e}, left)
  BY <1>5, <1>9, <1>10, <1>11 DEF Follows
<1>13. QED
  BY <1>1, <1>4, <1>12

\* Some step of E, of this action, overtakes what is unseen.
Overtake(E) ==
  \E e \in E, u \in Usernames, r \in RoomIds : \E x \in e.to :
    /\ link[u] = x
    /\ \E a \in Numbers(e.msg, r), k \in Missed(u, r) :
         k < a /\ k \notin Numbers(e.msg, r) /\ ~OnItsWay(x, r, k)'

\* E reaches everybody that the first step of T in the handler of s is to reach.
Reach(s, T, E) ==
  \A c \in clients : link[c.username] = c.session =>
    \A k \in Missed(c.username, c.roomId) :
      \/ /\ T[1].op = "send" /\ c.session \in T[1].to
         /\ k \in Numbers(T[1].msg, c.roomId)
      \/ /\ s = c.session /\ T[1].op = "pending"
         /\ T[1].roomId = c.roomId /\ T[1].peerId = c.peerId
      => \/ OnItsWay(c.session, c.roomId, k)'
         \/ \E e \in E : c.session \in e.to /\ k \in Numbers(e.msg, c.roomId)

(***************************************************************************)
(* A step may be replaced if what comes instead overtakes nothing and        *)
(* reaches whom the step was to reach.                                      *)
(***************************************************************************)
LEMMA ReplacedSparesUnseen ==
  ASSUME NEW n, TypedUpTo(n), RegistryInv, UnseenInv, NEW s \in Sessions, NEW T, T = todo[s],
         \A t \in Sessions : t # s => todo'[t] = todo[t],
         UNCHANGED <<db, clients, owed, requests, link, unseen>>,
         NEW E, Follows(T, E, todo'[s]),
         \A x \in Sessions, r \in RoomIds : \A k : OnItsWay(x, r, k) => OnItsWay(x, r, k)',
         \A e \in E : e.op = "send", ~Overtake(E), Reach(s, T, E)
  PROVE  /\ OneOwner' /\ UnseenIsOwed' /\ AcksSpareUnseen'
         /\ StepsSpareUnseen' /\ LookUpsAreOwn' /\ UnseenArrives'
<1>1. /\ \A v, r : Missed(v, r)' = Missed(v, r)
      /\ \A v, x : Owns(v, x)' <=> Owns(v, x)
  BY DEF Missed, Owns
<1>2. OneOwner' /\ AcksSpareUnseen'
  BY <1>1 DEF UnseenInv, OneOwner, AcksSpareUnseen
<1>3. UnseenIsOwed'
  BY <1>1 DEF UnseenInv, UnseenIsOwed, Namesakes, FindMembersByRoom
<1>4. ASSUME NEW t \in Sessions, NEW i \in DOMAIN todo'[t]
      PROVE  \/ t = s /\ todo'[t][i] \in E
             \/ \E j \in DOMAIN todo[t] : todo'[t][i] = todo[t][j]
  BY DEF Follows
<1>5. ASSUME NEW t \in Sessions, NEW j \in DOMAIN todo[t], ~(t = s /\ j = 1)
      PROVE  \E i \in DOMAIN todo'[t] : todo'[t][i] = todo[t][j]
  BY <1>5 DEF Follows
<1>6. StepsSpareUnseen'
  <2>1. SUFFICES ASSUME NEW v \in Usernames, NEW t \in Sessions, NEW i \in DOMAIN todo'[t],
                        todo'[t][i].op = "send", link[v] \in todo'[t][i].to,
                        NEW r \in RoomIds, NEW a \in Numbers(todo'[t][i].msg, r),
                        NEW k \in Missed(v, r), k < a
                 PROVE  k \in Numbers(todo'[t][i].msg, r) \/ OnItsWay(link[v], r, k)'
    BY <1>1 DEF StepsSpareUnseen, OnItsWay
  <2>2. CASE todo'[t][i] \in E
    <3>1. PICK x : x = link[v]
      OBVIOUS
    <3>2. k \in Numbers(todo'[t][i].msg, r) \/ OnItsWay(x, r, k)'
      BY <2>1, <2>2, <3>1 DEF Overtake
    <3>3. QED
      BY <3>1, <3>2
  <2>3. CASE \E j \in DOMAIN todo[t] : todo'[t][i] = todo[t][j]
    <3>1. PICK j \in DOMAIN todo[t] : todo'[t][i] = todo[t][j]
      BY <2>3
    <3>2. todo[t][j] \in StepsUpTo(n)
      BY DEF TypedUpTo
    <3>3. PICK x \in Sessions : x = link[v]
      BY <2>1, <3>1, <3>2 DEF StepsUpTo
    <3>4. k \in Numbers(todo[t][j].msg, r) \/ OnItsWay(x, r, k)
      BY <2>1, <3>1, <3>3 DEF UnseenInv, StepsSpareUnseen
    <3>5. k \in Numbers(todo[t][j].msg, r) \/ OnItsWay(x, r, k)'
      BY <3>4
    <3>6. QED
      BY <3>1, <3>3, <3>5
  <2>4. QED
    BY <1>4, <2>2, <2>3
<1>7. LookUpsAreOwn'
  <2>1. SUFFICES ASSUME NEW t \in Sessions, NEW i \in DOMAIN todo'[t],
                        todo'[t][i].op = "pending"
                 PROVE  \E c \in clients : /\ c.session = t
                                           /\ c.roomId = todo'[t][i].roomId
                                           /\ c.peerId = todo'[t][i].peerId
    BY DEF LookUpsAreOwn
  <2>2. PICK j \in DOMAIN todo[t] : todo'[t][i] = todo[t][j]
    BY <1>4, <2>1
  <2>3. QED
    BY <2>1, <2>2 DEF UnseenInv, LookUpsAreOwn
<1>8. UnseenArrives'
  <2>1. SUFFICES ASSUME NEW c \in clients, link[c.username] = c.session,
                        NEW k \in Missed(c.username, c.roomId)
                 PROVE  \/ OnItsWay(c.session, c.roomId, k)'
                        \/ ToBeSent(c.session, c.roomId, k)'
                        \/ ToBeLookedUp(c.session, c.roomId, c.peerId)'
    BY <1>1 DEF UnseenArrives
  <2>2. c.session \in Sessions /\ c.roomId \in RoomIds
    BY DEF RegistryInv, TypeOK, RamTypeOK, ClientInfo
  <2>3. ASSUME NEW e \in E, c.session \in e.to, k \in Numbers(e.msg, c.roomId)
        PROVE  ToBeSent(c.session, c.roomId, k)'
    <3>1. PICK i \in DOMAIN todo'[s] : todo'[s][i] = e
      BY DEF Follows
    <3>2. QED
      BY <2>3, <3>1 DEF ToBeSent
  <2>4. CASE OnItsWay(c.session, c.roomId, k)
    BY <2>2, <2>4
  <2>5. CASE ToBeSent(c.session, c.roomId, k)
    <3>1. PICK t \in Sessions : \E j \in DOMAIN todo[t] :
            /\ todo[t][j].op = "send" /\ c.session \in todo[t][j].to
            /\ k \in Numbers(todo[t][j].msg, c.roomId)
      BY <2>5 DEF ToBeSent
    <3>2. PICK j \in DOMAIN todo[t] :
            /\ todo[t][j].op = "send" /\ c.session \in todo[t][j].to
            /\ k \in Numbers(todo[t][j].msg, c.roomId)
      BY <3>1
    <3>3. CASE t = s /\ j = 1
      BY <2>1, <2>3, <3>2, <3>3 DEF Reach
    <3>4. CASE ~(t = s /\ j = 1)
      <4>1. PICK i \in DOMAIN todo'[t] : todo'[t][i] = todo[t][j]
        BY <1>5, <3>4
      <4>2. QED
        BY <3>2, <4>1 DEF ToBeSent
    <3>5. QED
      BY <3>3, <3>4
  <2>6. CASE ToBeLookedUp(c.session, c.roomId, c.peerId)
    <3>1. PICK j \in DOMAIN todo[c.session] :
            /\ todo[c.session][j].op = "pending" /\ todo[c.session][j].roomId = c.roomId
            /\ todo[c.session][j].peerId = c.peerId
      BY <2>6 DEF ToBeLookedUp
    <3>2. CASE c.session = s /\ j = 1
      BY <2>1, <2>3, <3>1, <3>2 DEF Reach
    <3>3. CASE ~(c.session = s /\ j = 1)
      <4>1. PICK i \in DOMAIN todo'[c.session] : todo'[c.session][i] = todo[c.session][j]
        BY <1>5, <2>2, <3>3
      <4>2. QED
        BY <3>1, <4>1 DEF ToBeLookedUp
    <3>4. QED
      BY <3>2, <3>3
  <2>7. QED
    BY <2>1, <2>4, <2>5, <2>6 DEF UnseenInv, UnseenArrives
<1>9. QED
  BY <1>2, <1>3, <1>6, <1>7, <1>8

(***************************************************************************)
(* sendText sends what overtakes nothing.                                   *)
(***************************************************************************)
LEMMA SendTextSparesUnseen ==
  ASSUME NEW n \in Nat, TypedUpTo(n), RegistryInv, UnseenInv,
         NEW s \in Sessions, SendText(s), UNCHANGED <<link, unseen>>
  PROVE  UnseenInv'
<1>1. PICK T \in Seq(StepsUpTo(n)) : T = todo[s]
  BY DEF TypedUpTo
<1>2. /\ T # <<>> /\ T[1].op = "send" /\ 1 \in DOMAIN T /\ Head(T) = T[1]
      /\ UNCHANGED <<db, clients, owed, session, requests>>
  BY <1>1 DEF SendText, vars
<1>3. PICK m : m = T[1].msg
  OBVIOUS
<1>4. T[1].to \subseteq Sessions
  <2>1. T[1] \in StepsUpTo(n)
    BY <1>2
  <2>2. QED
    BY <1>2, <2>1 DEF StepsUpTo
<1>5. PICK x \in T[1].to :
        /\ todo' = [todo EXCEPT ![s] = Send(T[1].to \ {x}, m) \o Tail(T)]
        /\ outbox' = IF session[x] = "open"
                     THEN [outbox EXCEPT ![x] = Append(outbox[x], m)] ELSE outbox
  BY <1>1, <1>2, <1>3 DEF SendText, Continue
<1>6. PICK q \in Seq(MessagesUpTo(n)) : q = outbox[x]
  BY <1>4 DEF TypedUpTo
<1>7. /\ DOMAIN q = 1..Len(q) /\ DOMAIN Append(q, m) = 1..(Len(q) + 1) /\ Len(q) \in Nat
      /\ \A i \in DOMAIN q : i \in DOMAIN Append(q, m) /\ Append(q, m)[i] = q[i]
      /\ Len(q) + 1 \in DOMAIN Append(q, m) /\ Append(q, m)[Len(q) + 1] = m
  OBVIOUS
<1>8. /\ \A y \in Sessions : y # x => outbox'[y] = outbox[y]
      /\ session[x] # "open" => outbox'[x] = q
      /\ session[x] = "open" => outbox'[x] = Append(q, m)
  BY <1>4, <1>5, <1>6 DEF TypedUpTo
<1>9. \A y \in Sessions, r \in RoomIds : \A k : OnItsWay(y, r, k) => OnItsWay(y, r, k)'
  BY <1>6, <1>7, <1>8 DEF OnItsWay
<1>10. PICK E : /\ Follows(T, E, todo'[s])
                /\ \A e \in E : e.op = "send" /\ e.to = T[1].to \ {x} /\ e.msg = m
                /\ T[1].to \ {x} # {} => E # {}
  <2>1. CASE T[1].to \ {x} = {}
    <3>1. Send(T[1].to \ {x}, m) \o Tail(T) = Tail(T)
      BY <1>2, <2>1 DEF Send
    <3>2. Follows(T, {}, todo'[s])
      BY <1>1, <1>2, <1>5, <3>1, FirstDone DEF TypedUpTo
    <3>3. QED
      BY <2>1, <3>2
  <2>2. CASE T[1].to \ {x} # {}
    <3>1. PICK e : e = [op |-> "send", to |-> T[1].to \ {x}, msg |-> m]
      OBVIOUS
    <3>2. todo'[s] = <<e>> \o Tail(T)
      BY <1>5, <2>2, <3>1 DEF Send, TypedUpTo
    <3>3. Follows(T, {e}, todo'[s])
      BY <1>2, <3>2, FirstReplaced
    <3>4. e.op = "send" /\ e.to = T[1].to \ {x} /\ e.msg = m
      BY <3>1
    <3>5. QED
      BY <3>3, <3>4
  <2>3. QED
    BY <2>1, <2>2
<1>11. \A t \in Sessions : t # s => todo'[t] = todo[t]
  BY <1>5 DEF TypedUpTo
<1>12. ASSUME NEW u \in Usernames, NEW r \in RoomIds, NEW y \in T[1].to, link[u] = y,
              NEW a \in Numbers(m, r), NEW k \in Missed(u, r), k < a
       PROVE  k \in Numbers(m, r) \/ OnItsWay(y, r, k)
  BY <1>1, <1>2, <1>3, <1>12 DEF UnseenInv, StepsSpareUnseen
<1>13. ~Overtake(E)
  <2>1. SUFFICES ASSUME NEW e \in E, NEW u \in Usernames, NEW r \in RoomIds,
                        NEW y \in e.to, link[u] = y, NEW a \in Numbers(e.msg, r),
                        NEW k \in Missed(u, r), k < a
                 PROVE  k \in Numbers(e.msg, r) \/ OnItsWay(y, r, k)'
    BY DEF Overtake
  <2>2. e.msg = m /\ y \in T[1].to /\ y \in Sessions
    BY <1>4, <1>10
  <2>3. k \in Numbers(m, r) \/ OnItsWay(y, r, k)
    BY <1>12, <2>1, <2>2
  <2>4. QED
    BY <1>9, <2>2, <2>3
<1>14. ASSUME NEW c \in clients, NEW k, c.session \in T[1].to,
              k \in Numbers(T[1].msg, c.roomId)
       PROVE  \/ OnItsWay(c.session, c.roomId, k)'
              \/ \E e \in E : c.session \in e.to /\ k \in Numbers(e.msg, c.roomId)
  <2>1. CASE c.session = x
    <3>1. outbox'[x] = Append(q, m)
      BY <1>8, <2>1 DEF RegistryInv, ClientsAreMembers
    <3>2. k \in Numbers(outbox'[x][Len(q) + 1], c.roomId)
      BY <1>3, <1>7, <1>14, <3>1
    <3>3. QED
      BY <1>7, <2>1, <3>1, <3>2 DEF OnItsWay
  <2>2. CASE c.session # x
    BY <1>3, <1>10, <1>14, <2>2
  <2>3. QED
    BY <2>1, <2>2
<1>15. Reach(s, T, E)
  BY <1>2, <1>14 DEF Reach
<1>16. \A e \in E : e.op = "send"
  BY <1>10
<1>17. /\ OneOwner' /\ UnseenIsOwed' /\ AcksSpareUnseen'
       /\ StepsSpareUnseen' /\ LookUpsAreOwn' /\ UnseenArrives'
  BY <1>1, <1>2, <1>9, <1>10, <1>11, <1>13, <1>15, <1>16, ReplacedSparesUnseen
<1>18. WaySparesUnseen'
  <2>1. \A v, r : Missed(v, r)' = Missed(v, r)
    BY DEF Missed
  <2>2. SUFFICES ASSUME NEW v \in Usernames, link[v] # NoLink, NEW r \in RoomIds,
                        NEW j \in DOMAIN outbox'[link[v]],
                        NEW a \in Numbers(outbox'[link[v]][j], r),
                        NEW k \in Missed(v, r), k < a
                 PROVE  \E i \in DOMAIN outbox'[link[v]] :
                          i <= j /\ k \in Numbers(outbox'[link[v]][i], r)
    BY <2>1 DEF WaySparesUnseen
  <2>3. PICK y \in Sessions : y = link[v]
    BY <2>2 DEF TypedUpTo
  <2>4. CASE outbox'[y] = outbox[y]
    BY <2>2, <2>3, <2>4 DEF UnseenInv, WaySparesUnseen
  <2>5. CASE outbox'[y] # outbox[y]
    <3>1. y = x /\ outbox'[y] = Append(q, m)
      BY <1>6, <1>8, <2>5
    <3>2. CASE j \in DOMAIN q
      <4>1. outbox[link[v]] = q /\ a \in Numbers(q[j], r)
        BY <1>6, <1>7, <2>2, <2>3, <3>1, <3>2
      <4>2. PICK i \in DOMAIN q : i <= j /\ k \in Numbers(q[i], r)
        BY <2>2, <3>2, <4>1 DEF UnseenInv, WaySparesUnseen
      <4>3. QED
        BY <1>7, <2>3, <3>1, <4>2
    <3>3. CASE j \notin DOMAIN q
      <4>1. j = Len(q) + 1 /\ a \in Numbers(m, r)
        BY <1>7, <2>2, <2>3, <3>1, <3>3
      <4>2. k \in Numbers(m, r) \/ OnItsWay(y, r, k)
        BY <1>12, <2>2, <2>3, <3>1, <4>1
      <4>3. CASE k \in Numbers(m, r)
        BY <1>7, <2>3, <3>1, <4>1, <4>3
      <4>4. CASE OnItsWay(y, r, k)
        <5>1. PICK i \in DOMAIN q : k \in Numbers(q[i], r)
          BY <1>6, <3>1, <4>4 DEF OnItsWay
        <5>2. i <= j
          BY <1>7, <4>1
        <5>3. QED
          BY <1>7, <2>3, <3>1, <5>1, <5>2
      <4>5. QED
        BY <4>2, <4>3, <4>4
    <3>4. QED
      BY <3>2, <3>3
  <2>6. QED
    BY <2>4, <2>5
<1>19. QED
  BY <1>17, <1>18 DEF UnseenInv

(***************************************************************************)
(* What is looked up for a session is all that its user has not seen.        *)
(***************************************************************************)
LEMMA LookUpFindsUnseen ==
  ASSUME RegistryInv, BufferedUntilAcked, UnseenInv, NEW c \in clients,
         NEW u \in Usernames, Owns(u, c.session), NEW k \in Missed(u, c.roomId)
  PROVE  k \in PendingMessages(c.peerId)
<1>1. /\ c.session \in Sessions /\ c.username \in Usernames /\ c.roomId \in RoomIds
      /\ c.peerId \in DOMAIN db.members
      /\ db.members[c.peerId].room_id = c.roomId
      /\ db.members[c.peerId].username = c.username
  BY DEF RegistryInv, ClientsAreMembers, TypeOK, RamTypeOK, ClientInfo
<1>2. u = c.username
  BY <1>1 DEF UnseenInv, OneOwner, Owns
<1>3. PICK p \in Namesakes(c.roomId, u) : k \in owed[p]
  BY <1>1 DEF UnseenInv, UnseenIsOwed
<1>4. p = c.peerId
  BY <1>1, <1>2 DEF Namesakes, FindMembersByRoom, RegistryInv, UniqueUsernames
<1>5. QED
  BY <1>1, <1>3, <1>4 DEF BufferedUntilAcked

(***************************************************************************)
(* getPendingMessages finds what the member has not seen, and that is sent.  *)
(***************************************************************************)
LEMMA SendPendingSparesUnseen ==
  ASSUME NEW n \in Nat, TypedUpTo(n), RegistryInv, BufferedUntilAcked, UnseenInv,
         NEW s \in Sessions, SendPending(s), UNCHANGED <<link, unseen>>
  PROVE  UnseenInv'
<1>1. PICK T \in Seq(StepsUpTo(n)) : T = todo[s]
  BY DEF TypedUpTo
<1>2. /\ T # <<>> /\ T[1].op = "pending" /\ 1 \in DOMAIN T /\ Head(T) = T[1]
      /\ UNCHANGED <<db, clients, owed, requests, outbox>>
  BY <1>1 DEF SendPending, vars
<1>3. PICK c \in clients : c.session = s /\ c.roomId = T[1].roomId /\ c.peerId = T[1].peerId
  BY <1>1, <1>2 DEF UnseenInv, LookUpsAreOwn
<1>4. PICK pending : pending = PendingMessages(c.peerId)
  OBVIOUS
<1>5. PICK m : m = BufferedMessages(c.roomId, pending)
  OBVIOUS
<1>6. todo' = [todo EXCEPT ![s] =
                 (IF pending = {} THEN <<>> ELSE Send({s}, m)) \o Tail(T)]
  BY <1>1, <1>2, <1>3, <1>4, <1>5 DEF SendPending, Continue
<1>7. Numbers(m, c.roomId) = pending /\ \A r : r # c.roomId => Numbers(m, r) = {}
  BY <1>5 DEF BufferedMessages, Numbers
<1>8. PICK E : /\ Follows(T, E, todo'[s])
               /\ \A e \in E : e.op = "send" /\ e.to = {s} /\ e.msg = m
               /\ pending # {} => E # {}
  <2>1. CASE pending = {}
    <3>1. <<>> \o Tail(T) = Tail(T)
      BY <1>2
    <3>2. Follows(T, {}, todo'[s])
      BY <1>2, <1>6, <2>1, <3>1, FirstDone DEF TypedUpTo
    <3>3. QED
      BY <2>1, <3>2
  <2>2. CASE pending # {}
    <3>1. PICK e : e = [op |-> "send", to |-> {s}, msg |-> m]
      OBVIOUS
    <3>2. todo'[s] = <<e>> \o Tail(T)
      BY <1>6, <2>2, <3>1 DEF Send, TypedUpTo
    <3>3. Follows(T, {e}, todo'[s])
      BY <1>2, <3>2, FirstReplaced
    <3>4. e.op = "send" /\ e.to = {s} /\ e.msg = m
      BY <3>1
    <3>5. QED
      BY <3>3, <3>4
  <2>3. QED
    BY <2>1, <2>2
<1>9. \A t \in Sessions : t # s => todo'[t] = todo[t]
  BY <1>6 DEF TypedUpTo
<1>10. \A x \in Sessions, r \in RoomIds : \A k : OnItsWay(x, r, k) => OnItsWay(x, r, k)'
  BY <1>2 DEF OnItsWay
<1>11. \A u \in Usernames : Owns(u, s) => Missed(u, c.roomId) \subseteq pending
  BY <1>3, <1>4, LookUpFindsUnseen
<1>12. ~Overtake(E)
  <2>1. SUFFICES ASSUME NEW e \in E, NEW u \in Usernames, NEW r \in RoomIds,
                        NEW x \in e.to, link[u] = x, NEW a \in Numbers(e.msg, r),
                        NEW k \in Missed(u, r)
                 PROVE  k \in Numbers(e.msg, r)
    BY DEF Overtake
  <2>2. e.msg = m /\ x = s /\ Owns(u, s)
    BY <1>8, <2>1 DEF Owns
  <2>3. r = c.roomId
    BY <1>7, <2>1, <2>2
  <2>4. QED
    BY <1>7, <1>11, <2>1, <2>2, <2>3
<1>13. Reach(s, T, E)
  <2>1. SUFFICES ASSUME NEW d \in clients, d.session = s, d.roomId = T[1].roomId,
                        NEW k \in Missed(d.username, d.roomId)
                 PROVE  \E e \in E : s \in e.to /\ k \in Numbers(e.msg, d.roomId)
    BY <1>2 DEF Reach
  <2>2. d.username \in Usernames /\ Owns(d.username, s) /\ d.roomId = c.roomId
    BY <1>3, <2>1 DEF Owns, RegistryInv, TypeOK, RamTypeOK, ClientInfo
  <2>3. k \in pending
    BY <1>11, <2>1, <2>2
  <2>4. PICK e \in E : TRUE
    BY <1>8, <2>3
  <2>5. QED
    BY <1>7, <1>8, <2>2, <2>3, <2>4
<1>14. \A e \in E : e.op = "send"
  BY <1>8
<1>15. /\ OneOwner' /\ UnseenIsOwed' /\ AcksSpareUnseen'
       /\ StepsSpareUnseen' /\ LookUpsAreOwn' /\ UnseenArrives'
  BY <1>1, <1>2, <1>8, <1>9, <1>10, <1>12, <1>13, <1>14, ReplacedSparesUnseen
<1>16. WaySparesUnseen'
  <2>1. \A v, r : Missed(v, r)' = Missed(v, r)
    BY DEF Missed
  <2>2. QED
    BY <1>2, <2>1 DEF UnseenInv, WaySparesUnseen
<1>17. QED
  BY <1>15, <1>16 DEF UnseenInv

-----------------------------------------------------------------------------
(* A handler begins.                                                       *)

(***************************************************************************)
(* What is unseen now was unseen before, or has just been sent to a member  *)
(* of that name.                                                           *)
(***************************************************************************)
LEMMA NoteSentMeans ==
  ASSUME NoteSent, NEW u, NEW r, NEW k \in Missed(u, r)'
  PROVE  /\ \E p \in DOMAIN db'.members :
              db'.members[p].username = u /\ db'.members[p].room_id = r
         /\ \/ k \in Missed(u, r)
            \/ /\ k = db'.nextSeq
               /\ \E p \in DOMAIN db'.members :
                    /\ db'.members[p].username = u /\ db'.members[p].room_id = r
                    /\ owed'[p] \ owed[p] # {}
<1>1. PICK x \in unseen' : x[1] = u /\ x[2] = r /\ x[3] = k
  BY DEF Missed
<1>2. CASE /\ x \in unseen
           /\ \E p \in DOMAIN db'.members :
                db'.members[p].username = x[1] /\ db'.members[p].room_id = x[2]
  <2>1. k \in Missed(u, r)
    BY <1>1, <1>2 DEF Missed
  <2>2. QED
    BY <1>1, <1>2, <2>1
<1>3. CASE \E p \in DOMAIN db'.members :
             /\ owed'[p] \ owed[p] # {}
             /\ x = <<db'.members[p].username, db'.members[p].room_id, db'.nextSeq>>
  BY <1>1, <1>3
<1>4. QED
  BY <1>1, <1>2, <1>3 DEF NoteSent

(***************************************************************************)
(* To read a request, or to lose what was on its way, makes no session       *)
(* change hands and overtakes nothing.                                      *)
(***************************************************************************)
LEMMA ReadingSparesUnseen ==
  ASSUME NEW n \in Nat, TypedUpTo(n), UnseenInv, UNCHANGED link,
         \A x \in Sessions : \A i \in DOMAIN requests'[x] :
           \E j \in DOMAIN requests[x] : requests'[x][i] = requests[x][j],
         \A c \in clients' \ clients : Owns(c.username, c.session),
         \A x \in Sessions : outbox'[x] = outbox[x] \/ outbox'[x] = <<>>,
         \A v \in Usernames, r \in RoomIds : \A k \in Missed(v, r)' :
           k \in Missed(v, r) \/ k = n + 1
  PROVE  OneOwner' /\ AcksSpareUnseen' /\ WaySparesUnseen'
<1>1. ASSUME NEW v \in Usernames, NEW x \in Sessions, Owns(v, x)'
      PROVE  Owns(v, x)
  <2>1. CASE link'[v] = x
    BY <2>1 DEF Owns
  <2>2. CASE \E c \in clients' : c.session = x /\ c.username = v
    <3>1. PICK c \in clients' : c.session = x /\ c.username = v
      BY <2>2
    <3>2. CASE c \in clients
      BY <3>1, <3>2 DEF Owns
    <3>3. CASE c \notin clients
      BY <3>1, <3>3
    <3>4. QED
      BY <3>2, <3>3
  <2>3. CASE \E i \in DOMAIN requests'[x] :
               requests'[x][i].type = "join" /\ requests'[x][i].username = v
    BY <2>3 DEF Owns
  <2>4. QED
    BY <1>1, <2>1, <2>2, <2>3 DEF Owns
<1>2. OneOwner'
  BY <1>1 DEF UnseenInv, OneOwner
<1>3. AcksSpareUnseen'
  <2>1. SUFFICES ASSUME NEW v \in Usernames, NEW x \in Sessions, Owns(v, x)',
                        NEW r \in RoomIds, NEW i \in DOMAIN requests'[x],
                        requests'[x][i].type = "ack", requests'[x][i].roomId = r,
                        NEW k \in Missed(v, r)'
                 PROVE  requests'[x][i].upToSeq < k
    BY DEF AcksSpareUnseen
  <2>2. PICK j \in DOMAIN requests[x] : requests'[x][i] = requests[x][j]
    OBVIOUS
  <2>3. CASE k \in Missed(v, r)
    BY <1>1, <2>1, <2>2, <2>3 DEF UnseenInv, AcksSpareUnseen
  <2>4. CASE k = n + 1
    <3>1. requests[x][j] \in RequestsUpTo(n)
      BY DEF TypedUpTo
    <3>2. requests[x][j].upToSeq \in 1..n
      BY <2>1, <2>2, <3>1 DEF RequestsUpTo
    <3>3. QED
      BY <2>2, <2>4, <3>2
  <2>5. QED
    BY <2>3, <2>4
<1>4. WaySparesUnseen'
  <2>1. SUFFICES ASSUME NEW v \in Usernames, link[v] # NoLink, NEW r \in RoomIds,
                        NEW j \in DOMAIN outbox'[link[v]],
                        NEW a \in Numbers(outbox'[link[v]][j], r),
                        NEW k \in Missed(v, r)', k < a
                 PROVE  \E i \in DOMAIN outbox'[link[v]] :
                          i <= j /\ k \in Numbers(outbox'[link[v]][i], r)
    BY DEF WaySparesUnseen
  <2>2. PICK x \in Sessions : x = link[v]
    BY <2>1 DEF TypedUpTo
  <2>3. outbox'[x] = outbox[x]
    BY <2>1, <2>2
  <2>4. outbox[x][j] \in MessagesUpTo(n) /\ j \in DOMAIN outbox[x]
    BY <2>1, <2>2, <2>3 DEF TypedUpTo
  <2>5. a \in 1..n
    BY <2>1, <2>2, <2>3, <2>4, NumbersMean
  <2>6. k \in Missed(v, r)
    BY <2>1, <2>5
  <2>7. QED
    BY <2>1, <2>2, <2>3, <2>4, <2>6 DEF UnseenInv, WaySparesUnseen
<1>5. QED
  BY <1>2, <1>3, <1>4

\* A step that sends no number, or looks up what is buffered for the member that
\* s has joined as.
Numberless(s, step) ==
  \/ step.op = "send" /\ \A r \in RoomIds : Numbers(step.msg, r) = {}
  \/ /\ step.op = "pending"
     /\ \E c \in clients :
          c.session = s /\ c.roomId = step.roomId /\ c.peerId = step.peerId

(***************************************************************************)
(* A handler that begins with such steps spares what is unseen, if it looks  *)
(* that up for those who join.                                              *)
(***************************************************************************)
LEMMA NumberlessSparesUnseen ==
  ASSUME UnseenInv, NEW s \in Sessions, UNCHANGED link,
         RegistryInv, RegistryInv',
         \A t \in Sessions : todo[t] = <<>>,
         \A t \in Sessions : t # s => todo'[t] = <<>>,
         \A v \in Usernames, r \in RoomIds : Missed(v, r)' \subseteq Missed(v, r),
         \A c \in clients : c \in clients' => outbox'[c.session] = outbox[c.session],
         \A i \in DOMAIN todo'[s] : Numberless(s, todo[s][i])',
         \A c \in clients' \ clients :
           \/ Missed(c.username, c.roomId)' = {}
           \/ ToBeLookedUp(c.session, c.roomId, c.peerId)'
  PROVE  StepsSpareUnseen' /\ LookUpsAreOwn' /\ UnseenArrives'
<1>1. ASSUME NEW t \in Sessions, NEW i \in DOMAIN todo'[t]
      PROVE  t = s /\ Numberless(s, todo[s][i])'
  BY <1>1
<1>2. StepsSpareUnseen'
  BY <1>1 DEF StepsSpareUnseen, Numberless
<1>3. LookUpsAreOwn'
  BY <1>1 DEF LookUpsAreOwn, Numberless
<1>4. UnseenArrives'
  <2>1. SUFFICES ASSUME NEW c \in clients', link[c.username] = c.session,
                        NEW k \in Missed(c.username, c.roomId)'
                 PROVE  \/ OnItsWay(c.session, c.roomId, k)'
                        \/ ToBeSent(c.session, c.roomId, k)'
                        \/ ToBeLookedUp(c.session, c.roomId, c.peerId)'
    BY DEF UnseenArrives
  <2>2. CASE c \in clients
    <3>1. c.username \in Usernames /\ c.session \in Sessions /\ c.roomId \in RoomIds
      BY <2>2 DEF RegistryInv, TypeOK, RamTypeOK, ClientInfo
    <3>2. k \in Missed(c.username, c.roomId)
      BY <2>1, <3>1
    <3>3. ~ToBeSent(c.session, c.roomId, k)
      BY DEF ToBeSent
    <3>4. ~ToBeLookedUp(c.session, c.roomId, c.peerId)
      BY <3>1 DEF ToBeLookedUp
    <3>5. OnItsWay(c.session, c.roomId, k)
      BY <2>1, <2>2, <3>2, <3>3, <3>4 DEF UnseenInv, UnseenArrives
    <3>6. QED
      BY <2>2, <3>5 DEF OnItsWay
  <2>3. CASE c \notin clients
    BY <2>1, <2>3
  <2>4. QED
    BY <2>2, <2>3
<1>5. QED
  BY <1>2, <1>3, <1>4

-----------------------------------------------------------------------------
(* The requests.                                                           *)

(***************************************************************************)
(* A join changes nothing, or admits one member, who owes nothing new.       *)
(***************************************************************************)
LEMMA JoinTables ==
  ASSUME RegistryInv, NEW s \in Sessions, NEW req, req.roomId \in RoomIds,
         req.username \in Usernames, req.roomType \in RequestedTypes, HandleJoin(s, req)
  PROVE  \/ UNCHANGED <<db, clients, owed>>
         \/ \E p, type :
              /\ Admits(s, req.roomId, req.username, type, p)
              /\ \A q \in DOMAIN db.members : owed'[q] = owed[q]
              /\ \A q \in DOMAIN db'.members : owed'[q] \subseteq owed[q]
<1> DEFINE r == req.roomId
           u == req.username
           t == req.roomType
<1>1. CASE UNCHANGED registryVars
  BY <1>1 DEF registryVars
<1>2. CASE JoinRefused(s, r, u, t)
  BY <1>2, RefusedChangesNothing
<1>3. CASE JoinReconnect(s, r, u, t)
  <2>1. owed' = owed
    BY <1>3 DEF JoinReconnect
  <2>2. PICK p \in PeerIds : Admits(s, r, u, JoinedType(r, t), p)
    BY <1>3, ReconnectAdmits
  <2>3. QED
    BY <2>1, <2>2
<1>4. CASE JoinNew(s, r, u, t)
  <2>1. /\ owed' = [owed EXCEPT ![nextPeerSeq] = {}] /\ DOMAIN owed = PeerIds
        /\ DOMAIN db.members \subseteq PeerIds
        /\ \A q \in DOMAIN db.members : q < nextPeerSeq
    BY <1>4 DEF JoinNew, RegistryInv, PeerIdsFresh, TypeOK, RamTypeOK, IsDb, IsTable
  <2>2. \A q \in DOMAIN db.members : q # nextPeerSeq
    BY <2>1 DEF PeerIds, RegistryInv, TypeOK, RamTypeOK
  <2>3. /\ \A q \in DOMAIN db.members : owed'[q] = owed[q]
        /\ \A q \in PeerIds : owed'[q] \subseteq owed[q]
    BY <2>1, <2>2
  <2>4. PICK p \in PeerIds : Admits(s, r, u, JoinedType(r, t), p)
    BY <1>4, NewAdmits
  <2>5. DOMAIN db'.members \subseteq PeerIds
    BY <2>1, <2>4 DEF Admits
  <2>6. QED
    BY <2>3, <2>4, <2>5
<1>5. QED
  BY <1>1, <1>2, <1>3, <1>4 DEF HandleJoin, Refuse

(***************************************************************************)
(* What nobody owes anew is unseen only if it was.                          *)
(***************************************************************************)
LEMMA NothingNewMissed ==
  ASSUME NoteSent, \A q \in DOMAIN db'.members : owed'[q] \subseteq owed[q]
  PROVE  \A v, r : Missed(v, r)' \subseteq Missed(v, r)
<1>1. \A q \in DOMAIN db'.members : owed'[q] \ owed[q] = {}
  OBVIOUS
<1>2. ASSUME NEW v, NEW r, NEW k \in Missed(v, r)'
      PROVE  k \in Missed(v, r)
  BY <1>1, NoteSentMeans
<1>3. QED
  BY <1>2

(***************************************************************************)
(* In a join, members go on to owe what they owed.                          *)
(***************************************************************************)
LEMMA JoinSparesOwed ==
  ASSUME RegistryInv, UnseenInv, NoteSent, NEW s \in Sessions, NEW req,
         req.roomId \in RoomIds, req.username \in Usernames,
         req.roomType \in RequestedTypes, HandleJoin(s, req)
  PROVE  /\ \A v, r : Missed(v, r)' \subseteq Missed(v, r)
         /\ UnseenIsOwed'
<1>1. CASE UNCHANGED <<db, clients, owed>>
  <2>1. \A v, r : Missed(v, r)' \subseteq Missed(v, r)
    BY <1>1, NothingNewMissed
  <2>2. QED
    BY <1>1, <2>1 DEF UnseenInv, UnseenIsOwed, Namesakes, FindMembersByRoom
<1>2. ASSUME NEW p, NEW type, Admits(s, req.roomId, req.username, type, p),
             \A q \in DOMAIN db.members : owed'[q] = owed[q],
             \A q \in DOMAIN db'.members : owed'[q] \subseteq owed[q]
      PROVE  /\ \A v, r : Missed(v, r)' \subseteq Missed(v, r)
             /\ UnseenIsOwed'
  <2>1. \A v, r : Missed(v, r)' \subseteq Missed(v, r)
    BY <1>2, NothingNewMissed
  <2>2. \A v, r : Namesakes(r, v) \subseteq Namesakes(r, v)'
    BY <1>2 DEF Admits, Namesakes, FindMembersByRoom
  <2>3. \A v, r : \A q \in Namesakes(r, v) : owed'[q] = owed[q]
    BY <1>2 DEF Namesakes, FindMembersByRoom
  <2>4. QED
    BY <2>1, <2>2, <2>3 DEF UnseenInv, UnseenIsOwed
<1>3. QED
  BY <1>1, <1>2, JoinTables

(***************************************************************************)
(* In a leave, the others do; and who leaves is nobody's namesake.           *)
(***************************************************************************)
LEMMA LeaveSparesOwed ==
  ASSUME RegistryInv, UnseenInv, NoteSent, NEW c \in clients, Leave(c)
  PROVE  /\ \A v, r : Missed(v, r)' \subseteq Missed(v, r)
         /\ UnseenIsOwed'
<1>1. /\ DOMAIN db'.members = DOMAIN db.members \ {c.peerId}
      /\ \A q \in DOMAIN db'.members : db'.members[q] = db.members[q]
  BY LeaveTables DEF RegistryInv, TypeOK
<1>2. owed' = [owed EXCEPT ![c.peerId] = {}] /\ DOMAIN owed = PeerIds
      /\ DOMAIN db.members \subseteq PeerIds
  BY DEF Leave, RegistryInv, TypeOK, RamTypeOK, IsDb, IsTable
<1>3. \A q \in DOMAIN db'.members : owed'[q] = owed[q]
  BY <1>1, <1>2
<1>4. \A v, r : Missed(v, r)' \subseteq Missed(v, r)
  BY <1>3, NothingNewMissed
<1>5. ASSUME NEW v \in Usernames, NEW r \in RoomIds, NEW k \in Missed(v, r)'
      PROVE  \E p \in Namesakes(r, v)' : k \in owed'[p]
  <2>1. PICK q \in Namesakes(r, v) : k \in owed[q]
    BY <1>4, <1>5 DEF UnseenInv, UnseenIsOwed
  <2>2. PICK p \in DOMAIN db'.members :
          db'.members[p].username = v /\ db'.members[p].room_id = r
    BY <1>5, NoteSentMeans
  <2>3. q \in DOMAIN db.members /\ db.members[q].username = v /\ db.members[q].room_id = r
    BY <2>1 DEF Namesakes, FindMembersByRoom
  <2>4. p = q
    BY <1>1, <2>2, <2>3 DEF RegistryInv, UniqueUsernames
  <2>5. p \in Namesakes(r, v)'
    BY <2>2 DEF Namesakes, FindMembersByRoom
  <2>6. QED
    BY <1>3, <2>1, <2>2, <2>4, <2>5
<1>6. QED
  BY <1>4, <1>5 DEF UnseenIsOwed

(***************************************************************************)
(* An acknowledgement does not pass over what its user has not seen.         *)
(***************************************************************************)
LEMMA AckSparesOwed ==
  ASSUME NEW n \in Nat, TypedUpTo(n), RegistryInv, UnseenInv, NoteSent, NEW c \in clients,
         NEW i \in DOMAIN requests[c.session], NEW req, req = requests[c.session][i],
         req.type = "ack", req.roomId = c.roomId, Acknowledge(c, req.upToSeq)
  PROVE  /\ \A v, r : Missed(v, r)' \subseteq Missed(v, r)
         /\ UnseenIsOwed'
<1>1. /\ c.session \in Sessions /\ c.username \in Usernames /\ c.roomId \in RoomIds
      /\ c.peerId \in DOMAIN db.members
      /\ db.members[c.peerId].room_id = c.roomId
      /\ db.members[c.peerId].username = c.username
  BY DEF RegistryInv, ClientsAreMembers, TypeOK, RamTypeOK, ClientInfo
<1>2. requests[c.session] \in Seq(RequestsUpTo(n))
  BY <1>1 DEF TypedUpTo
<1>3. req.upToSeq \in Int
  <2>1. req \in RequestsUpTo(n)
    BY <1>2
  <2>2. QED
    BY <2>1 DEF RequestsUpTo
<1>4. /\ DOMAIN db'.members = DOMAIN db.members
      /\ \A q \in DOMAIN db.members :
           /\ db'.members[q].username = db.members[q].username
           /\ db'.members[q].room_id = db.members[q].room_id
  BY <1>3, AcknowledgeTables DEF RegistryInv, TypeOK
<1>5. /\ owed' = [owed EXCEPT ![c.peerId] = {k \in owed[c.peerId] : k > req.upToSeq}]
      /\ DOMAIN owed = PeerIds /\ DOMAIN db.members \subseteq PeerIds
  BY DEF Acknowledge, RegistryInv, TypeOK, RamTypeOK, IsDb, IsTable
<1>6. /\ \A q \in PeerIds : owed'[q] \subseteq owed[q]
      /\ \A q \in PeerIds : q # c.peerId => owed'[q] = owed[q]
      /\ \A k \in owed[c.peerId] : k > req.upToSeq => k \in owed'[c.peerId]
  BY <1>1, <1>5
<1>7. \A v, r : Missed(v, r)' \subseteq Missed(v, r)
  BY <1>4, <1>5, <1>6, NothingNewMissed
<1>8. \A v, r : Namesakes(r, v)' = Namesakes(r, v)
  BY <1>4 DEF Namesakes, FindMembersByRoom
<1>9. ASSUME NEW v \in Usernames, NEW r \in RoomIds, NEW k \in Missed(v, r)'
      PROVE  \E p \in Namesakes(r, v)' : k \in owed'[p]
  <2>1. k \in Missed(v, r)
    BY <1>7
  <2>2. PICK q \in Namesakes(r, v) : k \in owed[q]
    BY <2>1 DEF UnseenInv, UnseenIsOwed
  <2>3. q \in DOMAIN db.members /\ db.members[q].username = v /\ db.members[q].room_id = r
    BY <2>2 DEF Namesakes, FindMembersByRoom
  <2>4. k \in owed'[q]
    <3>1. CASE q # c.peerId
      BY <1>5, <1>6, <2>2, <2>3, <3>1
    <3>2. CASE q = c.peerId
      <4>1. v = c.username /\ r = c.roomId
        BY <1>1, <2>3, <3>2
      <4>2. Owns(v, c.session)
        BY <4>1 DEF Owns
      <4>3. req.upToSeq < k
        BY <1>1, <2>1, <4>1, <4>2 DEF UnseenInv, AcksSpareUnseen
      <4>4. k \in Int
        <5>1. k \in Missed(v, r) => k \in 1..n
          BY MissedMeans, Zenon
        <5>2. QED
          BY <2>1, <5>1
      <4>5. QED
        BY <1>3, <1>6, <2>2, <3>2, <4>3, <4>4
    <3>3. QED
      BY <3>1, <3>2
  <2>5. QED
    BY <1>8, <2>2, <2>4
<1>10. QED
  BY <1>7, <1>9 DEF UnseenIsOwed

(***************************************************************************)
(* A group message adds its number to what the members of its room owe.      *)
(***************************************************************************)
LEMMA PostSparesOwed ==
  ASSUME NEW n \in Nat, n = db.nextSeq, RegistryInv, UnseenInv, NoteSent,
         NEW c \in clients, Broadcast(c)
  PROVE  /\ \A v, r : \A k \in Missed(v, r)' :
              \/ k \in Missed(v, r)
              \/ /\ k = n + 1 /\ r = c.roomId
                 /\ \E p \in FindMembersByRoom(db, r) : db.members[p].username = v
         /\ UnseenIsOwed'
<1>1. /\ db'.members = db.members /\ db'.nextSeq = n + 1
      /\ DOMAIN db.members \subseteq PeerIds
  BY DEF Broadcast, SaveGroupMessage, RegistryInv, TypeOK, IsDb, IsTable
<1>2. Owe(c.roomId, n + 1)
  BY DEF Broadcast
<1>3. \A q \in PeerIds :
        /\ owed[q] \subseteq owed'[q] /\ owed'[q] \subseteq owed[q] \cup {n + 1}
        /\ owed'[q] # owed[q] => q \in FindMembersByRoom(db, c.roomId)
  BY <1>2 DEF Owe
<1>4. ASSUME NEW v, NEW r, NEW k \in Missed(v, r)', k \notin Missed(v, r)
      PROVE  /\ k = n + 1
             /\ \E p \in DOMAIN db.members :
                  /\ db.members[p].username = v /\ db.members[p].room_id = r
                  /\ owed'[p] \ owed[p] # {}
  BY <1>1, <1>4, NoteSentMeans
<1>5. ASSUME NEW v, NEW r, NEW k \in Missed(v, r)', k \notin Missed(v, r)
      PROVE  /\ k = n + 1 /\ r = c.roomId
             /\ \E p \in FindMembersByRoom(db, r) : db.members[p].username = v
  <2>1. PICK p \in DOMAIN db.members :
          /\ db.members[p].username = v /\ db.members[p].room_id = r
          /\ owed'[p] \ owed[p] # {}
    BY <1>4, <1>5
  <2>2. p \in FindMembersByRoom(db, c.roomId)
    BY <1>1, <1>3, <2>1
  <2>3. QED
    BY <1>4, <1>5, <2>1, <2>2 DEF FindMembersByRoom
<1>6. \A v, r : Namesakes(r, v)' = Namesakes(r, v)
  BY <1>1 DEF Namesakes, FindMembersByRoom
<1>7. ASSUME NEW v \in Usernames, NEW r \in RoomIds, NEW k \in Missed(v, r)'
      PROVE  \E p \in Namesakes(r, v)' : k \in owed'[p]
  <2>1. CASE k \in Missed(v, r)
    <3>1. PICK q \in Namesakes(r, v) : k \in owed[q]
      BY <2>1 DEF UnseenInv, UnseenIsOwed
    <3>2. q \in PeerIds
      BY <1>1, <3>1 DEF Namesakes, FindMembersByRoom
    <3>3. QED
      BY <1>3, <1>6, <3>1, <3>2
  <2>2. CASE k \notin Missed(v, r)
    <3>1. PICK p \in DOMAIN db.members :
            /\ db.members[p].username = v /\ db.members[p].room_id = r
            /\ owed'[p] \ owed[p] # {}
      BY <1>4, <1>7, <2>2
    <3>2. k = n + 1
      BY <1>4, <1>7, <2>2
    <3>3. p \in Namesakes(r, v) /\ n + 1 \in owed'[p]
      BY <1>1, <1>3, <3>1 DEF Namesakes, FindMembersByRoom
    <3>4. QED
      BY <1>6, <3>2, <3>3
  <2>3. QED
    BY <2>1, <2>2
<1>8. QED
  BY <1>5, <1>7 DEF UnseenIsOwed

(***************************************************************************)
(* Nobody misses a message of a room that is not a group.                   *)
(***************************************************************************)
LEMMA MissedInGroups ==
  ASSUME RegistryInv', BufferedUntilAcked', UnseenIsOwed',
         NEW c \in clients', c.roomType # "group"
  PROVE  Missed(c.username, c.roomId)' = {}
<1>1. /\ c.username \in Usernames /\ c.roomId \in RoomIds
      /\ db'.rooms[c.roomId] = c.roomType
  BY DEF RegistryInv, ClientsAreMembers, TypeOK, RamTypeOK, ClientInfo
<1>2. SUFFICES ASSUME NEW k \in Missed(c.username, c.roomId)'
               PROVE  FALSE
  OBVIOUS
<1>3. PICK p \in Namesakes(c.roomId, c.username)' : k \in owed'[p]
  BY <1>1 DEF UnseenIsOwed
<1>4. p \in DOMAIN db'.members /\ db'.members[p].room_id = c.roomId
  BY DEF Namesakes, FindMembersByRoom
<1>5. k \in PendingMessages(p)'
  BY <1>3, <1>4 DEF BufferedUntilAcked
<1>6. k \in DOMAIN db'.messages /\ db'.messages[k].room_id = c.roomId
  BY <1>4, <1>5 DEF PendingMessages, GetMessagesAfter, MessagesOfRoom
<1>7. QED
  BY <1>1, <1>6 DEF RegistryInv, StoreConsistent, MessagesHaveRooms

(***************************************************************************)
(* A join to a group room looks up what its user has not seen.               *)
(***************************************************************************)
LEMMA JoinSparesUnseen ==
  ASSUME NEW n \in Nat, TypedUpTo(n), TypedUpTo(n)', RegistryInv, RegistryInv',
         BufferedUntilAcked', UnseenInv, NoteSent,
         NEW s \in Sessions, session[s] = "open", UNCHANGED <<session, link, outbox>>,
         \A t \in Sessions : todo[t] = <<>>,
         \A t \in Sessions : t # s => todo'[t] = <<>>,
         NEW req, req.roomId \in RoomIds, req.username \in Usernames,
         req.roomType \in RequestedTypes, HandleJoin(s, req), Owns(req.username, s)
  PROVE  /\ \A v, r : Missed(v, r)' \subseteq Missed(v, r)
         /\ \A c \in clients' \ clients : Owns(c.username, c.session)
         /\ UnseenIsOwed' /\ StepsSpareUnseen' /\ LookUpsAreOwn' /\ UnseenArrives'
<1>1. (\A v, r : Missed(v, r)' \subseteq Missed(v, r)) /\ UnseenIsOwed'
  BY JoinSparesOwed
<1>2. /\ \A c \in clients' \ clients :
           c.session = s /\ c.username = req.username /\ c.roomId = req.roomId
      /\ \A c, d \in clients' \ clients : c = d
  <2>1. CASE UNCHANGED <<db, clients, owed>>
    BY <2>1
  <2>2. ASSUME NEW p, NEW type, Admits(s, req.roomId, req.username, type, p)
        PROVE  /\ \A c \in clients' \ clients :
                    c.session = s /\ c.username = req.username /\ c.roomId = req.roomId
               /\ \A c, d \in clients' \ clients : c = d
    BY <2>2 DEF Admits
  <2>3. QED
    BY <2>1, <2>2, JoinTables
<1>3. todo'[s] \in Seq(StepsUpTo(n))
  BY DEF TypedUpTo
<1>4. \/ Plain(todo'[s]) /\ clients' \subseteq clients
      \/ \E c \in clients' \ clients :
           \/ Plain(todo'[s]) /\ c.roomType # "group"
           \/ BeforeJoined(s)' /\ LookUp(req.roomId, c.peerId) = <<todo'[s][2]>>
  BY <1>3, JoinInOrder, Zenon
<1>5. SUFFICES /\ \A i \in DOMAIN todo'[s] : Numberless(s, todo[s][i])'
               /\ \A c \in clients' \ clients :
                    \/ Missed(c.username, c.roomId)' = {}
                    \/ ToBeLookedUp(c.session, c.roomId, c.peerId)'
  <2>1. \A c \in clients : c \in clients' => outbox'[c.session] = outbox[c.session]
    OBVIOUS
  <2>2. StepsSpareUnseen' /\ LookUpsAreOwn' /\ UnseenArrives'
    BY <1>1, <1>5, <2>1, NumberlessSparesUnseen
  <2>3. QED
    BY <1>1, <1>2, <2>2
<1>6. CASE Plain(todo'[s]) /\ clients' \subseteq clients
  BY <1>6 DEF Plain, Numberless
<1>7. ASSUME NEW c \in clients' \ clients, Plain(todo'[s]), c.roomType # "group"
      PROVE  /\ \A i \in DOMAIN todo'[s] : Numberless(s, todo[s][i])'
             /\ \A d \in clients' \ clients : Missed(d.username, d.roomId)' = {}
  <2>1. Missed(c.username, c.roomId)' = {}
    BY <1>1, <1>7, MissedInGroups
  <2>2. QED
    BY <1>2, <1>7, <2>1 DEF Plain, Numberless
<1>8. ASSUME NEW c \in clients' \ clients, BeforeJoined(s)',
             LookUp(req.roomId, c.peerId) = <<todo'[s][2]>>
      PROVE  /\ \A i \in DOMAIN todo'[s] : Numberless(s, todo[s][i])'
             /\ \A d \in clients' \ clients : ToBeLookedUp(d.session, d.roomId, d.peerId)'
  <2>1. PICK T \in Seq(StepsUpTo(n)) : T = todo'[s]
    BY <1>3
  <2>2. /\ Len(T) >= 2 /\ T[1].op = "send" /\ Starts(T[1].msg, T[2].roomId)
        /\ Plain(Tail(Tail(T)))
    BY <1>8, <2>1 DEF BeforeJoined, SendsTo
  <2>3. T[2] = [op |-> "pending", roomId |-> req.roomId, peerId |-> c.peerId]
    BY <1>8, <2>1 DEF LookUp
  <2>4. \A r : Numbers(T[1].msg, r) = {}
    BY <2>2 DEF Starts, Numbers
  <2>5. c.session = s /\ c.roomId = req.roomId
    BY <1>2
  <2>6. /\ T[2].op = "pending" /\ T[2].roomId = c.roomId /\ T[2].peerId = c.peerId
        /\ 2 \in DOMAIN T
    BY <2>2, <2>3, <2>5
  <2>7. ASSUME NEW i \in DOMAIN T
        PROVE  \/ i = 1 \/ i = 2
               \/ i - 2 \in DOMAIN Tail(Tail(T)) /\ T[i] = Tail(Tail(T))[i - 2]
    <3>1. /\ Tail(T) \in Seq(StepsUpTo(n)) /\ Len(Tail(T)) = Len(T) - 1
          /\ \A j \in 1..(Len(T) - 1) : Tail(T)[j] = T[j + 1]
      BY <2>2
    <3>2. /\ DOMAIN Tail(Tail(T)) = 1..(Len(T) - 2)
          /\ \A j \in 1..(Len(T) - 2) : Tail(Tail(T))[j] = Tail(T)[j + 1]
      BY <2>2, <3>1
    <3>3. i \in 1..Len(T) /\ Len(T) \in Nat
      OBVIOUS
    <3>4. CASE i > 2
      <4>1. i - 2 \in 1..(Len(T) - 2) /\ (i - 2) + 1 \in 1..(Len(T) - 1)
            /\ ((i - 2) + 1) + 1 = i
        BY <3>3, <3>4
      <4>2. QED
        BY <3>1, <3>2, <4>1
    <3>5. QED
      BY <3>3, <3>4
  <2>8. \A i \in DOMAIN T :
          \/ T[i].op = "send" /\ \A r \in RoomIds : Numbers(T[i].msg, r) = {}
          \/ /\ T[i].op = "pending" /\ c.session = s
             /\ c.roomId = T[i].roomId /\ c.peerId = T[i].peerId
    BY <2>2, <2>4, <2>5, <2>6, <2>7 DEF Plain
  <2>9. \A i \in DOMAIN todo'[s] : Numberless(s, todo[s][i])'
    BY <2>1, <2>8 DEF Numberless
  <2>10. ToBeLookedUp(c.session, c.roomId, c.peerId)'
    BY <2>1, <2>5, <2>6 DEF ToBeLookedUp
  <2>11. QED
    BY <1>2, <2>9, <2>10
<1>9. QED
  BY <1>4, <1>6, <1>7, <1>8

(***************************************************************************)
(* A group message goes to all who are in its room, and overtakes nothing.   *)
(***************************************************************************)
LEMMA PostSparesUnseen ==
  ASSUME NEW n \in Nat, n = db.nextSeq, TypedUpTo(n), RegistryInv, OneEntry,
         UnseenInv, NoteSent, NEW s \in Sessions, UNCHANGED <<link, outbox>>,
         \A t \in Sessions : todo[t] = <<>>,
         \A t \in Sessions : t # s => todo'[t] = <<>>,
         NEW c \in clients, c.session = s, Broadcast(c),
         NEW m, m = GroupMessage(c.roomId, c.peerId, db'.nextSeq),
         todo'[s] = Send({s}, m) \o Send(OnlinePeers(c.roomId, c.peerId), m)
  PROVE  /\ \A v, r : \A k \in Missed(v, r)' : k \in Missed(v, r) \/ k = n + 1
         /\ UnseenIsOwed' /\ StepsSpareUnseen' /\ LookUpsAreOwn' /\ UnseenArrives'
<1>1. PICK to : to = OnlinePeers(c.roomId, c.peerId)
  OBVIOUS
<1>2. PICK all : all = todo'[s]
  OBVIOUS
<1>3. SendOnce(all, m, {{s}, to})
  <2>1. s \notin to
    BY <1>1, SenderIsNoPeer
  <2>2. QED
    BY <1>1, <1>2, <2>1, TwoSends
<1>4. /\ \A i \in DOMAIN all :
           all[i].op = "send" /\ all[i].msg = m /\ all[i].to \in {{s}, to}
      /\ \A x \in {s} \cup to : \E i \in DOMAIN all : x \in all[i].to
  <2>1. ASSUME NEW x \in {s} \cup to
        PROVE  \E i \in DOMAIN all : x \in all[i].to
    <3>1. PICK t \in {{s}, to} : x \in t
      OBVIOUS
    <3>2. PICK i \in DOMAIN all : all[i].to = t
      BY <1>3, <3>1 DEF SendOnce
    <3>3. QED
      BY <3>1, <3>2
  <2>2. QED
    BY <1>3, <2>1 DEF SendOnce
<1>5. /\ Numbers(m, c.roomId) = {n + 1}
      /\ \A r : r # c.roomId => Numbers(m, r) = {}
      /\ UNCHANGED clients
  BY DEF GroupMessage, Numbers, Broadcast, SaveGroupMessage
<1>6. /\ \A d \in clients : /\ d.username \in Usernames /\ d.session \in Sessions
                            /\ d.roomId \in RoomIds /\ d.peerId \in DOMAIN db.members
                            /\ db.members[d.peerId].room_id = d.roomId
                            /\ db.members[d.peerId].username = d.username
      /\ Expired \notin Sessions
  BY RegistryAssumption
    DEF RegistryInv, ClientsAreMembers, TypeOK, RamTypeOK, ClientInfo
<1>7. ASSUME NEW x \in {s} \cup to
      PROVE  \E d \in clients : d.session = x /\ d.roomId = c.roomId
  <2>1. CASE x = s
    BY <2>1
  <2>2. CASE x \in to
    <3>1. PICK q \in FindMembersByRoom(db, c.roomId) : Online(q) /\ x = connections[q]
      BY <1>1, <2>2 DEF OnlinePeers
    <3>2. PICK d \in clients : d.peerId = q /\ d.session = x
      BY <3>1 DEF Online, RegistryInv, ConnectionsMatchClients
    <3>3. QED
      BY <1>6, <3>1, <3>2 DEF FindMembersByRoom
  <2>3. QED
    BY <2>1, <2>2
<1>8. ASSUME NEW d \in clients, d.roomId = c.roomId
      PROVE  d.session \in {s} \cup to
  <2>1. CASE d.peerId = c.peerId
    BY <2>1 DEF RegistryInv, ConnectionsMatchClients
  <2>2. CASE d.peerId # c.peerId
    <3>1. d.peerId \in FindMembersByRoom(db, c.roomId) \ {c.peerId}
      BY <1>6, <1>8, <2>2 DEF FindMembersByRoom
    <3>2. connections[d.peerId] = d.session /\ Online(d.peerId)
      BY <1>6 DEF RegistryInv, ConnectionsMatchClients, Online
    <3>3. QED
      BY <1>1, <3>1, <3>2 DEF OnlinePeers
  <2>3. QED
    BY <2>1, <2>2
<1>9. /\ \A v, r : \A k \in Missed(v, r)' :
           k \in Missed(v, r) \/ (k = n + 1 /\ r = c.roomId)
      /\ UnseenIsOwed'
  BY PostSparesOwed
<1>10. ASSUME NEW d \in clients, link[d.username] = d.session,
              NEW k \in Missed(d.username, d.roomId)
       PROVE  OnItsWay(d.session, d.roomId, k)'
  <2>1. ~ToBeSent(d.session, d.roomId, k) /\ ~ToBeLookedUp(d.session, d.roomId, d.peerId)
    BY <1>6 DEF ToBeSent, ToBeLookedUp
  <2>2. OnItsWay(d.session, d.roomId, k)
    BY <1>10, <2>1 DEF UnseenInv, UnseenArrives
  <2>3. QED
    BY <2>2 DEF OnItsWay
<1>11. ASSUME NEW t \in Sessions, NEW i \in DOMAIN todo'[t]
       PROVE  t = s /\ i \in DOMAIN all /\ todo'[t][i] = all[i]
  <2>1. DOMAIN <<>> = {}
    OBVIOUS
  <2>2. t = s
    BY <1>11, <2>1
  <2>3. QED
    BY <1>2, <1>11, <2>2
<1>12. StepsSpareUnseen'
  <2>1. SUFFICES ASSUME NEW v \in Usernames, NEW t \in Sessions, NEW i \in DOMAIN todo'[t],
                        link[v] \in todo'[t][i].to, NEW r \in RoomIds,
                        NEW a \in Numbers(todo'[t][i].msg, r), NEW k \in Missed(v, r)', k < a
                 PROVE  k \in Numbers(todo'[t][i].msg, r) \/ OnItsWay(link[v], r, k)'
    BY DEF StepsSpareUnseen, OnItsWay
  <2>2. t = s /\ i \in DOMAIN all /\ todo'[t][i] = all[i]
    BY <1>11
  <2>3. r = c.roomId /\ a = n + 1
    BY <1>4, <1>5, <2>1, <2>2
  <2>4. k \in Missed(v, r)
    BY <1>9, <2>1, <2>3
  <2>5. PICK x \in {s} \cup to : x = link[v]
    BY <1>4, <2>1, <2>2
  <2>6. PICK d \in clients : d.session = x /\ d.roomId = r
    BY <1>7, <2>3
  <2>7. d.username = v
    BY <1>6, <2>5, <2>6 DEF UnseenInv, OneOwner, Owns
  <2>8. OnItsWay(x, r, k)'
    BY <1>10, <2>4, <2>5, <2>6, <2>7
  <2>9. QED
    BY <2>5, <2>8
<1>13. LookUpsAreOwn'
  <2>1. \A t \in Sessions : \A i \in DOMAIN todo'[t] : todo'[t][i].op = "send"
    BY <1>4, <1>11
  <2>2. QED
    BY <2>1 DEF LookUpsAreOwn
<1>14. UnseenArrives'
  <2>1. SUFFICES ASSUME NEW d \in clients, link[d.username] = d.session,
                        NEW k \in Missed(d.username, d.roomId)'
                 PROVE  OnItsWay(d.session, d.roomId, k)' \/ ToBeSent(d.session, d.roomId, k)'
    BY <1>5 DEF UnseenArrives
  <2>2. CASE k \in Missed(d.username, d.roomId)
    BY <1>10, <2>1, <2>2
  <2>3. CASE k = n + 1 /\ d.roomId = c.roomId
    <3>1. PICK i \in DOMAIN all : d.session \in all[i].to
      BY <1>4, <1>8, <2>3
    <3>2. QED
      BY <1>2, <1>4, <1>5, <2>3, <3>1 DEF ToBeSent
  <2>4. QED
    BY <1>9, <2>1, <2>2, <2>3
<1>15. QED
  BY <1>9, <1>12, <1>13, <1>14

(***************************************************************************)
(* A request is read when nothing else is left to do.                       *)
(***************************************************************************)
LEMMA ReadSparesUnseen ==
  ASSUME Workers = 1, NEW n \in Nat, n = db.nextSeq, TypedUpTo(n),
         NEW k \in Nat, TypedUpTo(k), TypedUpTo(k)', RegistryInv, RegistryInv',
         BufferedUntilAcked', OrderInv, UnseenInv,
         NEW s \in Sessions, OnRead(s), NoteSent, UNCHANGED link
  PROVE  UnseenInv'
<1>1. /\ Idle /\ session[s] = "open" /\ UNCHANGED <<session, outbox>>
      /\ requests[s] # <<>> /\ requests' = [requests EXCEPT ![s] = Tail(requests[s])]
  BY DEF OnRead, Runs
<1>2. \A t \in Sessions : todo[t] = <<>>
  BY <1>1, IdleMeansDone DEF OrderInv
<1>3. PICK req : /\ req = Head(requests[s])
                 /\ \/ req.type = "join" /\ HandleJoin(s, req)
                    \/ HandleLeave(s, req)
                    \/ HandleGroupMessage(s, req)
                    \/ req.type = "ack" /\ HandleAck(s, req)
  BY DEF OnRead
<1>4. PICK steps : Continue(s, steps)
  BY <1>3, Zenon DEF HandleJoin, HandleLeave, HandleGroupMessage, HandleAck, Refuse
<1>5. \A t \in Sessions : t # s => todo'[t] = <<>>
  BY <1>2, <1>4, OneBegins
<1>6. 1 \in DOMAIN requests[s] /\ requests[s][1] = req /\ req \in RequestsUpTo(n)
  BY <1>1, <1>3 DEF TypedUpTo
<1>7. \A x \in Sessions : \A i \in DOMAIN requests'[x] :
        \E j \in DOMAIN requests[x] : requests'[x][i] = requests[x][j]
  <2>1. SUFFICES ASSUME NEW i \in DOMAIN Tail(requests[s])
                 PROVE  \E j \in DOMAIN requests[s] : Tail(requests[s])[i] = requests[s][j]
    BY <1>1 DEF TypedUpTo
  <2>2. requests[s] \in Seq(RequestsUpTo(n))
    BY DEF TypedUpTo
  <2>3. i + 1 \in DOMAIN requests[s] /\ Tail(requests[s])[i] = requests[s][i + 1]
    BY <1>1, <2>1, <2>2
  <2>4. QED
    BY <2>3
<1>8. SUFFICES /\ \A v \in Usernames, r \in RoomIds : \A j \in Missed(v, r)' :
                    j \in Missed(v, r) \/ j = n + 1
               /\ \A c \in clients' \ clients : Owns(c.username, c.session)
               /\ UnseenIsOwed' /\ StepsSpareUnseen' /\ LookUpsAreOwn' /\ UnseenArrives'
  <2>1. \A x \in Sessions : outbox'[x] = outbox[x] \/ outbox'[x] = <<>>
    BY <1>1
  <2>2. OneOwner' /\ AcksSpareUnseen' /\ WaySparesUnseen'
    BY <1>7, <1>8, <2>1, ReadingSparesUnseen
  <2>3. QED
    BY <1>8, <2>2 DEF UnseenInv
<1>9. CASE req.type = "join" /\ HandleJoin(s, req)
  <2>1. /\ req.roomId \in RoomIds /\ req.username \in Usernames
        /\ req.roomType \in RequestedTypes
    BY <1>6, <1>9 DEF RequestsUpTo, RequestedTypes, RoomTypes
  <2>2. Owns(req.username, s)
    BY <1>6, <1>9 DEF Owns
  <2>3. QED
    BY <1>1, <1>2, <1>5, <1>9, <2>1, <2>2, JoinSparesUnseen
<1>10. ASSUME clients' \subseteq clients, Plain(todo'[s]), UnseenIsOwed',
              \A v, r : Missed(v, r)' \subseteq Missed(v, r)
       PROVE  /\ \A v \in Usernames, r \in RoomIds : \A j \in Missed(v, r)' :
                   j \in Missed(v, r) \/ j = n + 1
              /\ \A c \in clients' \ clients : Owns(c.username, c.session)
              /\ UnseenIsOwed' /\ StepsSpareUnseen' /\ LookUpsAreOwn' /\ UnseenArrives'
  <2>1. \A i \in DOMAIN todo'[s] : Numberless(s, todo[s][i])'
    BY <1>10 DEF Plain, Numberless
  <2>2. \A c \in clients : c \in clients' => outbox'[c.session] = outbox[c.session]
    BY <1>1
  <2>3. StepsSpareUnseen' /\ LookUpsAreOwn' /\ UnseenArrives'
    BY <1>2, <1>5, <1>10, <2>1, <2>2, NumberlessSparesUnseen
  <2>4. QED
    BY <1>10, <2>3
<1>11. ASSUME Refuse(s)
       PROVE  /\ clients' \subseteq clients /\ Plain(todo'[s]) /\ UnseenIsOwed'
              /\ \A v, r : Missed(v, r)' \subseteq Missed(v, r)
  <2>1. UNCHANGED <<db, clients, owed>> /\ todo'[s] = Send({s}, Error)
    BY <1>11 DEF Refuse, registryVars, Continue, TypedUpTo
  <2>2. \A x \in RoomIds : Numbers(Error, x) = {}
    BY DEF Numbers, Error
  <2>3. Plain(todo'[s])
    BY <2>1, <2>2, SendIsPlain
  <2>4. \A v, r : Missed(v, r)' \subseteq Missed(v, r)
    BY <2>1, NothingNewMissed
  <2>5. UnseenIsOwed'
    BY <2>1, <2>4 DEF UnseenInv, UnseenIsOwed, Namesakes, FindMembersByRoom
  <2>6. QED
    BY <2>1, <2>3, <2>4, <2>5
<1>12. CASE HandleLeave(s, req)
  <2>1. Plain(todo'[s])
    BY <1>12, RepliesArePlain
  <2>2. CASE Refuse(s)
    BY <1>10, <1>11, <2>2
  <2>3. ASSUME NEW c \in clients, Leave(c)
        PROVE  /\ clients' \subseteq clients /\ UnseenIsOwed'
               /\ \A v, r : Missed(v, r)' \subseteq Missed(v, r)
    BY <2>3, LeaveSparesOwed DEF Leave
  <2>4. CASE \E c \in clients : Leave(c)
    BY <1>10, <2>1, <2>3, <2>4
  <2>5. QED
    BY <1>12, <2>2, <2>4 DEF HandleLeave, Found, ClientsOf
<1>13. CASE req.type = "ack" /\ HandleAck(s, req)
  <2>1. Plain(todo'[s])
    BY <1>13, RepliesArePlain
  <2>2. CASE Refuse(s)
    BY <1>10, <1>11, <2>2
  <2>3. ASSUME NEW c \in clients, c.session = s, c.roomId = req.roomId,
               Acknowledge(c, req.upToSeq)
        PROVE  /\ clients' \subseteq clients /\ UnseenIsOwed'
               /\ \A v, r : Missed(v, r)' \subseteq Missed(v, r)
    BY <1>6, <1>13, <2>3, AckSparesOwed DEF Acknowledge
  <2>4. CASE \E c \in clients : /\ c.session = s /\ c.roomId = req.roomId
                                /\ Acknowledge(c, req.upToSeq)
    BY <1>10, <2>1, <2>3, <2>4
  <2>5. QED
    BY <1>13, <2>2, <2>4 DEF HandleAck, Found, ClientsOf
<1>14. CASE HandleGroupMessage(s, req)
  <2>1. CASE Refuse(s)
    BY <1>10, <1>11, <2>1
  <2>2. ASSUME NEW c \in clients, c.session = s, NEW m, Broadcast(c),
               m = GroupMessage(c.roomId, c.peerId, db'.nextSeq),
               Continue(s, Send({s}, m) \o Send(OnlinePeers(c.roomId, c.peerId), m))
        PROVE  /\ \A v, r : \A j \in Missed(v, r)' : j \in Missed(v, r) \/ j = n + 1
               /\ clients' = clients
               /\ UnseenIsOwed' /\ StepsSpareUnseen' /\ LookUpsAreOwn' /\ UnseenArrives'
    <3>1. todo'[s] = Send({s}, m) \o Send(OnlinePeers(c.roomId, c.peerId), m)
      BY <2>2 DEF Continue, TypedUpTo
    <3>2. clients' = clients
      BY <2>2 DEF Broadcast
    <3>3. OneEntry
      BY DEF OrderInv
    <3>4. UNCHANGED <<link, outbox>>
      BY <1>1
    <3>5. QED
      BY <1>2, <1>5, <2>2, <3>1, <3>2, <3>3, <3>4, PostSparesUnseen,
         ZenonT(40)
  <2>3. CASE \E c \in clients : \E m :
               /\ c.session = s /\ Broadcast(c)
               /\ m = GroupMessage(c.roomId, c.peerId, db'.nextSeq)
               /\ Continue(s, Send({s}, m) \o Send(OnlinePeers(c.roomId, c.peerId), m))
    BY <2>2, <2>3
  <2>4. QED
    BY <1>14, <2>1, <2>3 DEF HandleGroupMessage, Found, ClientsOf
<1>15. QED
  BY <1>3, <1>9, <1>12, <1>13, <1>14

(***************************************************************************)
(* The end of a session leaves the clients of others to what is on its way.  *)
(***************************************************************************)
LEMMA ExpireSparesUnseen ==
  ASSUME Workers = 1, NEW n \in Nat, TypedUpTo(n), RegistryInv, RegistryInv',
         OrderInv, UnseenInv, NEW s \in Sessions, Expire(s)
  PROVE  UnseenInv'
<1>1. /\ Idle /\ UNCHANGED <<db, owed, link, unseen>>
      /\ clients' = clients \ ClientsOf(s)
      /\ requests' = [requests EXCEPT ![s] = <<>>]
      /\ outbox' = [outbox EXCEPT ![s] = <<>>]
  BY DEF Expire, Cleanup, Runs, Close, Disconnect, clientVars
<1>2. PICK farewells \in Farewells(s) : Continue(s, farewells)
  BY DEF Expire, Cleanup
<1>3. \A t \in Sessions : todo[t] = <<>>
  BY <1>1, IdleMeansDone DEF OrderInv
<1>4. /\ todo'[s] = farewells /\ Plain(farewells)
      /\ \A t \in Sessions : t # s => todo'[t] = <<>>
  BY <1>2, <1>3, OneBegins, FarewellsArePlain
<1>5. \A v, r : Missed(v, r)' = Missed(v, r)
  BY <1>1 DEF Missed
<1>6. /\ requests'[s] = <<>> /\ outbox'[s] = <<>>
      /\ \A t \in Sessions : t # s => requests'[t] = requests[t] /\ outbox'[t] = outbox[t]
  BY <1>1 DEF TypedUpTo
<1>7. \A x \in Sessions : \A i \in DOMAIN requests'[x] :
        \E j \in DOMAIN requests[x] : requests'[x][i] = requests[x][j]
  <2>1. DOMAIN <<>> = {}
    OBVIOUS
  <2>2. QED
    BY <1>6, <2>1
<1>8. OneOwner' /\ AcksSpareUnseen' /\ WaySparesUnseen'
  <2>1. \A x \in Sessions : outbox'[x] = outbox[x] \/ outbox'[x] = <<>>
    BY <1>6
  <2>2. clients' \ clients = {}
    BY <1>1
  <2>3. QED
    BY <1>1, <1>5, <1>7, <2>1, <2>2, ReadingSparesUnseen
<1>9. StepsSpareUnseen' /\ LookUpsAreOwn' /\ UnseenArrives'
  <2>1. \A i \in DOMAIN todo'[s] : Numberless(s, todo[s][i])'
    BY <1>4 DEF Plain, Numberless
  <2>2. \A c \in clients : c \in clients' => outbox'[c.session] = outbox[c.session]
    BY <1>1, <1>6 DEF ClientsOf, RegistryInv, TypeOK, RamTypeOK, ClientInfo
  <2>3. clients' \ clients = {}
    BY <1>1
  <2>4. QED
    BY <1>1, <1>3, <1>4, <1>5, <2>1, <2>2, <2>3, NumberlessSparesUnseen
<1>10. UnseenIsOwed'
  BY <1>1, <1>5 DEF UnseenInv, UnseenIsOwed, Namesakes, FindMembersByRoom
<1>11. QED
  BY <1>8, <1>9, <1>10 DEF UnseenInv

-----------------------------------------------------------------------------
(* The theorem.                                                            *)

(***************************************************************************)
(* There is nothing unseen at the start.                                    *)
(***************************************************************************)
LEMMA InitUnseenInv == ChatInit => UnseenInv
<1> SUFFICES ASSUME ChatInit PROVE UnseenInv
  OBVIOUS
<1>1. \A s \in Sessions : todo[s] = <<>> /\ outbox[s] = <<>> /\ requests[s] = <<>>
  BY DEF ChatInit, HandlerInit
<1>2. clients = {} /\ (\A u \in Usernames : link[u] = NoLink) /\ unseen = {}
  BY DEF ChatInit, HandlerInit, Init
<1>3. DOMAIN <<>> = {} /\ \A u, r : Missed(u, r) = {}
  BY <1>2 DEF Missed
<1>4. \A s \in Sessions, u \in Usernames : ~Owns(u, s)
  BY <1>1, <1>2, <1>3, GroupChatAssumption DEF Owns
<1>5. OneOwner /\ AcksSpareUnseen
  BY <1>4 DEF OneOwner, AcksSpareUnseen
<1>6. UnseenIsOwed /\ WaySparesUnseen
  BY <1>2, <1>3 DEF UnseenIsOwed, WaySparesUnseen
<1>7. StepsSpareUnseen /\ LookUpsAreOwn /\ UnseenArrives
  BY <1>1, <1>2, <1>3 DEF StepsSpareUnseen, LookUpsAreOwn, UnseenArrives
<1>8. QED
  BY <1>5, <1>6, <1>7 DEF UnseenInv

(***************************************************************************)
(* UnseenInv is inductive with the order of what is sent.                   *)
(***************************************************************************)
LEMMA NextUnseenInv ==
  ASSUME Workers = 1, ChatInv, ChatInv', OrderInv, UnseenInv, [ChatNext]_chatVars
  PROVE  UnseenInv'
<1>1. [Next]_vars
  BY ChatStepsAreRegistrySteps DEF ChatInv
<1>2. PICK n \in Nat : n = db.nextSeq
  BY <1>1, NumbersOnlyGrow DEF ChatInv
<1>3. PICK k \in Nat : k = db'.nextSeq /\ n <= k
  BY <1>1, <1>2, NumbersOnlyGrow DEF ChatInv
<1>4. /\ RegistryInv /\ RegistryInv' /\ BufferedUntilAcked /\ BufferedUntilAcked'
      /\ TypedUpTo(n)
  BY <1>2, ChatTypesMean DEF ChatInv
<1>5. TypedUpTo(k)
  BY <1>2, <1>3, <1>4, TypesGrow
<1>6. TypedUpTo(k)'
  BY <1>3 DEF ChatInv, ChatTypeOK, HandlerTypeOK, TypedUpTo, SentSeqs
<1>7. CASE UNCHANGED chatVars
  <2>1. \A v, r : Missed(v, r)' = Missed(v, r)
    BY <1>7 DEF chatVars, Missed
  <2>2. OneOwner' /\ AcksSpareUnseen'
    BY <1>7, <2>1
      DEF chatVars, handlerVars, vars, clientVars, UnseenInv, OneOwner, AcksSpareUnseen, Owns
  <2>3. UnseenIsOwed' /\ WaySparesUnseen'
    BY <1>7, <2>1
      DEF chatVars, handlerVars, vars, clientVars, UnseenInv, UnseenIsOwed, Namesakes,
          FindMembersByRoom, WaySparesUnseen
  <2>4. StepsSpareUnseen' /\ LookUpsAreOwn' /\ UnseenArrives'
    BY <1>7, <2>1
      DEF chatVars, handlerVars, vars, clientVars, UnseenInv, StepsSpareUnseen, LookUpsAreOwn,
          UnseenArrives, OnItsWay, ToBeSent, ToBeLookedUp
  <2>5. QED
    BY <2>2, <2>3, <2>4 DEF UnseenInv
<1>8. ASSUME NEW u \in Usernames, NEW r \in RoomIds,
             JoinChat(u, r) \/ LeaveChat(u, r) \/ Post(u, r)
      PROVE  UnseenInv'
  <2>1. UNCHANGED <<vars, todo, outbox, link, unseen>>
    BY <1>8 DEF JoinChat, LeaveChat, Post, clientVars
  <2>2. CASE JoinChat(u, r)
    <3>1. /\ Request(u, <<JoinRequest(u, r)>>) /\ JoinRequest(u, r) \in RequestsUpTo(n)
          /\ JoinRequest(u, r).username = u /\ JoinRequest(u, r).type = "join"
      BY <2>2, RequestsAreTyped DEF JoinChat, JoinRequest
    <3>2. QED
      BY <1>4, <2>1, <3>1, ApplicationSparesUnseen
  <2>3. CASE LeaveChat(u, r)
    <3>1. rooms[u][r].myPeerId \in PeerIds \cup {NoPeer}
      BY <1>4, <2>3 DEF LeaveChat, TypedUpTo, IsTable, RoomStates
    <3>2. PICK req \in RequestsUpTo(n) : Request(u, <<req>>) /\ req.type = "leave"
      BY <2>3, <3>1, RequestsAreTyped DEF LeaveChat, LeaveRequest
    <3>3. QED
      BY <1>4, <2>1, <3>2, ApplicationSparesUnseen
  <2>4. CASE Post(u, r)
    <3>1. PICK req \in RequestsUpTo(n) : Request(u, <<req>>) /\ req.type = "group-message"
      BY <2>4, RequestsAreTyped DEF Post, PostRequest
    <3>2. QED
      BY <1>4, <2>1, <3>1, ApplicationSparesUnseen
  <2>5. QED
    BY <1>8, <2>2, <2>3, <2>4
<1>9. ASSUME NEW u \in Usernames, NEW s \in Sessions, OnConnected(u, s)
      PROVE  UnseenInv'
  BY <1>4, <1>9, ConnectSparesUnseen DEF OrderInv
<1>10. ASSUME NEW u \in Usernames, OnDisconnected(u) \/ OnMessage(u)
       PROVE  UnseenInv'
  BY <1>4, <1>10, DisconnectedSparesUnseen, OnMessageSparesUnseen
<1>11. ASSUME NEW s \in Sessions, Handler(s)
       PROVE  UnseenInv'
  <2>1. CASE OnRead(s) /\ NoteSent
    <3>1. UNCHANGED link
      BY <1>11, <2>1 DEF Handler, clientVars, SendText, SendPending
    <3>2. QED
      BY <1>2, <1>4, <1>5, <1>6, <2>1, <3>1, ReadSparesUnseen
  <2>2. CASE (SendText(s) \/ SendPending(s)) /\ UNCHANGED <<clientVars, unseen>>
    <3>1. UNCHANGED <<link, unseen>>
      BY <2>2 DEF clientVars
    <3>2. QED
      BY <1>4, <2>2, <3>1, SendTextSparesUnseen, SendPendingSparesUnseen
  <2>3. QED
    BY <1>11, <2>1, <2>2 DEF Handler
<1>12. ASSUME NEW s \in Sessions, Expire(s)
       PROVE  UnseenInv'
  BY <1>4, <1>12, ExpireSparesUnseen
<1>13. QED
  BY <1>7, <1>8, <1>9, <1>10, <1>11, <1>12 DEF ChatNext

(***************************************************************************)
(* With one worker thread no message of a group room is lost: what was sent  *)
(* while a user was a member of the room and has not been shown to that user *)
(* is still buffered for it, whatever connections were lost meanwhile,      *)
(* however often it joined, and however many clients and rooms there are.    *)
(***************************************************************************)
THEOREM UnseenBufferedWithOneThread ==
  ASSUME Workers = 1
  PROVE  ChatSpec => []UnseenIsBuffered
<1>1. ASSUME ChatInv, UnseenInv
      PROVE  UnseenIsBuffered
  <2>1. PICK n \in Nat : n = db.nextSeq
    BY <1>1 DEF ChatInv, RegistryInv, TypeOK, IsDb
  <2>2. TypedUpTo(n)
    BY <1>1, <2>1, ChatTypesMean DEF ChatInv
  <2>3. SUFFICES ASSUME NEW x \in unseen
                 PROVE  /\ Namesakes(x[2], x[1]) # {}
                        /\ x[3] \in PendingMessages(MemberNamed(x[2], x[1]))
    BY DEF UnseenIsBuffered
  <2>4. x[1] \in Usernames /\ x[2] \in RoomIds /\ x[3] \in Missed(x[1], x[2])
    BY <2>2, <2>3 DEF TypedUpTo, Missed
  <2>5. PICK p \in Namesakes(x[2], x[1]) : x[3] \in owed[p]
    BY <1>1, <2>4 DEF UnseenInv, UnseenIsOwed
  <2>6. MemberNamed(x[2], x[1]) \in Namesakes(x[2], x[1])
    BY <2>5 DEF MemberNamed
  <2>7. MemberNamed(x[2], x[1]) = p
    BY <1>1, <2>5, <2>6
      DEF Namesakes, FindMembersByRoom, ChatInv, RegistryInv, UniqueUsernames
  <2>8. p \in DOMAIN db.members
    BY <2>5 DEF Namesakes, FindMembersByRoom
  <2>9. QED
    BY <1>1, <2>5, <2>7, <2>8 DEF ChatInv, BufferedUntilAcked
<1>2. ChatInv /\ OrderInv /\ UnseenInv /\ [ChatNext]_chatVars
        => (ChatInv /\ OrderInv /\ UnseenInv)'
  BY NextChatInv, NextOrderInv, NextUnseenInv
<1>3. QED
  BY <1>1, <1>2, InitChatInv, InitOrderInv, InitUnseenInv, PTL DEF ChatSpec
=============================================================================

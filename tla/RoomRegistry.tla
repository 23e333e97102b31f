----------------------------- MODULE RoomRegistry -----------------------------
(***************************************************************************)
(* The signaling server's RoomRegistry: who is a member of which room, who  *)
(* is online, and which group messages are buffered for whom.              *)
(*                                                                         *)
(* Every public method takes the mutex mu_ for its whole body, so one       *)
(* method is one action here.  Membership, cursors and messages are in the  *)
(* database (db, module RoomStore); presence is in RAM (clients_,           *)
(* connections_).  Sessions are the addresses at which WsSession objects    *)
(* live: clients_ is keyed by the raw address, connections_ holds weak      *)
(* pointers, which expire when the object at the address is destroyed.      *)
(*                                                                         *)
(* This module is one run of the server process whose sessions all end with *)
(* the call of disconnect().  Module RoomRegistryFaults adds what breaks     *)
(* that: restarts, failing store calls and reads that complete too late.    *)
(***************************************************************************)
EXTENDS RoomStore

CONSTANTS
  Sessions,     \* addresses of WsSession objects
  RoomIds,      \* names of rooms a client may ask for
  Usernames,    \* names of users
  Expired,      \* a weak pointer whose object is gone
  MaxPeerSeq,   \* bound: members created during a run
  MaxMsgSeq     \* bound: group messages sent during a run

ASSUME RegistryAssumption ==
  /\ Expired \notin Sessions
  /\ MaxPeerSeq \in Nat
  /\ MaxMsgSeq \in Nat

VARIABLES
  db,           \* store_: the database
  clients,      \* clients_: the rows of the multimap session -> ClientInfo
  connections,  \* connections_: peerId -> weak pointer to a session
  nextPeerSeq,  \* nextPeerSeq_
  session,      \* what has become of the WsSession object at an address
  owed          \* history: the messages each member has yet to acknowledge

vars == <<db, clients, connections, nextPeerSeq, session, owed>>

\* generatePeerId: the id "peer<n>" is the number n.
PeerIds == 1..MaxPeerSeq

Seqs == 1..MaxMsgSeq

ClientInfo == [session: Sessions, roomId: RoomIds, peerId: PeerIds,
               username: Usernames, roomType: RoomTypes]

-----------------------------------------------------------------------------
(* Lookups.                                                                *)

\* findClient(session, roomId) finds an entry.
InRoom(s, r) == \E c \in clients : c.session = s /\ c.roomId = r

\* connections_ has an entry for p whose weak pointer can be locked.
Online(p) == p \in DOMAIN connections /\ connections[p] # Expired

\* The entries collectOnlinePeers and join leave after visiting the peers ps:
\* one whose weak pointer has expired is erased.
Purge(ps) ==
  Remove(connections, {p \in ps \cap DOMAIN connections : connections[p] = Expired})

\* collectOnlinePeers(r, p): the sessions of the other members online.
OnlinePeers(r, p) ==
  {connections[q] : q \in {q \in FindMembersByRoom(db, r) \ {p} : Online(q)}}

\* getPendingMessages(p).
PendingMessages(p) ==
  IF p \in DOMAIN db.members
  THEN GetMessagesAfter(db, db.members[p].room_id,
                        db.members[p].last_acked_msg_seq)
  ELSE {}

-----------------------------------------------------------------------------
(* join                                                                    *)

\* A client may leave the type out of its request.
RequestedTypes == RoomTypes \cup {"none"}

TypeAccepted(r, t) ==
  r \in DOMAIN db.rooms => t \in {"none", db.rooms[r]}

JoinedType(r, t) ==
  IF r \in DOMAIN db.rooms THEN db.rooms[r]
  ELSE IF t = "none" THEN "direct" ELSE t

\* The room is saved before the membership checks.
WithRoom(r, t) ==
  IF r \in DOMAIN db.rooms THEN db ELSE SaveRoom(db, r, JoinedType(r, t))

\* Mutant of Namesakes: a member that is offline does not hold its name.
NamesakesOnline(r, u) ==
  {p \in FindMembersByRoom(db, r) : db.members[p].username = u /\ Online(p)}

Namesakes(r, u) ==
  {p \in FindMembersByRoom(db, r) : db.members[p].username = u}

\* Mutant of Full: counts only those online.
FullOnline(r, t) ==
  /\ JoinedType(r, t) = "direct"
  /\ Cardinality({p \in FindMembersByRoom(db, r) : Online(p)}) >= 2

Full(r, t) ==
  JoinedType(r, t) = "direct" /\ Cardinality(FindMembersByRoom(db, r)) >= 2

\* Mutant of MayAsk: does not look for the session in the room.
MayAskAgain(s, r, t) == TypeAccepted(r, t)

\* The checks join makes before it looks at the members.
MayAsk(s, r, t) == ~InRoom(s, r) /\ TypeAccepted(r, t)

\* "username already in use in this room", or "direct room supports at most 2
\* participants". The other two refusals change nothing at all.
JoinRefused(s, r, u, t) ==
  /\ MayAsk(s, r, t)
  /\ \/ \E p \in Namesakes(r, u) : Online(p)
     \/ Namesakes(r, u) = {} /\ Full(r, t)
  /\ db' = WithRoom(r, t)
  /\ UNCHANGED <<clients, connections, nextPeerSeq, owed>>

\* Mutant of Enter: connections_.emplace, which keeps the entry there is.
EnterEmplacing(s, r, u, t, p) ==
  /\ clients' = clients \cup
       {[session |-> s, roomId |-> r, peerId |-> p, username |-> u,
         roomType |-> JoinedType(r, t)]}
  /\ LET kept == Purge(FindMembersByRoom(db, r) \ {p})
     IN  connections' = IF p \in DOMAIN kept THEN kept ELSE Replace(kept, p, s)

\* What both kinds of join write to RAM for the member p.
Enter(s, r, u, t, p) ==
  /\ clients' = clients \cup
       {[session |-> s, roomId |-> r, peerId |-> p, username |-> u,
         roomType |-> JoinedType(r, t)]}
  /\ connections' =
       Replace(Purge(FindMembersByRoom(db, r) \ {p}), p, s)

\* A member comes back: it keeps its peerId and its cursor.
JoinReconnect(s, r, u, t) ==
  /\ MayAsk(s, r, t)
  /\ \E p \in Namesakes(r, u) :
       /\ ~Online(p)
       /\ db' = SaveMember(WithRoom(r, t), p,
                  [username |-> u, room_id |-> r,
                   last_acked_msg_seq |-> db.members[p].last_acked_msg_seq])
       /\ Enter(s, r, u, t, p)
  /\ UNCHANGED <<nextPeerSeq, owed>>

\* A new member: a fresh peerId and the cursor at zero.
JoinNew(s, r, u, t) ==
  /\ MayAsk(s, r, t)
  /\ Namesakes(r, u) = {}
  /\ ~Full(r, t)
  /\ nextPeerSeq <= MaxPeerSeq
  /\ db' = SaveMember(WithRoom(r, t), nextPeerSeq,
             [username |-> u, room_id |-> r, last_acked_msg_seq |-> 0])
  /\ Enter(s, r, u, t, nextPeerSeq)
  /\ nextPeerSeq' = nextPeerSeq + 1
  /\ owed' = [owed EXCEPT ![nextPeerSeq] = {}]

-----------------------------------------------------------------------------
(* The methods of a session that is in a room: c is what findClient finds.  *)

\* route: its only effect is to erase the target's entry when it is stale.
Route(c, p) ==
  /\ c.roomType = "direct"
  /\ connections' = Purge({p})
  /\ UNCHANGED <<db, clients, nextPeerSeq, owed>>

\* History: the members of r owe an acknowledgement of message n, except one
\* whose cursor says it has acknowledged n before n was sent.
Owe(r, n) ==
  owed' = [p \in PeerIds |->
             IF /\ p \in FindMembersByRoom(db, r)
                /\ db.members[p].last_acked_msg_seq < n
             THEN owed[p] \cup {n} ELSE owed[p]]

\* broadcast: the message is stored for every member of the room, the sender
\* included, and recipients are the members online.
Broadcast(c) ==
  /\ c.roomType = "group"
  /\ db.nextSeq < MaxMsgSeq
  /\ db' = SaveGroupMessage(db, c.roomId, c.peerId)
  /\ connections' = Purge(FindMembersByRoom(db, c.roomId) \ {c.peerId})
  /\ Owe(c.roomId, db.nextSeq + 1)
  /\ UNCHANGED <<clients, nextPeerSeq>>

\* acknowledgeMessages(upToSeq).
Acknowledge(c, upToSeq) ==
  /\ db' = CleanupMessages(UpdateLastAckedSeq(db, c.peerId, upToSeq), c.roomId)
  /\ owed' = [owed EXCEPT ![c.peerId] = {n \in @ : n > upToSeq}]
  /\ UNCHANGED <<clients, connections, nextPeerSeq>>

\* Mutants of WithoutMember: nothing is cleaned up for those who stay; a room
\* outlives its last member.
WithoutMemberNoCleanup(c) ==
  LET rest == RemoveMember(db, c.peerId)
  IN  IF FindMembersByRoom(rest, c.roomId) = {}
      THEN RemoveRoom(RemoveGroupMessagesByRoom(rest, c.roomId), c.roomId)
      ELSE rest

WithoutMemberRoomStays(c) ==
  CleanupMessages(RemoveMember(db, c.peerId), c.roomId)

\* The last member to leave takes the room and its messages along.
WithoutMember(c) ==
  LET rest == RemoveMember(db, c.peerId)
  IN  IF FindMembersByRoom(rest, c.roomId) = {}
      THEN RemoveRoom(RemoveGroupMessagesByRoom(rest, c.roomId), c.roomId)
      ELSE CleanupMessages(rest, c.roomId)

\* Mutant of Leave: forgets clients_.erase.
LeaveForgettingClient(c) ==
  /\ db' = WithoutMember(c)
  /\ connections' = Remove(Purge(FindMembersByRoom(db, c.roomId)), {c.peerId})
  /\ owed' = [owed EXCEPT ![c.peerId] = {}]
  /\ UNCHANGED <<clients, nextPeerSeq>>

\* leave: the message handler always passes both roomId and peerId.
Leave(c) ==
  /\ db' = WithoutMember(c)
  /\ connections' = Remove(Purge(FindMembersByRoom(db, c.roomId)), {c.peerId})
  /\ clients' = clients \ {c}
  /\ owed' = [owed EXCEPT ![c.peerId] = {}]
  /\ UNCHANGED nextPeerSeq

ClientsOf(s) == {c \in clients : c.session = s}

\* Mutant of Disconnect: forgets connections_.erase.
DisconnectForgettingPeers(s) ==
  LET own == ClientsOf(s)
  IN  /\ connections' =
           Purge(UNION {FindMembersByRoom(db, c.roomId) : c \in own})
      /\ clients' = clients \ own
      /\ UNCHANGED <<db, nextPeerSeq, owed>>

\* disconnect: the session's memberships go offline, the members stay.
Disconnect(s) ==
  LET own == ClientsOf(s)
      met == UNION {FindMembersByRoom(db, c.roomId) : c \in own}
  IN  /\ connections' = Remove(Purge(met), {c.peerId : c \in own})
      /\ clients' = clients \ own
      /\ UNCHANGED <<db, nextPeerSeq, owed>>

-----------------------------------------------------------------------------
(* The WsSession objects.  cleanup() calls disconnect() once; here no other   *)
(* handler of the session is left then, so the object goes with it and its   *)
(* address may become that of another session.                               *)

Accept(s) ==
  /\ session[s] = "absent"
  /\ session' = [session EXCEPT ![s] = "open"]
  /\ UNCHANGED <<db, clients, connections, nextPeerSeq, owed>>

Close(s) ==
  /\ session[s] = "open"
  /\ session' = [session EXCEPT ![s] = "absent"]
  /\ Disconnect(s)

-----------------------------------------------------------------------------
Joins(s) ==
  \E r \in RoomIds, u \in Usernames, t \in RequestedTypes :
    \/ JoinRefused(s, r, u, t)
    \/ JoinReconnect(s, r, u, t)
    \/ JoinNew(s, r, u, t)

Requests(c, acks) ==
  \/ \E p \in PeerIds : Route(c, p)
  \/ Broadcast(c)
  \/ \E n \in acks : Acknowledge(c, n)
  \/ Leave(c)

\* A client acknowledges sequence numbers it has been sent.
SentSeqs == 1..db.nextSeq

Init ==
  /\ db = EmptyDb
  /\ clients = {}
  /\ connections = EmptyTable
  /\ nextPeerSeq = 1
  /\ session = [s \in Sessions |-> "absent"]
  /\ owed = [p \in PeerIds |-> {}]

Next ==
  \E s \in Sessions :
    \/ Accept(s)
    \/ session[s] = "open" /\ Joins(s) /\ UNCHANGED session
    \/ /\ session[s] = "open"
       /\ \E c \in ClientsOf(s) : Requests(c, SentSeqs)
       /\ UNCHANGED session
    \/ Close(s)

Spec == Init /\ [][Next]_vars

-----------------------------------------------------------------------------
(* Properties.                                                             *)

MemberRow == [username: Usernames, room_id: RoomIds, last_acked_msg_seq: Int]

MessageRow == [room_id: RoomIds, from_peer_id: PeerIds]

\* A database whose tables have the columns of their rows.
IsDb(d) ==
  /\ d = [rooms |-> d.rooms, members |-> d.members,
          messages |-> d.messages, nextSeq |-> d.nextSeq]
  /\ IsTable(d.rooms, RoomIds, RoomTypes)
  /\ IsTable(d.members, PeerIds, MemberRow)
  /\ IsTable(d.messages, Seqs, MessageRow)
  /\ d.nextSeq \in 0..MaxMsgSeq

RamTypeOK ==
  /\ clients \subseteq ClientInfo
  /\ IsTable(connections, PeerIds, Sessions \cup {Expired})
  /\ nextPeerSeq \in 1..(MaxPeerSeq + 1)
  /\ owed \in [PeerIds -> SUBSET Seqs]

\* No cursor is ahead of the messages sent.
CursorsSent ==
  \A p \in DOMAIN db.members :
    db.members[p].last_acked_msg_seq \in 0..db.nextSeq

\* Every variable has its type, and cursors are in the range of the counter.
TypeOK ==
  /\ IsDb(db)
  /\ RamTypeOK
  /\ session \in [Sessions -> {"absent", "open"}]
  /\ CursorsSent

\* What one session believes of itself in RAM is what the database says: it
\* is a member of that room, under that name, and the room has that type.
ClientsAreMembers ==
  \A c \in clients :
    /\ session[c.session] = "open"
    /\ c.peerId \in DOMAIN db.members
    /\ db.members[c.peerId].room_id = c.roomId
    /\ db.members[c.peerId].username = c.username
    /\ db.rooms[c.roomId] = c.roomType

\* connections_ and clients_ say the same of who is online: a member is
\* reached through connections_ exactly at the one session that is in the
\* room as that member, so no delivery goes astray and none is missed.
ConnectionsMatchClients ==
  /\ \A c \in clients : c.peerId \in DOMAIN connections
                        /\ connections[c.peerId] = c.session
  /\ \A p \in DOMAIN connections :
       \E c \in clients : c.peerId = p /\ c.session = connections[p]
  /\ \A c, d \in clients : c.peerId = d.peerId => c = d

\* A room has no two members of one name.
UniqueUsernames ==
  \A p, q \in DOMAIN db.members :
    /\ db.members[p].room_id = db.members[q].room_id
    /\ db.members[p].username = db.members[q].username
    => p = q

\* A group message, and a signal routed to a member, reaches a session only if
\* that session has joined the room as that member: connections_, the members
\* table and clients_ cannot disagree about where a member is.
DeliveriesStayInRoom ==
  \A p \in DOMAIN db.members :
    Online(p) => \E c \in clients : /\ c.session = connections[p]
                                   /\ c.peerId = p
                                   /\ c.roomId = db.members[p].room_id

\* A direct room has at most two members, those offline included.
DirectCapacity ==
  \A r \in DOMAIN db.rooms :
    db.rooms[r] = "direct" => Cardinality(FindMembersByRoom(db, r)) <= 2

\* A member's room is stored.
MembersHaveRooms ==
  \A p \in DOMAIN db.members : db.members[p].room_id \in DOMAIN db.rooms

\* A room is stored only as long as it has a member.
RoomsHaveMembers ==
  \A r \in DOMAIN db.rooms : FindMembersByRoom(db, r) # {}

\* A buffered message is in a group room that is stored, and was handed out
\* a sequence number: none outlives its room or is in a direct one.
MessagesHaveRooms ==
  \A n \in DOMAIN db.messages :
    /\ db.messages[n].room_id \in DOMAIN db.rooms
    /\ db.rooms[db.messages[n].room_id] = "group"
    /\ n <= db.nextSeq

\* The tables refer to one another as they should.
StoreConsistent == MembersHaveRooms /\ RoomsHaveMembers /\ MessagesHaveRooms

\* The counter of peer ids is ahead of every member ever created.
PeerIdsFresh == \A p \in DOMAIN db.members : p < nextPeerSeq

\* RAM and database agree: the part of the state that is inductive.
RegistryInv ==
  /\ TypeOK
  /\ ClientsAreMembers
  /\ ConnectionsMatchClients
  /\ UniqueUsernames
  /\ StoreConsistent
  /\ PeerIdsFresh

\* A message sent to a room is buffered for each of its members, those offline
\* included, until that member acknowledges it, whatever the others do: join,
\* leave, disconnect, acknowledge out of order.  (TypeOK says that no member
\* is exempt from owing: no cursor is ahead of the counter.)
BufferedUntilAcked ==
  \A p \in DOMAIN db.members : owed[p] \subseteq PendingMessages(p)

\* A message is buffered only while some member of its room has yet to get past
\* it: whatever takes the last such member past it, or away, deletes it too.
NothingLingers ==
  \A n \in DOMAIN db.messages :
    \E p \in FindMembersByRoom(db, db.messages[n].room_id) :
      db.members[p].last_acked_msg_seq < n

\* A step that ends a membership, or gives a member's record another name or
\* room, is the leave of the very session that is online as this member.
OnlyOwnLeaveEndsMembership ==
  [][\A p \in DOMAIN db.members :
       \/ /\ p \in DOMAIN db'.members
          /\ db'.members[p].username = db.members[p].username
          /\ db'.members[p].room_id = db.members[p].room_id
       \/ \E c \in clients : Leave(c) /\ c.peerId = p]_vars

\* A message goes only when all who are then members of its room have
\* acknowledged it, or with the last of them.
DeletedOnlyWhenAllAcked ==
  [][\A n \in DOMAIN db.messages \ DOMAIN db'.messages :
       \A p \in FindMembersByRoom(db', db.messages[n].room_id) :
         n <= db'.members[p].last_acked_msg_seq]_vars
-----------------------------------------------------------------------------
(* The abstraction: what ChatRooms says of rooms and users is kept here in   *)
(* two tables and two maps.                                                *)

MemberNamed(r, u) == CHOOSE p \in Namesakes(r, u) : TRUE

RoomKinds ==
  [r \in RoomIds |-> IF r \in DOMAIN db.rooms THEN db.rooms[r] ELSE "none"]

RoomUsers ==
  [r \in RoomIds |-> {db.members[p].username : p \in FindMembersByRoom(db, r)}]

UsersOnline ==
  {<<db.members[p].room_id, db.members[p].username>> :
     p \in {q \in DOMAIN db.members : Online(q)}}

Inboxes ==
  [x \in RoomIds \X Usernames |->
     IF Namesakes(x[1], x[2]) = {} THEN {}
     ELSE PendingMessages(MemberNamed(x[1], x[2]))]

Promise == INSTANCE ChatRooms WITH
  kind <- RoomKinds, members <- RoomUsers, online <- UsersOnline,
  inbox <- Inboxes, posted <- db.nextSeq

\* Every step of the registry is a step of what it promises: above all, an
\* acknowledgement or a leave changes the inbox of no other member.
KeepsPromise == Promise!Spec
=============================================================================

--------------------------- MODULE RoomRegistryProofs ---------------------------
(***************************************************************************)
(* Proofs about RoomRegistry: its operations keep RegistryInv, the inductive *)
(* invariant, and with it types, RAM against database, and names.  On top   *)
(* of it, what the registry promises its members: memberships end only by a  *)
(* leave, a message stays buffered for those who have not acknowledged it,  *)
(* and a direct room stays one.  Last, the registry implements ChatRooms.    *)
(***************************************************************************)
EXTENDS RoomRegistry, FiniteSetTheorems, TLAPS

-----------------------------------------------------------------------------
(* What the operators of RoomStore do to tables, whatever keys and rows are. *)

(***************************************************************************)
(* A row that replaces or is added leaves a table of the same type, and all *)
(* other rows as they are.                                                 *)
(***************************************************************************)
LEMMA ReplaceTable ==
  ASSUME NEW Keys, NEW Rows, NEW table, IsTable(table, Keys, Rows),
         NEW key \in Keys, NEW row \in Rows
  PROVE  /\ IsTable(Replace(table, key, row), Keys, Rows)
         /\ DOMAIN Replace(table, key, row) = DOMAIN table \cup {key}
         /\ Replace(table, key, row)[key] = row
         /\ \A k \in DOMAIN table \ {key} :
              Replace(table, key, row)[k] = table[k]
  BY DEF Replace, IsTable

(***************************************************************************)
(* Removing rows leaves a table of the same type with the other rows.      *)
(***************************************************************************)
LEMMA RemoveTable ==
  ASSUME NEW Keys, NEW Rows, NEW table, IsTable(table, Keys, Rows), NEW gone
  PROVE  /\ IsTable(Remove(table, gone), Keys, Rows)
         /\ DOMAIN Remove(table, gone) = DOMAIN table \ gone
         /\ \A k \in DOMAIN table \ gone : Remove(table, gone)[k] = table[k]
  BY DEF Remove, IsTable

(***************************************************************************)
(* The empty table has every type.                                         *)
(***************************************************************************)
LEMMA EmptyTableIsTable ==
  ASSUME NEW Keys, NEW Rows
  PROVE  IsTable(EmptyTable, Keys, Rows) /\ DOMAIN EmptyTable = {}
  BY DEF EmptyTable, IsTable

-----------------------------------------------------------------------------
(* The store's methods keep a database a database, and touch one table.    *)

(***************************************************************************)
(* saveRoom writes one row of rooms.                                       *)
(***************************************************************************)
LEMMA SaveRoomDb ==
  ASSUME NEW d, IsDb(d), NEW r \in RoomIds, NEW type \in RoomTypes
  PROVE  /\ IsDb(SaveRoom(d, r, type))
         /\ SaveRoom(d, r, type).rooms = Replace(d.rooms, r, type)
         /\ SaveRoom(d, r, type).members = d.members
         /\ SaveRoom(d, r, type).messages = d.messages
         /\ SaveRoom(d, r, type).nextSeq = d.nextSeq
<1>1. IsTable(Replace(d.rooms, r, type), RoomIds, RoomTypes)
  BY ReplaceTable DEF IsDb
<1>2. QED
  BY <1>1 DEF IsDb, SaveRoom

(***************************************************************************)
(* saveMember writes one row of members.                                   *)
(***************************************************************************)
LEMMA SaveMemberDb ==
  ASSUME NEW d, IsDb(d), NEW p \in PeerIds, NEW row \in MemberRow
  PROVE  /\ IsDb(SaveMember(d, p, row))
         /\ SaveMember(d, p, row).rooms = d.rooms
         /\ SaveMember(d, p, row).members = Replace(d.members, p, row)
         /\ SaveMember(d, p, row).messages = d.messages
         /\ SaveMember(d, p, row).nextSeq = d.nextSeq
<1>1. IsTable(Replace(d.members, p, row), PeerIds, MemberRow)
  BY ReplaceTable DEF IsDb
<1>2. QED
  BY <1>1 DEF IsDb, SaveMember

(***************************************************************************)
(* removeMember removes one row of members.                                *)
(***************************************************************************)
LEMMA RemoveMemberDb ==
  ASSUME NEW d, IsDb(d), NEW p
  PROVE  /\ IsDb(RemoveMember(d, p))
         /\ RemoveMember(d, p).rooms = d.rooms
         /\ RemoveMember(d, p).members = Remove(d.members, {p})
         /\ RemoveMember(d, p).messages = d.messages
         /\ RemoveMember(d, p).nextSeq = d.nextSeq
<1>1. IsTable(Remove(d.members, {p}), PeerIds, MemberRow)
  BY RemoveTable DEF IsDb
<1>2. QED
  BY <1>1 DEF IsDb, RemoveMember

(***************************************************************************)
(* saveGroupMessage counts on and adds one row of messages.                *)
(***************************************************************************)
LEMMA SaveGroupMessageDb ==
  ASSUME NEW d, IsDb(d), d.nextSeq < MaxMsgSeq,
         NEW r \in RoomIds, NEW p \in PeerIds
  PROVE  /\ IsDb(SaveGroupMessage(d, r, p))
         /\ SaveGroupMessage(d, r, p).rooms = d.rooms
         /\ SaveGroupMessage(d, r, p).members = d.members
         /\ SaveGroupMessage(d, r, p).messages =
              Replace(d.messages, d.nextSeq + 1,
                      [room_id |-> r, from_peer_id |-> p])
         /\ SaveGroupMessage(d, r, p).nextSeq = d.nextSeq + 1
<1>1. d.nextSeq + 1 \in Seqs /\ d.nextSeq + 1 \in 0..MaxMsgSeq
  BY RegistryAssumption DEF IsDb, Seqs
<1>2. [room_id |-> r, from_peer_id |-> p] \in MessageRow
  BY DEF MessageRow
<1>3. IsTable(Replace(d.messages, d.nextSeq + 1,
                      [room_id |-> r, from_peer_id |-> p]), Seqs, MessageRow)
  BY <1>1, <1>2, ReplaceTable DEF IsDb
<1>4. QED
  BY <1>1, <1>3 DEF IsDb, SaveGroupMessage

(***************************************************************************)
(* Removing any messages leaves the other tables alone.                    *)
(***************************************************************************)
LEMMA RemoveMessagesDb ==
  ASSUME NEW d, IsDb(d), NEW gone
  PROVE  /\ IsDb([d EXCEPT !.messages = Remove(@, gone)])
         /\ [d EXCEPT !.messages = Remove(@, gone)].rooms = d.rooms
         /\ [d EXCEPT !.messages = Remove(@, gone)].members = d.members
         /\ [d EXCEPT !.messages = Remove(@, gone)].messages =
              Remove(d.messages, gone)
         /\ [d EXCEPT !.messages = Remove(@, gone)].nextSeq = d.nextSeq
<1>1. IsTable(Remove(d.messages, gone), Seqs, MessageRow)
  BY RemoveTable DEF IsDb
<1>2. QED
  BY <1>1 DEF IsDb

(***************************************************************************)
(* updateLastAckedSeq sets one member's cursor and nothing else.           *)
(***************************************************************************)
LEMMA UpdateLastAckedSeqDb ==
  ASSUME NEW d, IsDb(d), NEW p, NEW n \in Int
  PROVE  /\ IsDb(UpdateLastAckedSeq(d, p, n))
         /\ UpdateLastAckedSeq(d, p, n).rooms = d.rooms
         /\ DOMAIN UpdateLastAckedSeq(d, p, n).members = DOMAIN d.members
         /\ \A q \in DOMAIN d.members :
              /\ UpdateLastAckedSeq(d, p, n).members[q].username =
                   d.members[q].username
              /\ UpdateLastAckedSeq(d, p, n).members[q].room_id =
                   d.members[q].room_id
              /\ UpdateLastAckedSeq(d, p, n).members[q].last_acked_msg_seq =
                   IF q = p THEN n ELSE d.members[q].last_acked_msg_seq
         /\ UpdateLastAckedSeq(d, p, n).messages = d.messages
         /\ UpdateLastAckedSeq(d, p, n).nextSeq = d.nextSeq
<1>1. \A q \in DOMAIN d.members : d.members[q] \in MemberRow
  BY DEF IsDb, IsTable
<1>2. CASE p \in DOMAIN d.members
  <2> DEFINE row == [d.members[p] EXCEPT !.last_acked_msg_seq = n]
  <2>1. /\ p \in PeerIds
        /\ row = [username |-> d.members[p].username,
                  room_id |-> d.members[p].room_id,
                  last_acked_msg_seq |-> n]
        /\ row \in MemberRow
    BY <1>1, <1>2 DEF IsDb, IsTable, MemberRow
  <2> HIDE DEF row
  <2>2. /\ IsTable(Replace(d.members, p, row), PeerIds, MemberRow)
        /\ DOMAIN Replace(d.members, p, row) = DOMAIN d.members \cup {p}
        /\ Replace(d.members, p, row)[p] = row
        /\ \A q \in DOMAIN d.members \ {p} :
              Replace(d.members, p, row)[q] = d.members[q]
    <3>1. IsTable(d.members, PeerIds, MemberRow)
      BY DEF IsDb
    <3>2. QED
      BY <2>1, <3>1, ReplaceTable
  <2>3. UpdateLastAckedSeq(d, p, n) =
          [d EXCEPT !.members = Replace(d.members, p, row)]
    BY <1>2 DEF UpdateLastAckedSeq, row, IsDb
  <2>4. \A q \in DOMAIN d.members :
          d.members[q] = [username |-> d.members[q].username,
                          room_id |-> d.members[q].room_id,
                          last_acked_msg_seq |-> d.members[q].last_acked_msg_seq]
    BY <1>1 DEF MemberRow
  <2>5. QED
    BY <1>2, <2>1, <2>2, <2>3, <2>4 DEF IsDb
<1>3. CASE p \notin DOMAIN d.members
  BY <1>1, <1>3 DEF UpdateLastAckedSeq, MemberRow
<1>4. QED
  BY <1>2, <1>3

(***************************************************************************)
(* removeRoom removes the room, its members and its messages.              *)
(***************************************************************************)
LEMMA RemoveRoomDb ==
  ASSUME NEW d, IsDb(d), NEW r
  PROVE  /\ IsDb(RemoveRoom(d, r))
         /\ RemoveRoom(d, r).rooms = Remove(d.rooms, {r})
         /\ RemoveRoom(d, r).members =
              Remove(d.members, FindMembersByRoom(d, r))
         /\ RemoveRoom(d, r).messages =
              Remove(d.messages, MessagesOfRoom(d, r))
         /\ RemoveRoom(d, r).nextSeq = d.nextSeq
<1>1. /\ IsTable(Remove(d.rooms, {r}), RoomIds, RoomTypes)
      /\ IsTable(Remove(d.members, FindMembersByRoom(d, r)), PeerIds, MemberRow)
      /\ IsTable(Remove(d.messages, MessagesOfRoom(d, r)), Seqs, MessageRow)
  BY RemoveTable DEF IsDb
<1>2. QED
  BY <1>1 DEF IsDb, RemoveRoom

-----------------------------------------------------------------------------
(* Each operation keeps the types.                                         *)

(***************************************************************************)
(* The tables that Purge, Expired included, keeps are still tables.        *)
(***************************************************************************)
LEMMA PurgeTable ==
  ASSUME RamTypeOK, NEW ps
  PROVE  IsTable(Purge(ps), PeerIds, Sessions \cup {Expired})
BY RemoveTable DEF RamTypeOK, Purge

(***************************************************************************)
(* join has the room stored before it goes on, with the type it settles    *)
(* on, and changes no other table for that.                                *)
(***************************************************************************)
LEMMA WithRoomDb ==
  ASSUME IsDb(db), NEW r \in RoomIds, NEW t \in RequestedTypes
  PROVE  /\ JoinedType(r, t) \in RoomTypes
         /\ IsDb(WithRoom(r, t))
         /\ DOMAIN WithRoom(r, t).rooms = DOMAIN db.rooms \cup {r}
         /\ WithRoom(r, t).rooms[r] = JoinedType(r, t)
         /\ \A q \in DOMAIN db.rooms : WithRoom(r, t).rooms[q] = db.rooms[q]
         /\ WithRoom(r, t).members = db.members
         /\ WithRoom(r, t).messages = db.messages
         /\ WithRoom(r, t).nextSeq = db.nextSeq
<1>1. IsTable(db.rooms, RoomIds, RoomTypes)
  BY DEF IsDb
<1>2. JoinedType(r, t) \in RoomTypes
  BY <1>1 DEF JoinedType, RequestedTypes, RoomTypes, IsTable
<1>3. CASE r \in DOMAIN db.rooms
  BY <1>2, <1>3 DEF WithRoom, JoinedType
<1>4. CASE r \notin DOMAIN db.rooms
  <2>1. /\ WithRoom(r, t) = SaveRoom(db, r, JoinedType(r, t))
        /\ DOMAIN Replace(db.rooms, r, JoinedType(r, t)) = DOMAIN db.rooms \cup {r}
        /\ Replace(db.rooms, r, JoinedType(r, t))[r] = JoinedType(r, t)
        /\ \A k \in DOMAIN db.rooms \ {r} :
             Replace(db.rooms, r, JoinedType(r, t))[k] = db.rooms[k]
    BY <1>1, <1>2, <1>4, ReplaceTable DEF WithRoom
  <2>2. QED
    BY <1>2, <1>4, <2>1, SaveRoomDb
<1>5. QED
  BY <1>3, <1>4

(***************************************************************************)
(* What join writes to RAM has the right types.                            *)
(***************************************************************************)
LEMMA EnterTypes ==
  ASSUME IsDb(db), RamTypeOK,
         NEW s \in Sessions, NEW r \in RoomIds, NEW u \in Usernames,
         NEW t \in RequestedTypes, NEW p \in PeerIds, Enter(s, r, u, t, p)
  PROVE  /\ clients' \subseteq ClientInfo
         /\ IsTable(connections', PeerIds, Sessions \cup {Expired})
<1>1. JoinedType(r, t) \in RoomTypes
  BY WithRoomDb
<1>2. IsTable(Purge(FindMembersByRoom(db, r) \ {p}), PeerIds, Sessions \cup {Expired})
  BY PurgeTable
<1>3. IsTable(connections', PeerIds, Sessions \cup {Expired})
  BY <1>2, ReplaceTable DEF Enter
<1>4. clients' \subseteq ClientInfo
  BY <1>1 DEF Enter, RamTypeOK, ClientInfo
<1>5. QED
  BY <1>3, <1>4

(***************************************************************************)
(* join keeps the types, whether it refuses, reconnects or admits.         *)
(***************************************************************************)
LEMMA JoinsTypes ==
  ASSUME IsDb(db), RamTypeOK, NEW s \in Sessions, Joins(s)
  PROVE  IsDb(db') /\ RamTypeOK'
<1>1. PICK r \in RoomIds, u \in Usernames, t \in RequestedTypes :
        \/ JoinRefused(s, r, u, t)
        \/ JoinReconnect(s, r, u, t)
        \/ JoinNew(s, r, u, t)
  BY DEF Joins
<1>2. IsDb(WithRoom(r, t))
  BY WithRoomDb
<1>3. CASE JoinRefused(s, r, u, t)
  BY <1>2, <1>3 DEF JoinRefused, RamTypeOK
<1>4. CASE JoinReconnect(s, r, u, t)
  <2>1. PICK p \in Namesakes(r, u) :
          /\ db' = SaveMember(WithRoom(r, t), p,
                     [username |-> u, room_id |-> r,
                      last_acked_msg_seq |-> db.members[p].last_acked_msg_seq])
          /\ Enter(s, r, u, t, p)
    BY <1>4 DEF JoinReconnect
  <2>2. p \in PeerIds /\ db.members[p].last_acked_msg_seq \in Int
    BY DEF IsDb, IsTable, MemberRow, Namesakes, FindMembersByRoom
  <2>3. [username |-> u, room_id |-> r,
         last_acked_msg_seq |-> db.members[p].last_acked_msg_seq] \in MemberRow
    BY <2>2 DEF MemberRow
  <2>4. IsDb(db')
    BY <1>2, <2>1, <2>2, <2>3, SaveMemberDb
  <2>5. QED
    BY <1>4, <2>1, <2>2, <2>4, EnterTypes DEF JoinReconnect, RamTypeOK
<1>5. CASE JoinNew(s, r, u, t)
  <2>1. nextPeerSeq \in PeerIds /\ nextPeerSeq' \in 1..(MaxPeerSeq + 1)
    BY <1>5, RegistryAssumption DEF JoinNew, RamTypeOK, PeerIds
  <2>2. [username |-> u, room_id |-> r, last_acked_msg_seq |-> 0] \in MemberRow
    BY DEF MemberRow
  <2>3. IsDb(db')
    BY <1>2, <1>5, <2>1, <2>2, SaveMemberDb DEF JoinNew
  <2>4. owed' \in [PeerIds -> SUBSET Seqs]
    BY <1>5, <2>1 DEF JoinNew, RamTypeOK
  <2>5. QED
    BY <1>5, <2>1, <2>3, <2>4, EnterTypes DEF JoinNew, RamTypeOK
<1>6. QED
  BY <1>1, <1>3, <1>4, <1>5

(***************************************************************************)
(* What a session asks for in a room it is in keeps the types.             *)
(***************************************************************************)
LEMMA RequestsTypes ==
  ASSUME IsDb(db), RamTypeOK, NEW acks \in SUBSET Int,
         NEW c \in clients, Requests(c, acks)
  PROVE  IsDb(db') /\ RamTypeOK'
<1>1. c \in ClientInfo /\ c.peerId \in PeerIds /\ c.roomId \in RoomIds
  BY DEF RamTypeOK, ClientInfo
<1>2. ASSUME NEW p \in PeerIds, Route(c, p)
      PROVE  IsDb(db') /\ RamTypeOK'
  BY <1>2, PurgeTable DEF Route, RamTypeOK
<1>3. CASE Broadcast(c)
  <2>1. IsDb(db')
    BY <1>1, <1>3, SaveGroupMessageDb DEF Broadcast
  <2>2. db.nextSeq + 1 \in Seqs
    BY <1>3, RegistryAssumption DEF Broadcast, IsDb, Seqs
  <2>3. owed' \in [PeerIds -> SUBSET Seqs]
    BY <1>3, <2>2 DEF Broadcast, Owe, RamTypeOK
  <2>4. IsTable(connections', PeerIds, Sessions \cup {Expired})
    BY <1>3, PurgeTable DEF Broadcast
  <2>5. QED
    BY <1>3, <2>1, <2>3, <2>4 DEF Broadcast, RamTypeOK
<1>4. ASSUME NEW n \in acks, Acknowledge(c, n)
      PROVE  IsDb(db') /\ RamTypeOK'
  <2>1. IsDb(UpdateLastAckedSeq(db, c.peerId, n))
    BY UpdateLastAckedSeqDb
  <2>2. IsDb(db')
    BY <1>4, <2>1, RemoveMessagesDb DEF Acknowledge, CleanupMessages
  <2>3. owed' \in [PeerIds -> SUBSET Seqs]
    BY <1>1, <1>4 DEF Acknowledge, RamTypeOK
  <2>4. QED
    BY <1>4, <2>2, <2>3 DEF Acknowledge, RamTypeOK
<1>5. CASE Leave(c)
  <2> DEFINE rest == RemoveMember(db, c.peerId)
  <2>1. IsDb(rest)
    BY RemoveMemberDb
  <2>2. IsDb(RemoveRoom(RemoveGroupMessagesByRoom(rest, c.roomId), c.roomId))
    <3>1. IsDb(RemoveGroupMessagesByRoom(rest, c.roomId))
      BY <2>1, RemoveMessagesDb DEF RemoveGroupMessagesByRoom
    <3>2. QED
      BY <3>1, RemoveRoomDb
  <2>3. IsDb(CleanupMessages(rest, c.roomId))
    BY <2>1, RemoveMessagesDb DEF CleanupMessages
  <2>4. IsDb(db')
    BY <1>5, <2>2, <2>3 DEF Leave, WithoutMember
  <2>5. IsTable(connections', PeerIds, Sessions \cup {Expired})
    BY <1>5, PurgeTable, RemoveTable DEF Leave
  <2>6. owed' \in [PeerIds -> SUBSET Seqs]
    BY <1>1, <1>5 DEF Leave, RamTypeOK
  <2>7. QED
    BY <1>5, <2>4, <2>5, <2>6 DEF Leave, RamTypeOK
<1>6. QED
  BY <1>2, <1>3, <1>4, <1>5 DEF Requests

(***************************************************************************)
(* disconnect keeps the types.                                             *)
(***************************************************************************)
LEMMA DisconnectTypes ==
  ASSUME IsDb(db), RamTypeOK, NEW s \in Sessions, Disconnect(s)
  PROVE  IsDb(db') /\ RamTypeOK'
<1> DEFINE met == UNION {FindMembersByRoom(db, c.roomId) : c \in ClientsOf(s)}
           own == {c.peerId : c \in ClientsOf(s)}
<1>1. IsTable(Purge(met), PeerIds, Sessions \cup {Expired})
  BY PurgeTable
<1>2. connections' = Remove(Purge(met), own)
  BY DEF Disconnect
<1>3. IsTable(connections', PeerIds, Sessions \cup {Expired})
  BY <1>1, <1>2, RemoveTable
<1>4. clients' \subseteq ClientInfo
  BY DEF Disconnect, RamTypeOK
<1>5. QED
  BY <1>3, <1>4 DEF Disconnect, RamTypeOK

(***************************************************************************)
(* leave takes the member out, takes no other member along and changes no  *)
(* other row; rooms go only when it was the last member, messages only of   *)
(* its room.                                                               *)
(***************************************************************************)
LEMMA LeaveMembers ==
  ASSUME IsDb(db), NEW c \in clients
  PROVE  /\ DOMAIN WithoutMember(c).members = DOMAIN db.members \ {c.peerId}
         /\ \A p \in DOMAIN db.members \ {c.peerId} :
              WithoutMember(c).members[p] = db.members[p]
         /\ WithoutMember(c).nextSeq = db.nextSeq
         /\ IF FindMembersByRoom(db, c.roomId) \subseteq {c.peerId}
            THEN /\ WithoutMember(c).rooms = Remove(db.rooms, {c.roomId})
                 /\ WithoutMember(c).messages =
                      Remove(db.messages, MessagesOfRoom(db, c.roomId))
            ELSE /\ WithoutMember(c).rooms = db.rooms
                 /\ WithoutMember(c).messages =
                      Remove(db.messages,
                        {n \in MessagesOfRoom(db, c.roomId) :
                           \A p \in FindMembersByRoom(db, c.roomId) \ {c.peerId} :
                             /\ db.members[p].last_acked_msg_seq > 0
                             /\ n <= db.members[p].last_acked_msg_seq})
<1> DEFINE rest   == RemoveMember(db, c.peerId)
           bare   == RemoveGroupMessagesByRoom(rest, c.roomId)
           others == FindMembersByRoom(db, c.roomId) \ {c.peerId}
<1>1. /\ IsDb(rest)
      /\ rest.rooms = db.rooms
      /\ rest.messages = db.messages
      /\ rest.nextSeq = db.nextSeq
      /\ rest.members = Remove(db.members, {c.peerId})
  BY RemoveMemberDb
<1>2. /\ DOMAIN rest.members = DOMAIN db.members \ {c.peerId}
      /\ \A p \in DOMAIN db.members \ {c.peerId} : rest.members[p] = db.members[p]
  <2>1. IsTable(db.members, PeerIds, MemberRow)
    BY DEF IsDb
  <2>2. QED
    BY <1>1, <2>1, RemoveTable
<1>3. FindMembersByRoom(rest, c.roomId) = others
  BY <1>2 DEF FindMembersByRoom
<1>4. MessagesOfRoom(rest, c.roomId) = MessagesOfRoom(db, c.roomId)
  BY <1>1 DEF MessagesOfRoom
<1> HIDE DEF rest
<1>5. CASE others = {}
  <2>1. /\ IsDb(bare)
        /\ bare.rooms = db.rooms
        /\ bare.members = rest.members
        /\ bare.messages = Remove(db.messages, MessagesOfRoom(db, c.roomId))
        /\ bare.nextSeq = db.nextSeq
    BY <1>1, <1>4, RemoveMessagesDb DEF RemoveGroupMessagesByRoom
  <2>2. /\ FindMembersByRoom(bare, c.roomId) = {}
        /\ MessagesOfRoom(bare, c.roomId) = {}
    BY <1>3, <1>5, <2>1 DEF FindMembersByRoom, MessagesOfRoom, Remove
  <2> HIDE DEF bare
  <2>3. /\ RemoveRoom(bare, c.roomId).rooms = Remove(db.rooms, {c.roomId})
        /\ RemoveRoom(bare, c.roomId).members = Remove(rest.members, {})
        /\ RemoveRoom(bare, c.roomId).messages = Remove(bare.messages, {})
        /\ RemoveRoom(bare, c.roomId).nextSeq = db.nextSeq
    <3>1. /\ RemoveRoom(bare, c.roomId).rooms = Remove(bare.rooms, {c.roomId})
          /\ RemoveRoom(bare, c.roomId).members =
               Remove(bare.members, FindMembersByRoom(bare, c.roomId))
          /\ RemoveRoom(bare, c.roomId).messages =
               Remove(bare.messages, MessagesOfRoom(bare, c.roomId))
          /\ RemoveRoom(bare, c.roomId).nextSeq = bare.nextSeq
      BY <2>1, RemoveRoomDb
    <3>2. QED
      BY <2>1, <2>2, <3>1
  <2>4. Remove(rest.members, {}) = rest.members
    BY <1>1 DEF Remove, IsDb, IsTable
  <2>5. Remove(bare.messages, {}) = bare.messages
    BY <2>1 DEF Remove, IsDb, IsTable
  <2>6. WithoutMember(c) = RemoveRoom(bare, c.roomId)
    BY <1>3, <1>5 DEF WithoutMember, rest, bare
  <2>7. FindMembersByRoom(db, c.roomId) \subseteq {c.peerId}
    BY <1>5
  <2>8. QED
    BY <1>2, <2>1, <2>3, <2>4, <2>5, <2>6, <2>7
<1>6. CASE others # {}
  <2>1. WithoutMember(c) = CleanupMessages(rest, c.roomId)
    BY <1>3, <1>6 DEF WithoutMember, rest
  <2>2. /\ WithoutMember(c).rooms = db.rooms
        /\ WithoutMember(c).members = rest.members
        /\ WithoutMember(c).messages =
             Remove(db.messages, Cleanable(rest, c.roomId))
        /\ WithoutMember(c).nextSeq = db.nextSeq
    BY <1>1, <2>1, RemoveMessagesDb DEF CleanupMessages
  <2>3. Cleanable(rest, c.roomId) =
          {n \in MessagesOfRoom(db, c.roomId) :
             \A p \in others : /\ db.members[p].last_acked_msg_seq > 0
                               /\ n <= db.members[p].last_acked_msg_seq}
    BY <1>2, <1>3, <1>4, <1>6 DEF Cleanable, FindMembersByRoom
  <2>4. ~(FindMembersByRoom(db, c.roomId) \subseteq {c.peerId})
    BY <1>6
  <2>5. QED
    BY <1>2, <2>2, <2>3, <2>4
<1>7. QED
  BY <1>5, <1>6

-----------------------------------------------------------------------------
(* No cursor gets ahead of the counter of messages.                        *)

(***************************************************************************)
(* join moves no cursor, and starts new members at zero.                   *)
(***************************************************************************)
LEMMA JoinsCursors ==
  ASSUME IsDb(db), RamTypeOK, CursorsSent, NEW s \in Sessions, Joins(s)
  PROVE  CursorsSent'
<1>1. PICK r \in RoomIds, u \in Usernames, t \in RequestedTypes :
        \/ JoinRefused(s, r, u, t)
        \/ JoinReconnect(s, r, u, t)
        \/ JoinNew(s, r, u, t)
  BY DEF Joins
<1>2. /\ IsDb(WithRoom(r, t))
      /\ WithRoom(r, t).members = db.members
      /\ WithRoom(r, t).nextSeq = db.nextSeq
  BY WithRoomDb
<1>3. db.nextSeq \in Nat
  BY DEF IsDb
<1>4. ASSUME NEW p \in PeerIds, NEW n \in 0..db.nextSeq,
             db' = SaveMember(WithRoom(r, t), p,
                     [username |-> u, room_id |-> r, last_acked_msg_seq |-> n])
      PROVE  CursorsSent'
  <2> DEFINE row == [username |-> u, room_id |-> r, last_acked_msg_seq |-> n]
  <2>0. row.last_acked_msg_seq = n
    OBVIOUS
  <2>1. row \in MemberRow
    BY <1>3 DEF MemberRow
  <2> HIDE DEF row
  <2>2. db'.members = Replace(db.members, p, row) /\ db'.nextSeq = db.nextSeq
    BY <1>2, <1>4, <2>1, SaveMemberDb DEF row
  <2>3. /\ DOMAIN db'.members = DOMAIN db.members \cup {p}
        /\ db'.members[p] = row
        /\ \A q \in DOMAIN db.members \ {p} : db'.members[q] = db.members[q]
    BY <2>2 DEF Replace
  <2>4. QED
    BY <2>0, <2>2, <2>3 DEF CursorsSent
<1>5. CASE JoinRefused(s, r, u, t)
  BY <1>2, <1>5 DEF JoinRefused, CursorsSent
<1>6. CASE JoinReconnect(s, r, u, t)
  <2>1. PICK p \in Namesakes(r, u) :
          db' = SaveMember(WithRoom(r, t), p,
                  [username |-> u, room_id |-> r,
                   last_acked_msg_seq |-> db.members[p].last_acked_msg_seq])
    BY <1>6 DEF JoinReconnect
  <2>2. p \in PeerIds /\ db.members[p].last_acked_msg_seq \in 0..db.nextSeq
    BY DEF IsDb, IsTable, Namesakes, FindMembersByRoom, CursorsSent
  <2>3. QED
    BY <1>4, <2>1, <2>2
<1>7. CASE JoinNew(s, r, u, t)
  <2>1. nextPeerSeq \in PeerIds /\ 0 \in 0..db.nextSeq
    BY <1>3, <1>7, RegistryAssumption DEF JoinNew, RamTypeOK, PeerIds
  <2>2. QED
    BY <1>4, <1>7, <2>1 DEF JoinNew
<1>8. QED
  BY <1>1, <1>5, <1>6, <1>7

(***************************************************************************)
(* A session's requests leave each cursor among the messages sent.         *)
(***************************************************************************)
LEMMA RequestsCursors ==
  ASSUME IsDb(db), RamTypeOK, CursorsSent,
         NEW c \in clients, Requests(c, SentSeqs)
  PROVE  CursorsSent'
<1>1. c.peerId \in PeerIds /\ c.roomId \in RoomIds
  BY DEF RamTypeOK, ClientInfo
<1>2. db.nextSeq \in Nat
  BY DEF IsDb
<1>3. ASSUME NEW p \in PeerIds, Route(c, p)
      PROVE  CursorsSent'
  BY <1>3 DEF Route, CursorsSent
<1>4. CASE Broadcast(c)
  <2>1. db'.members = db.members /\ db'.nextSeq = db.nextSeq + 1
    BY <1>1, <1>4, SaveGroupMessageDb DEF Broadcast
  <2>2. QED
    BY <1>2, <2>1 DEF CursorsSent
<1>5. ASSUME NEW n \in SentSeqs, Acknowledge(c, n)
      PROVE  CursorsSent'
  <2> DEFINE acked == UpdateLastAckedSeq(db, c.peerId, n)
  <2>1. n \in Int /\ n \in 0..db.nextSeq
    BY <1>2 DEF SentSeqs
  <2>2. /\ IsDb(acked)
        /\ DOMAIN acked.members = DOMAIN db.members
        /\ \A q \in DOMAIN db.members :
             acked.members[q].last_acked_msg_seq =
               IF q = c.peerId THEN n ELSE db.members[q].last_acked_msg_seq
        /\ acked.nextSeq = db.nextSeq
    BY <2>1, UpdateLastAckedSeqDb
  <2> HIDE DEF acked
  <2>3. db'.members = acked.members /\ db'.nextSeq = acked.nextSeq
    BY <1>5, <2>2, RemoveMessagesDb DEF Acknowledge, CleanupMessages, acked
  <2>4. QED
    BY <2>1, <2>2, <2>3 DEF CursorsSent
<1>6. CASE Leave(c)
  <2>1. /\ DOMAIN db'.members \subseteq DOMAIN db.members
        /\ \A p \in DOMAIN db'.members : db'.members[p] = db.members[p]
        /\ db'.nextSeq = db.nextSeq
    BY <1>6, LeaveMembers DEF Leave
  <2>2. QED
    BY <2>1 DEF CursorsSent
<1>7. QED
  BY <1>3, <1>4, <1>5, <1>6 DEF Requests

(***************************************************************************)
(* Type correctness, the range of the cursors included.                    *)
(***************************************************************************)
LEMMA InitTypeOK == Init => TypeOK
<1> SUFFICES ASSUME Init PROVE TypeOK
  OBVIOUS
<1>1. IsDb(db)
  BY RegistryAssumption, EmptyTableIsTable DEF Init, EmptyDb, IsDb
<1>2. RamTypeOK
  BY RegistryAssumption, EmptyTableIsTable DEF Init, RamTypeOK
<1>3. CursorsSent
  BY EmptyTableIsTable DEF Init, EmptyDb, CursorsSent
<1>4. QED
  BY <1>1, <1>2, <1>3 DEF Init, TypeOK

(***************************************************************************)
(* Every step keeps the types.                                              *)
(***************************************************************************)
LEMMA NextTypeOK == TypeOK /\ [Next]_vars => TypeOK'
<1> SUFFICES ASSUME TypeOK, [Next]_vars PROVE TypeOK'
  OBVIOUS
<1> USE DEF TypeOK
<1>1. ASSUME NEW s \in Sessions, Accept(s)
      PROVE  TypeOK'
  BY <1>1 DEF Accept, RamTypeOK, CursorsSent
<1>2. ASSUME NEW s \in Sessions, Joins(s), UNCHANGED session
      PROVE  TypeOK'
  BY <1>2, JoinsTypes, JoinsCursors
<1>3. ASSUME NEW s \in Sessions, NEW c \in ClientsOf(s),
             Requests(c, SentSeqs), UNCHANGED session
      PROVE  TypeOK'
  <2>1. c \in clients /\ SentSeqs \in SUBSET Int
    BY DEF ClientsOf, SentSeqs, IsDb
  <2>2. QED
    BY <1>3, <2>1, RequestsTypes, RequestsCursors
<1>4. ASSUME NEW s \in Sessions, Close(s)
      PROVE  TypeOK'
  <2>1. Disconnect(s) /\ session' \in [Sessions -> {"absent", "open"}]
    BY <1>4 DEF Close
  <2>2. CursorsSent'
    BY <2>1 DEF Disconnect, CursorsSent
  <2>3. QED
    BY <2>1, <2>2, DisconnectTypes
<1>5. CASE UNCHANGED vars
  BY <1>5 DEF vars, RamTypeOK, CursorsSent
<1>6. QED
  BY <1>1, <1>2, <1>3, <1>4, <1>5 DEF Next

(***************************************************************************)
(* Type correctness of the registry, for any sets of sessions, rooms and    *)
(* names: and no member's cursor gets ahead of the messages sent.           *)
(***************************************************************************)
THEOREM TypeCorrect == Spec => []TypeOK
<1>1. QED
  BY InitTypeOK, NextTypeOK, PTL DEF Spec

-----------------------------------------------------------------------------
(* RAM and database agree.  RegistryInv is inductive: that join cannot find *)
(* a stale presence, nor hand out an id in use, is what its parts say of    *)
(* one another.                                                            *)

(***************************************************************************)
(* In a run without faults no weak pointer has expired, so looking peers up *)
(* erases nothing.                                                         *)
(***************************************************************************)
LEMMA PurgeNothing ==
  ASSUME RegistryInv, NEW ps
  PROVE  Purge(ps) = connections
<1>1. \A p \in DOMAIN connections : connections[p] # Expired
  BY RegistryAssumption
  DEF RegistryInv, TypeOK, RamTypeOK, ConnectionsMatchClients, ClientInfo
<1>2. connections = [p \in DOMAIN connections |-> connections[p]]
  BY DEF RegistryInv, TypeOK, RamTypeOK, IsTable
<1>3. QED
  BY <1>1, <1>2 DEF Purge, Remove

(***************************************************************************)
(* A member whom connections_ does not know online has no session.         *)
(***************************************************************************)
LEMMA OfflineMember ==
  ASSUME RegistryInv, NEW p, ~Online(p)
  PROVE  p \notin DOMAIN connections /\ \A c \in clients : c.peerId # p
<1>1. p \notin DOMAIN connections
  BY RegistryAssumption
  DEF Online, RegistryInv, TypeOK, RamTypeOK, ConnectionsMatchClients, ClientInfo
<1>2. QED
  BY <1>1 DEF RegistryInv, ConnectionsMatchClients

\* What join does when it admits session s to room r as user u and member p.
Admits(s, r, u, type, p) ==
  /\ p \in PeerIds
  /\ p \notin DOMAIN connections
  /\ \A c \in clients : c.peerId # p
  /\ \A q \in DOMAIN db.members :
       db.members[q].room_id = r /\ db.members[q].username = u => q = p
  /\ DOMAIN db'.members = DOMAIN db.members \cup {p}
  /\ db'.members[p].room_id = r
  /\ db'.members[p].username = u
  /\ \A q \in DOMAIN db.members :
       /\ db'.members[q].room_id = db.members[q].room_id
       /\ db'.members[q].username = db.members[q].username
  /\ DOMAIN db'.rooms = DOMAIN db.rooms \cup {r}
  /\ db'.rooms[r] = type
  /\ \A q \in DOMAIN db.rooms : db'.rooms[q] = db.rooms[q]
  /\ db'.messages = db.messages
  /\ db'.nextSeq = db.nextSeq
  /\ clients' = clients \cup
       {[session |-> s, roomId |-> r, peerId |-> p, username |-> u,
         roomType |-> type]}
  /\ DOMAIN connections' = DOMAIN connections \cup {p}
  /\ connections'[p] = s
  /\ \A q \in DOMAIN connections : connections'[q] = connections[q]
  /\ nextPeerSeq' \in {nextPeerSeq, nextPeerSeq + 1}
  /\ p < nextPeerSeq'

(***************************************************************************)
(* A member that comes back is admitted as itself.                         *)
(***************************************************************************)
LEMMA ReconnectAdmits ==
  ASSUME RegistryInv, NEW s \in Sessions, NEW r \in RoomIds,
         NEW u \in Usernames, NEW t \in RequestedTypes, JoinReconnect(s, r, u, t)
  PROVE  \E p \in PeerIds : Admits(s, r, u, JoinedType(r, t), p)
<1>1. PICK p \in Namesakes(r, u) :
        /\ ~Online(p)
        /\ db' = SaveMember(WithRoom(r, t), p,
                   [username |-> u, room_id |-> r,
                    last_acked_msg_seq |-> db.members[p].last_acked_msg_seq])
        /\ Enter(s, r, u, t, p)
  BY DEF JoinReconnect
<1>2. /\ IsDb(db)
      /\ p \in DOMAIN db.members /\ p \in PeerIds
      /\ db.members[p].room_id = r /\ db.members[p].username = u
      /\ db.members[p].last_acked_msg_seq \in Int
      /\ p < nextPeerSeq
  BY DEF RegistryInv, TypeOK, PeerIdsFresh, IsDb, IsTable, MemberRow, Namesakes,
         FindMembersByRoom
<1> DEFINE row == [username |-> u, room_id |-> r,
                   last_acked_msg_seq |-> db.members[p].last_acked_msg_seq]
<1>3. row \in MemberRow /\ row.username = u /\ row.room_id = r
  BY <1>2 DEF MemberRow
<1> HIDE DEF row
<1>4. /\ IsDb(WithRoom(r, t))
      /\ DOMAIN WithRoom(r, t).rooms = DOMAIN db.rooms \cup {r}
      /\ WithRoom(r, t).rooms[r] = JoinedType(r, t)
      /\ \A q \in DOMAIN db.rooms : WithRoom(r, t).rooms[q] = db.rooms[q]
      /\ WithRoom(r, t).members = db.members
      /\ WithRoom(r, t).messages = db.messages
      /\ WithRoom(r, t).nextSeq = db.nextSeq
  BY <1>2, WithRoomDb
<1>5. /\ db'.rooms = WithRoom(r, t).rooms
      /\ db'.members = Replace(db.members, p, row)
      /\ db'.messages = db.messages
      /\ db'.nextSeq = db.nextSeq
  BY <1>1, <1>2, <1>3, <1>4, SaveMemberDb DEF row
<1>6. /\ p \notin DOMAIN connections
      /\ \A c \in clients : c.peerId # p
  BY <1>1, OfflineMember
<1>7. /\ DOMAIN db'.members = DOMAIN db.members \cup {p}
      /\ db'.members[p] = row
      /\ \A q \in DOMAIN db.members \ {p} : db'.members[q] = db.members[q]
  BY <1>5 DEF Replace
<1>8. \A q \in DOMAIN db.members :
        db.members[q].room_id = r /\ db.members[q].username = u => q = p
  BY <1>2 DEF RegistryInv, UniqueUsernames
<1>9. /\ DOMAIN connections' = DOMAIN connections \cup {p}
      /\ connections'[p] = s
      /\ \A q \in DOMAIN connections : connections'[q] = connections[q]
  BY <1>1, <1>6, PurgeNothing DEF Enter, Replace
<1>10. /\ clients' = clients \cup
            {[session |-> s, roomId |-> r, peerId |-> p, username |-> u,
              roomType |-> JoinedType(r, t)]}
       /\ nextPeerSeq' = nextPeerSeq
  BY <1>1 DEF Enter, JoinReconnect
<1>11. QED
  BY <1>2, <1>3, <1>4, <1>5, <1>6, <1>7, <1>8, <1>9, <1>10 DEF Admits

(***************************************************************************)
(* A new member is admitted under an id nobody has.                        *)
(***************************************************************************)
LEMMA NewAdmits ==
  ASSUME RegistryInv, NEW s \in Sessions, NEW r \in RoomIds,
         NEW u \in Usernames, NEW t \in RequestedTypes, JoinNew(s, r, u, t)
  PROVE  \E p \in PeerIds : Admits(s, r, u, JoinedType(r, t), p)
<1> DEFINE p   == nextPeerSeq
           row == [username |-> u, room_id |-> r, last_acked_msg_seq |-> 0]
<1>1. /\ db' = SaveMember(WithRoom(r, t), p, row)
      /\ Enter(s, r, u, t, p)
      /\ nextPeerSeq' = p + 1
      /\ Namesakes(r, u) = {}
  BY DEF JoinNew
<1>2. /\ IsDb(db)
      /\ p \in PeerIds /\ p \in Nat
      /\ p \notin DOMAIN db.members
  BY RegistryAssumption
  DEF JoinNew, RegistryInv, TypeOK, RamTypeOK, PeerIdsFresh, PeerIds
<1>3. row \in MemberRow /\ row.username = u /\ row.room_id = r
  BY DEF MemberRow
<1> HIDE DEF row
<1>4. /\ IsDb(WithRoom(r, t))
      /\ DOMAIN WithRoom(r, t).rooms = DOMAIN db.rooms \cup {r}
      /\ WithRoom(r, t).rooms[r] = JoinedType(r, t)
      /\ \A q \in DOMAIN db.rooms : WithRoom(r, t).rooms[q] = db.rooms[q]
      /\ WithRoom(r, t).members = db.members
      /\ WithRoom(r, t).messages = db.messages
      /\ WithRoom(r, t).nextSeq = db.nextSeq
  BY <1>2, WithRoomDb
<1>5. /\ db'.rooms = WithRoom(r, t).rooms
      /\ db'.members = Replace(db.members, p, row)
      /\ db'.messages = db.messages
      /\ db'.nextSeq = db.nextSeq
  BY <1>1, <1>2, <1>3, <1>4, SaveMemberDb
<1>6. \A c \in clients : c.peerId # p
  BY <1>2 DEF RegistryInv, ClientsAreMembers
<1>7. p \notin DOMAIN connections
  BY <1>6 DEF RegistryInv, ConnectionsMatchClients
<1>8. /\ DOMAIN db'.members = DOMAIN db.members \cup {p}
      /\ db'.members[p] = row
      /\ \A q \in DOMAIN db.members : db'.members[q] = db.members[q]
  BY <1>2, <1>5 DEF Replace
<1>9. \A q \in DOMAIN db.members :
        ~(db.members[q].room_id = r /\ db.members[q].username = u)
  BY <1>1 DEF Namesakes, FindMembersByRoom
<1>10. /\ DOMAIN connections' = DOMAIN connections \cup {p}
       /\ connections'[p] = s
       /\ \A q \in DOMAIN connections : connections'[q] = connections[q]
  BY <1>1, <1>7, PurgeNothing DEF Enter, Replace
<1>11. clients' = clients \cup
         {[session |-> s, roomId |-> r, peerId |-> p, username |-> u,
           roomType |-> JoinedType(r, t)]}
  BY <1>1 DEF Enter
<1>12. QED
  BY <1>1, <1>2, <1>3, <1>4, <1>5, <1>6, <1>7, <1>8, <1>9, <1>10, <1>11 DEF Admits

(***************************************************************************)
(* A refused join leaves nothing behind: the room it would have saved is    *)
(* already there.                                                          *)
(***************************************************************************)
LEMMA RefusedChangesNothing ==
  ASSUME RegistryInv, NEW s \in Sessions, NEW r \in RoomIds,
         NEW u \in Usernames, NEW t \in RequestedTypes, JoinRefused(s, r, u, t)
  PROVE  UNCHANGED <<db, clients, connections, nextPeerSeq, owed>>
<1>1. FindMembersByRoom(db, r) # {}
  <2>1. CASE \E p \in Namesakes(r, u) : Online(p)
    BY <2>1 DEF Namesakes
  <2>2. CASE Full(r, t)
    BY <2>2, FS_EmptySet DEF Full
  <2>3. QED
    BY <2>1, <2>2 DEF JoinRefused
<1>2. r \in DOMAIN db.rooms
  BY <1>1 DEF RegistryInv, StoreConsistent, MembersHaveRooms, FindMembersByRoom
<1>3. QED
  BY <1>2 DEF JoinRefused, WithRoom

\* The parts of RegistryInv that TypeOK leaves to prove.
Agreement ==
  /\ ClientsAreMembers
  /\ ConnectionsMatchClients
  /\ UniqueUsernames
  /\ StoreConsistent
  /\ PeerIdsFresh

(***************************************************************************)
(* Whoever is admitted, RAM and database agree afterwards.                 *)
(***************************************************************************)
LEMMA AdmitsKeepsAgreement ==
  ASSUME RegistryInv, NEW s \in Sessions, session[s] = "open",
         UNCHANGED session, NEW r, NEW u, NEW type, NEW p,
         Admits(s, r, u, type, p)
  PROVE  Agreement'
<1> DEFINE entry == [session |-> s, roomId |-> r, peerId |-> p, username |-> u,
                     roomType |-> type]
<1>0. /\ entry.session = s /\ entry.roomId = r /\ entry.peerId = p
      /\ entry.username = u /\ entry.roomType = type
      /\ clients' = clients \cup {entry}
  BY DEF Admits
<1> HIDE DEF entry
<1>1. ClientsAreMembers'
  <2> SUFFICES ASSUME NEW c \in clients'
               PROVE  /\ session'[c.session] = "open"
                      /\ c.peerId \in DOMAIN db'.members
                      /\ db'.members[c.peerId].room_id = c.roomId
                      /\ db'.members[c.peerId].username = c.username
                      /\ db'.rooms[c.roomId] = c.roomType
    BY DEF ClientsAreMembers
  <2>1. CASE c = entry
    BY <1>0, <2>1 DEF Admits
  <2>2. CASE c \in clients
    <3>1. c.roomId \in DOMAIN db.rooms
      BY <2>2 DEF RegistryInv, ClientsAreMembers, StoreConsistent, MembersHaveRooms
    <3>2. QED
      BY <2>2, <3>1 DEF Admits, RegistryInv, ClientsAreMembers
  <2>3. QED
    BY <1>0, <2>1, <2>2
<1>2. ConnectionsMatchClients'
  <2>1. \A c \in clients' : /\ c.peerId \in DOMAIN connections'
                            /\ connections'[c.peerId] = c.session
    BY <1>0 DEF Admits, RegistryInv, ConnectionsMatchClients
  <2>2. \A q \in DOMAIN connections' :
          \E c \in clients' : c.peerId = q /\ c.session = connections'[q]
    BY <1>0 DEF Admits, RegistryInv, ConnectionsMatchClients
  <2>3. \A c, d \in clients' : c.peerId = d.peerId => c = d
    BY <1>0 DEF Admits, RegistryInv, ConnectionsMatchClients
  <2>4. QED
    BY <2>1, <2>2, <2>3 DEF ConnectionsMatchClients
<1>3. UniqueUsernames'
  BY DEF Admits, RegistryInv, UniqueUsernames
<1>4. StoreConsistent'
  <2>1. MembersHaveRooms'
    BY DEF Admits, RegistryInv, StoreConsistent, MembersHaveRooms
  <2>2. RoomsHaveMembers'
    BY DEF Admits, RegistryInv, StoreConsistent, RoomsHaveMembers, FindMembersByRoom
  <2>3. MessagesHaveRooms'
    BY DEF Admits, RegistryInv, StoreConsistent, MessagesHaveRooms
  <2>4. QED
    BY <2>1, <2>2, <2>3 DEF StoreConsistent
<1>5. PeerIdsFresh'
  <2>1. nextPeerSeq \in Int /\ \A q \in DOMAIN db.members : q \in Int
    BY RegistryAssumption
    DEF RegistryInv, TypeOK, RamTypeOK, IsDb, IsTable, PeerIds
  <2>2. QED
    BY <2>1 DEF Admits, RegistryInv, PeerIdsFresh
<1>6. QED
  BY <1>1, <1>2, <1>3, <1>4, <1>5 DEF Agreement

(***************************************************************************)
(* A join adds one client and one connection, of the same member.           *)
(***************************************************************************)
LEMMA JoinsKeepAgreement ==
  ASSUME RegistryInv, NEW s \in Sessions, session[s] = "open",
         Joins(s), UNCHANGED session
  PROVE  Agreement'
<1>1. PICK r \in RoomIds, u \in Usernames, t \in RequestedTypes :
        \/ JoinRefused(s, r, u, t)
        \/ JoinReconnect(s, r, u, t)
        \/ JoinNew(s, r, u, t)
  BY DEF Joins
<1>2. CASE JoinRefused(s, r, u, t)
  <2>1. UNCHANGED <<db, clients, connections, nextPeerSeq, owed>>
    BY <1>2, RefusedChangesNothing
  <2>2. QED
    BY <2>1
    DEF Agreement, RegistryInv, ClientsAreMembers, ConnectionsMatchClients,
        UniqueUsernames, StoreConsistent, MembersHaveRooms, RoomsHaveMembers,
        MessagesHaveRooms, PeerIdsFresh
<1>3. CASE JoinReconnect(s, r, u, t)
  BY <1>3, ReconnectAdmits, AdmitsKeepsAgreement
<1>4. CASE JoinNew(s, r, u, t)
  BY <1>4, NewAdmits, AdmitsKeepsAgreement
<1>5. QED
  BY <1>1, <1>2, <1>3, <1>4

(***************************************************************************)
(* The requests of a session that is in a room: route and broadcast move    *)
(* no one, acknowledgeMessages moves one cursor, leave takes one member out *)
(* of both RAM and database.                                               *)
(***************************************************************************)
LEMMA BroadcastKeepsAgreement ==
  ASSUME RegistryInv, NEW c \in clients, Broadcast(c), UNCHANGED session
  PROVE  Agreement'
<1>1. /\ IsDb(db)
      /\ c.peerId \in PeerIds /\ c.roomId \in RoomIds
      /\ c.roomId \in DOMAIN db.rooms
      /\ db.rooms[c.roomId] = "group"
  BY DEF Broadcast, RegistryInv, TypeOK, RamTypeOK, ClientInfo, ClientsAreMembers,
         StoreConsistent, MembersHaveRooms
<1> DEFINE n   == db.nextSeq + 1
           row == [room_id |-> c.roomId, from_peer_id |-> c.peerId]
<1>2. /\ db'.rooms = db.rooms
      /\ db'.members = db.members
      /\ db'.messages = Replace(db.messages, n, row)
      /\ db'.nextSeq = n
  BY <1>1, SaveGroupMessageDb DEF Broadcast
<1>3. /\ clients' = clients /\ nextPeerSeq' = nextPeerSeq
      /\ connections' = connections
  BY PurgeNothing DEF Broadcast
<1>4. MessagesHaveRooms'
  <2>1. row.room_id = c.roomId /\ n \in Int /\ db.nextSeq \in Int
    BY <1>1 DEF IsDb
  <2> HIDE DEF row
  <2>2. /\ DOMAIN db'.messages = DOMAIN db.messages \cup {n}
        /\ db'.messages[n] = row
        /\ \A k \in DOMAIN db.messages \ {n} : db'.messages[k] = db.messages[k]
    BY <1>2 DEF Replace
  <2>3. \A k \in DOMAIN db.messages : k \in Int
    BY <1>1 DEF IsDb, IsTable, Seqs
  <2>4. QED
    BY <1>1, <1>2, <2>1, <2>2, <2>3
    DEF RegistryInv, StoreConsistent, MessagesHaveRooms
<1>5. QED
  BY <1>2, <1>3, <1>4
  DEF Agreement, RegistryInv, ClientsAreMembers, ConnectionsMatchClients,
      UniqueUsernames, StoreConsistent, MembersHaveRooms, RoomsHaveMembers,
      FindMembersByRoom, PeerIdsFresh

(***************************************************************************)
(* An acknowledgement moves one cursor, and deletes messages only.          *)
(***************************************************************************)
LEMMA AcknowledgeKeepsAgreement ==
  ASSUME RegistryInv, NEW c \in clients, NEW n \in Int, Acknowledge(c, n),
         UNCHANGED session
  PROVE  Agreement'
<1> DEFINE acked == UpdateLastAckedSeq(db, c.peerId, n)
<1>1. /\ IsDb(acked)
      /\ acked.rooms = db.rooms
      /\ DOMAIN acked.members = DOMAIN db.members
      /\ \A q \in DOMAIN db.members :
           /\ acked.members[q].username = db.members[q].username
           /\ acked.members[q].room_id = db.members[q].room_id
      /\ acked.messages = db.messages
      /\ acked.nextSeq = db.nextSeq
  BY UpdateLastAckedSeqDb DEF RegistryInv, TypeOK
<1>2. db' = CleanupMessages(acked, c.roomId)
  BY DEF Acknowledge
<1> HIDE DEF acked
<1>3. /\ db'.rooms = db.rooms
      /\ db'.members = acked.members
      /\ db'.messages = Remove(db.messages, Cleanable(acked, c.roomId))
      /\ db'.nextSeq = db.nextSeq
  BY <1>1, <1>2, RemoveMessagesDb DEF CleanupMessages
<1>4. /\ DOMAIN db'.messages \subseteq DOMAIN db.messages
      /\ \A k \in DOMAIN db'.messages : db'.messages[k] = db.messages[k]
  BY <1>3 DEF Remove
<1>5. UNCHANGED <<clients, connections, nextPeerSeq>>
  BY DEF Acknowledge
<1>6. ClientsAreMembers' /\ ConnectionsMatchClients'
  BY <1>1, <1>3, <1>5 DEF RegistryInv, ClientsAreMembers, ConnectionsMatchClients
<1>7. UniqueUsernames' /\ PeerIdsFresh'
  BY <1>1, <1>3, <1>5 DEF RegistryInv, UniqueUsernames, PeerIdsFresh
<1>8. StoreConsistent'
  BY <1>1, <1>3, <1>4
  DEF RegistryInv, StoreConsistent, MembersHaveRooms, RoomsHaveMembers,
      MessagesHaveRooms, FindMembersByRoom
<1>9. QED
  BY <1>6, <1>7, <1>8 DEF Agreement

(***************************************************************************)
(* A leave removes one client, one connection and one member, all the same. *)
(***************************************************************************)
LEMMA LeaveKeepsAgreement ==
  ASSUME RegistryInv, NEW c \in clients, Leave(c), UNCHANGED session
  PROVE  Agreement'
<1> DEFINE p == c.peerId
           r == c.roomId
<1>1. IsDb(db) /\ p \in DOMAIN db.members /\ db.members[p].room_id = r
  BY DEF RegistryInv, TypeOK, ClientsAreMembers
<1>2. /\ DOMAIN db'.members = DOMAIN db.members \ {p}
      /\ \A q \in DOMAIN db.members \ {p} : db'.members[q] = db.members[q]
      /\ db'.nextSeq = db.nextSeq
      /\ IF FindMembersByRoom(db, r) \subseteq {p}
         THEN /\ db'.rooms = Remove(db.rooms, {r})
              /\ db'.messages = Remove(db.messages, MessagesOfRoom(db, r))
         ELSE /\ db'.rooms = db.rooms
              /\ \E gone : db'.messages = Remove(db.messages, gone)
  BY <1>1, LeaveMembers DEF Leave
<1>3. /\ clients' = clients \ {c}
      /\ connections' = Remove(connections, {p})
      /\ nextPeerSeq' = nextPeerSeq
  BY PurgeNothing DEF Leave
<1>4. \A d \in clients' : d \in clients /\ d.peerId # p
  BY <1>3 DEF RegistryInv, ConnectionsMatchClients
<1>5. /\ DOMAIN connections' = DOMAIN connections \ {p}
      /\ \A q \in DOMAIN connections \ {p} : connections'[q] = connections[q]
  BY <1>3 DEF Remove
\* Rooms other than c's stay; c's stays as long as another member is in it.
<1>6. /\ DOMAIN db'.rooms \subseteq DOMAIN db.rooms
      /\ \A k \in DOMAIN db'.rooms : db'.rooms[k] = db.rooms[k]
      /\ \A k \in DOMAIN db.rooms \ {r} : k \in DOMAIN db'.rooms
      /\ \A q \in DOMAIN db'.members :
           db.members[q].room_id = r => DOMAIN db'.rooms = DOMAIN db.rooms
  BY <1>2 DEF Remove, FindMembersByRoom
<1>7. ConnectionsMatchClients'
  <2>1. \A d \in clients' : /\ d.peerId \in DOMAIN connections'
                            /\ connections'[d.peerId] = d.session
    BY <1>4, <1>5 DEF RegistryInv, ConnectionsMatchClients
  <2>2. \A q \in DOMAIN connections' :
          \E d \in clients' : d.peerId = q /\ d.session = connections'[q]
    <3> SUFFICES ASSUME NEW q \in DOMAIN connections'
                 PROVE  \E d \in clients' : d.peerId = q /\ d.session = connections'[q]
      OBVIOUS
    <3>1. PICK d \in clients : d.peerId = q /\ d.session = connections[q]
      BY <1>5 DEF RegistryInv, ConnectionsMatchClients
    <3>2. d \in clients'
      BY <1>3, <1>5, <3>1
    <3>3. QED
      BY <1>5, <3>1, <3>2
  <2>3. QED
    BY <1>4, <2>1, <2>2 DEF RegistryInv, ConnectionsMatchClients
<1>8. ClientsAreMembers'
  <2> SUFFICES ASSUME NEW d \in clients'
               PROVE  /\ session'[d.session] = "open"
                      /\ d.peerId \in DOMAIN db'.members
                      /\ db'.members[d.peerId].room_id = d.roomId
                      /\ db'.members[d.peerId].username = d.username
                      /\ db'.rooms[d.roomId] = d.roomType
    BY DEF ClientsAreMembers
  <2>1. /\ d.peerId \in DOMAIN db.members \ {p}
        /\ db.members[d.peerId].room_id = d.roomId
        /\ db.members[d.peerId].username = d.username
        /\ db.rooms[d.roomId] = d.roomType
        /\ session[d.session] = "open"
        /\ d.roomId \in DOMAIN db.rooms
    BY <1>4 DEF RegistryInv, ClientsAreMembers, StoreConsistent, MembersHaveRooms
  <2>2. d.roomId \in DOMAIN db'.rooms
    BY <1>2, <1>6, <2>1
  <2>3. QED
    BY <1>2, <1>6, <2>1, <2>2
<1>9. UniqueUsernames' /\ PeerIdsFresh'
  BY <1>2, <1>3 DEF RegistryInv, UniqueUsernames, PeerIdsFresh
<1>10. MembersHaveRooms'
  BY <1>2, <1>6 DEF RegistryInv, StoreConsistent, MembersHaveRooms
<1>11. RoomsHaveMembers'
  <2> SUFFICES ASSUME NEW k \in DOMAIN db'.rooms
               PROVE  \E q \in DOMAIN db'.members : db'.members[q].room_id = k
    BY DEF RoomsHaveMembers, FindMembersByRoom
  <2>1. CASE k = r
    <3>1. PICK q \in FindMembersByRoom(db, r) : q # p
      BY <1>2, <2>1 DEF Remove
    <3>2. QED
      BY <1>2, <2>1, <3>1 DEF FindMembersByRoom
  <2>2. CASE k # r
    <3>1. PICK q \in DOMAIN db.members : db.members[q].room_id = k
      BY <1>6 DEF RegistryInv, StoreConsistent, RoomsHaveMembers, FindMembersByRoom
    <3>2. QED
      BY <1>1, <1>2, <2>2, <3>1
  <2>3. QED
    BY <2>1, <2>2
<1>12. MessagesHaveRooms'
  <2> SUFFICES ASSUME NEW n \in DOMAIN db'.messages
               PROVE  /\ db'.messages[n].room_id \in DOMAIN db'.rooms
                      /\ db'.rooms[db'.messages[n].room_id] = "group"
                      /\ n <= db'.nextSeq
    BY DEF MessagesHaveRooms
  <2>1. n \in DOMAIN db.messages /\ db'.messages[n] = db.messages[n]
    BY <1>2 DEF Remove
  <2>2. /\ db.messages[n].room_id \in DOMAIN db.rooms
        /\ db.rooms[db.messages[n].room_id] = "group"
        /\ n <= db'.nextSeq
    BY <1>2, <2>1 DEF RegistryInv, StoreConsistent, MessagesHaveRooms
  <2>3. db.messages[n].room_id \in DOMAIN db'.rooms
    BY <1>2, <2>1, <2>2 DEF Remove, MessagesOfRoom
  <2>4. QED
    BY <1>6, <2>1, <2>2, <2>3
<1>13. QED
  BY <1>7, <1>8, <1>9, <1>10, <1>11, <1>12 DEF Agreement, StoreConsistent

(***************************************************************************)
(* A session that goes takes all its entries with it, and nothing else.    *)
(***************************************************************************)
LEMMA CloseKeepsAgreement ==
  ASSUME RegistryInv, NEW s \in Sessions, Close(s)
  PROVE  Agreement'
<1> DEFINE ids == {c.peerId : c \in ClientsOf(s)}
<1>1. /\ clients' = clients \ ClientsOf(s)
      /\ connections' = Remove(connections, ids)
      /\ UNCHANGED <<db, nextPeerSeq>>
  BY PurgeNothing DEF Close, Disconnect
<1>2. \A c \in clients' : /\ c \in clients
                          /\ c.session # s
                          /\ c.peerId \notin ids
  BY <1>1 DEF ClientsOf, RegistryInv, ConnectionsMatchClients
<1>3. \A q \in Sessions \ {s} : session'[q] = session[q]
  BY DEF Close, RegistryInv, TypeOK
<1>4. /\ DOMAIN connections' = DOMAIN connections \ ids
      /\ \A q \in DOMAIN connections' : connections'[q] = connections[q]
  BY <1>1 DEF Remove
<1>5. ClientsAreMembers'
  <2>1. \A c \in clients' : c.session \in Sessions \ {s}
    BY <1>2 DEF RegistryInv, TypeOK, RamTypeOK, ClientInfo
  <2>2. QED
    BY <1>1, <1>2, <1>3, <2>1 DEF RegistryInv, ClientsAreMembers
<1>6. ConnectionsMatchClients'
  <2>1. \A q \in DOMAIN connections' :
          \E c \in clients' : c.peerId = q /\ c.session = connections'[q]
    <3> SUFFICES ASSUME NEW q \in DOMAIN connections'
                 PROVE  \E c \in clients' : c.peerId = q /\ c.session = connections'[q]
      OBVIOUS
    <3>1. PICK c \in clients : c.peerId = q /\ c.session = connections[q]
      BY <1>4 DEF RegistryInv, ConnectionsMatchClients
    <3>2. c \in clients'
      BY <1>1, <1>4, <3>1
    <3>3. QED
      BY <1>4, <3>1, <3>2
  <2>2. \A c \in clients' : /\ c.peerId \in DOMAIN connections'
                            /\ connections'[c.peerId] = c.session
    BY <1>2, <1>4 DEF RegistryInv, ConnectionsMatchClients
  <2>3. QED
    BY <1>2, <2>1, <2>2 DEF RegistryInv, ConnectionsMatchClients
<1>7. QED
  BY <1>1, <1>5, <1>6
  DEF Agreement, RegistryInv, UniqueUsernames, StoreConsistent, MembersHaveRooms,
      RoomsHaveMembers, MessagesHaveRooms, FindMembersByRoom, PeerIdsFresh

(***************************************************************************)
(* RegistryInv is inductive.                                               *)
(***************************************************************************)
LEMMA InitRegistryInv == Init => RegistryInv
<1> SUFFICES ASSUME Init PROVE RegistryInv
  OBVIOUS
<1>1. /\ clients = {}
      /\ DOMAIN connections = {}
      /\ DOMAIN db.rooms = {} /\ DOMAIN db.members = {} /\ DOMAIN db.messages = {}
  BY EmptyTableIsTable DEF Init, EmptyDb
<1>2. QED
  BY <1>1, InitTypeOK
  DEF RegistryInv, ClientsAreMembers, ConnectionsMatchClients, UniqueUsernames,
      StoreConsistent, MembersHaveRooms, RoomsHaveMembers, MessagesHaveRooms,
      PeerIdsFresh

(***************************************************************************)
(* RegistryInv is inductive.                                                *)
(***************************************************************************)
LEMMA NextRegistryInv == RegistryInv /\ [Next]_vars => RegistryInv'
<1> SUFFICES ASSUME RegistryInv, [Next]_vars PROVE RegistryInv'
  OBVIOUS
<1>1. TypeOK'
  BY NextTypeOK DEF RegistryInv
<1>2. ASSUME UNCHANGED <<db, clients, connections, nextPeerSeq, owed>>,
             \A s \in Sessions : session[s] = "open" => session'[s] = "open"
      PROVE  Agreement'
  BY <1>2
  DEF Agreement, RegistryInv, TypeOK, RamTypeOK, ClientInfo, ClientsAreMembers,
      ConnectionsMatchClients, UniqueUsernames, StoreConsistent,
      MembersHaveRooms, RoomsHaveMembers, MessagesHaveRooms, FindMembersByRoom,
      PeerIdsFresh
<1>3. ASSUME NEW s \in Sessions, Accept(s)
      PROVE  Agreement'
  BY <1>2, <1>3 DEF Accept, RegistryInv, TypeOK
<1>4. ASSUME NEW s \in Sessions, session[s] = "open", Joins(s), UNCHANGED session
      PROVE  Agreement'
  BY <1>4, JoinsKeepAgreement
<1>5. ASSUME NEW s \in Sessions, NEW c \in ClientsOf(s),
             Requests(c, SentSeqs), UNCHANGED session
      PROVE  Agreement'
  <2>1. c \in clients
    BY DEF ClientsOf
  <2>2. ASSUME NEW p \in PeerIds, Route(c, p)
        PROVE  Agreement'
    BY <1>2, <1>5, <2>2, PurgeNothing DEF Route
  <2>3. CASE Broadcast(c)
    BY <1>5, <2>1, <2>3, BroadcastKeepsAgreement
  <2>4. ASSUME NEW n \in SentSeqs, Acknowledge(c, n)
        PROVE  Agreement'
    <3>1. n \in Int
      BY DEF SentSeqs, RegistryInv, TypeOK, IsDb
    <3>2. QED
      BY <1>5, <2>1, <2>4, <3>1, AcknowledgeKeepsAgreement
  <2>5. CASE Leave(c)
    BY <1>5, <2>1, <2>5, LeaveKeepsAgreement
  <2>6. QED
    BY <1>5, <2>2, <2>3, <2>4, <2>5 DEF Requests
<1>6. ASSUME NEW s \in Sessions, Close(s)
      PROVE  Agreement'
  BY <1>6, CloseKeepsAgreement
<1>7. ASSUME UNCHANGED vars
      PROVE  Agreement'
  BY <1>2, <1>7 DEF vars
<1>8. Agreement'
  BY <1>3, <1>4, <1>5, <1>6, <1>7 DEF Next
<1>9. QED
  BY <1>1, <1>8 DEF RegistryInv, Agreement

(***************************************************************************)
(* RAM and database agree in every state of a run without faults: sessions  *)
(* and members match one to one, usernames are unique in a room, no table   *)
(* refers to a row that is gone, and the next peer id is unused.           *)
(***************************************************************************)
THEOREM RegistryConsistent == Spec => []RegistryInv
<1>1. QED
  BY InitRegistryInv, NextRegistryInv, PTL DEF Spec

\* Each session's entry in RAM is a member of that room in the database.
THEOREM ClientsAreMembersAlways == Spec => []ClientsAreMembers
<1>1. RegistryInv => ClientsAreMembers
  BY DEF RegistryInv
<1>2. QED
  BY <1>1, RegistryConsistent, PTL

\* connections_ and clients_ never contradict one another.
THEOREM ConnectionsMatchClientsAlways == Spec => []ConnectionsMatchClients
<1>1. RegistryInv => ConnectionsMatchClients
  BY DEF RegistryInv
<1>2. QED
  BY <1>1, RegistryConsistent, PTL

\* No room ever has two members of one name.
THEOREM UniqueUsernamesAlways == Spec => []UniqueUsernames
<1>1. RegistryInv => UniqueUsernames
  BY DEF RegistryInv
<1>2. QED
  BY <1>1, RegistryConsistent, PTL

\* No row of the database refers to a row that is gone, and no room is empty.
THEOREM StoreConsistentAlways == Spec => []StoreConsistent
<1>1. RegistryInv => StoreConsistent
  BY DEF RegistryInv
<1>2. QED
  BY <1>1, RegistryConsistent, PTL

-----------------------------------------------------------------------------
(* What each step does to the members and messages tables, in the terms the *)
(* properties below are about.                                             *)

\* No member's row goes or is given to another, except by a leave of its own.
MembersKept ==
  \A p \in DOMAIN db.members :
    \/ /\ p \in DOMAIN db'.members
       /\ db'.members[p].username = db.members[p].username
       /\ db'.members[p].room_id = db.members[p].room_id
    \/ \E c \in clients : Leave(c) /\ c.peerId = p

(***************************************************************************)
(* cleanupMessages leaves a message of the room only if it is past the      *)
(* cursor of some member there: a cursor of zero or less is below them all. *)
(***************************************************************************)
LEMMA AboveSomeCursor ==
  ASSUME NEW d, IsDb(d), NEW r, FindMembersByRoom(d, r) # {},
         NEW k \in DOMAIN d.messages, d.messages[k].room_id = r,
         k \notin Cleanable(d, r)
  PROVE  \E q \in FindMembersByRoom(d, r) : d.members[q].last_acked_msg_seq < k
<1>1. PICK q \in FindMembersByRoom(d, r) :
        ~(/\ d.members[q].last_acked_msg_seq > 0
          /\ k <= d.members[q].last_acked_msg_seq)
  BY DEF Cleanable, MessagesOfRoom
<1>2. /\ d.members[q].last_acked_msg_seq \in Int
      /\ k \in Int /\ k > 0
  BY DEF FindMembersByRoom, IsDb, IsTable, MemberRow, Seqs
<1>3. QED
  BY <1>1, <1>2

(***************************************************************************)
(* An acknowledgement moves the one cursor, and deletes only what every     *)
(* member of the room has acknowledged then; unless the room has nobody     *)
(* left, some cursor is below each message it leaves there.                *)
(***************************************************************************)
LEMMA AcknowledgeTables ==
  ASSUME IsDb(db), NEW c \in clients, NEW n \in Int, Acknowledge(c, n)
  PROVE  /\ db'.rooms = db.rooms
         /\ DOMAIN db'.members = DOMAIN db.members
         /\ \A q \in DOMAIN db.members :
              /\ db'.members[q].username = db.members[q].username
              /\ db'.members[q].room_id = db.members[q].room_id
              /\ db'.members[q].last_acked_msg_seq =
                   IF q = c.peerId THEN n ELSE db.members[q].last_acked_msg_seq
         /\ DOMAIN db'.messages \subseteq DOMAIN db.messages
         /\ \A k \in DOMAIN db'.messages : db'.messages[k] = db.messages[k]
         /\ \A k \in DOMAIN db.messages \ DOMAIN db'.messages :
              /\ db.messages[k].room_id = c.roomId
              /\ \A q \in FindMembersByRoom(db', c.roomId) :
                   k <= db'.members[q].last_acked_msg_seq
         /\ \A k \in DOMAIN db'.messages :
              /\ db'.messages[k].room_id = c.roomId
              /\ FindMembersByRoom(db', c.roomId) # {}
              => \E q \in FindMembersByRoom(db', c.roomId) :
                   db'.members[q].last_acked_msg_seq < k
         /\ db'.nextSeq = db.nextSeq
<1> DEFINE acked == UpdateLastAckedSeq(db, c.peerId, n)
<1>1. /\ IsDb(acked)
      /\ acked.rooms = db.rooms
      /\ DOMAIN acked.members = DOMAIN db.members
      /\ \A q \in DOMAIN db.members :
           /\ acked.members[q].username = db.members[q].username
           /\ acked.members[q].room_id = db.members[q].room_id
           /\ acked.members[q].last_acked_msg_seq =
                IF q = c.peerId THEN n ELSE db.members[q].last_acked_msg_seq
      /\ acked.messages = db.messages
      /\ acked.nextSeq = db.nextSeq
  BY UpdateLastAckedSeqDb
<1>2. db' = CleanupMessages(acked, c.roomId)
  BY DEF Acknowledge
<1> HIDE DEF acked
<1>3. /\ db'.rooms = db.rooms
      /\ db'.members = acked.members
      /\ db'.messages = Remove(db.messages, Cleanable(acked, c.roomId))
      /\ db'.nextSeq = db.nextSeq
  BY <1>1, <1>2, RemoveMessagesDb DEF CleanupMessages
<1>4. /\ DOMAIN db'.messages = DOMAIN db.messages \ Cleanable(acked, c.roomId)
      /\ \A k \in DOMAIN db'.messages : db'.messages[k] = db.messages[k]
  BY <1>3 DEF Remove
<1>5. \A k \in Cleanable(acked, c.roomId) :
        /\ db.messages[k].room_id = c.roomId
        /\ \A q \in FindMembersByRoom(acked, c.roomId) :
             k <= acked.members[q].last_acked_msg_seq
  BY <1>1 DEF Cleanable, MessagesOfRoom
<1>6. FindMembersByRoom(db', c.roomId) = FindMembersByRoom(acked, c.roomId)
  BY <1>3 DEF FindMembersByRoom
<1>7. ASSUME NEW k \in DOMAIN db'.messages, db'.messages[k].room_id = c.roomId,
             FindMembersByRoom(db', c.roomId) # {}
      PROVE  \E q \in FindMembersByRoom(db', c.roomId) :
               db'.members[q].last_acked_msg_seq < k
  BY <1>1, <1>3, <1>4, <1>6, <1>7, AboveSomeCursor
<1>8. QED
  BY <1>1, <1>3, <1>4, <1>5, <1>6, <1>7

(***************************************************************************)
(* A leave takes one member out, and the room with the last one; it deletes *)
(* only what every member that stays in the room has acknowledged, and what *)
(* is left there is past some member's cursor.                             *)
(***************************************************************************)
LEMMA LeaveTables ==
  ASSUME IsDb(db), NEW c \in clients, Leave(c)
  PROVE  /\ DOMAIN db'.members = DOMAIN db.members \ {c.peerId}
         /\ \A q \in DOMAIN db'.members : db'.members[q] = db.members[q]
         /\ DOMAIN db'.rooms =
              IF FindMembersByRoom(db, c.roomId) \subseteq {c.peerId}
              THEN DOMAIN db.rooms \ {c.roomId} ELSE DOMAIN db.rooms
         /\ \A k \in DOMAIN db'.rooms : db'.rooms[k] = db.rooms[k]
         /\ DOMAIN db'.messages \subseteq DOMAIN db.messages
         /\ \A k \in DOMAIN db'.messages : db'.messages[k] = db.messages[k]
         /\ \A k \in DOMAIN db.messages \ DOMAIN db'.messages :
              /\ db.messages[k].room_id = c.roomId
              /\ \A q \in FindMembersByRoom(db', c.roomId) :
                   k <= db'.members[q].last_acked_msg_seq
         /\ \A k \in DOMAIN db'.messages :
              db'.messages[k].room_id = c.roomId
              => \E q \in FindMembersByRoom(db', c.roomId) :
                   db'.members[q].last_acked_msg_seq < k
         /\ db'.nextSeq = db.nextSeq
<1> DEFINE p == c.peerId
           r == c.roomId
           acked == {n \in MessagesOfRoom(db, r) :
                       \A q \in FindMembersByRoom(db, r) \ {p} :
                         /\ db.members[q].last_acked_msg_seq > 0
                         /\ n <= db.members[q].last_acked_msg_seq}
<1>1. \A k \in DOMAIN db.messages : k \in Seqs
  BY DEF IsDb, IsTable
<1>2. /\ DOMAIN db'.members = DOMAIN db.members \ {p}
      /\ db'.nextSeq = db.nextSeq
      /\ \A q \in DOMAIN db.members \ {p} : db'.members[q] = db.members[q]
      /\ IF FindMembersByRoom(db, r) \subseteq {p}
         THEN /\ db'.rooms = Remove(db.rooms, {r})
              /\ db'.messages = Remove(db.messages, MessagesOfRoom(db, r))
         ELSE /\ db'.rooms = db.rooms
              /\ db'.messages = Remove(db.messages, acked)
  BY LeaveMembers DEF Leave
<1> HIDE DEF acked
<1>3. FindMembersByRoom(db', r) = FindMembersByRoom(db, r) \ {p}
  BY <1>2 DEF FindMembersByRoom
<1>4. CASE FindMembersByRoom(db, r) \subseteq {p}
  <2>1. /\ DOMAIN db'.messages = DOMAIN db.messages \ MessagesOfRoom(db, r)
        /\ \A k \in DOMAIN db'.messages : db'.messages[k] = db.messages[k]
    BY <1>2, <1>4 DEF Remove
  <2>2. /\ DOMAIN db'.rooms = DOMAIN db.rooms \ {r}
        /\ \A k \in DOMAIN db'.rooms : db'.rooms[k] = db.rooms[k]
    BY <1>2, <1>4 DEF Remove
  <2>3. FindMembersByRoom(db', r) = {}
    BY <1>3, <1>4
  <2>4. QED
    BY <1>2, <1>4, <2>1, <2>2, <2>3 DEF MessagesOfRoom
<1>5. CASE ~(FindMembersByRoom(db, r) \subseteq {p})
  <2>1. /\ DOMAIN db'.messages = DOMAIN db.messages \ acked
        /\ \A k \in DOMAIN db'.messages : db'.messages[k] = db.messages[k]
    BY <1>2, <1>5 DEF Remove
  <2>2. \A k \in acked : /\ db.messages[k].room_id = r
                         /\ \A q \in FindMembersByRoom(db, r) \ {p} :
                              k <= db.members[q].last_acked_msg_seq
    BY DEF acked, MessagesOfRoom
  <2>3. \A q \in FindMembersByRoom(db, r) \ {p} :
           /\ db'.members[q] = db.members[q]
           /\ db.members[q].last_acked_msg_seq \in Int
    BY <1>2 DEF FindMembersByRoom, IsDb, IsTable, MemberRow
  <2>4. ASSUME NEW k \in DOMAIN db'.messages, db'.messages[k].room_id = r
        PROVE  \E q \in FindMembersByRoom(db', r) :
                 db'.members[q].last_acked_msg_seq < k
    <3>1. /\ k \in MessagesOfRoom(db, r) /\ k \notin acked
          /\ k \in Int /\ k > 0
      BY <1>1, <2>1, <2>4 DEF MessagesOfRoom, Seqs
    <3>2. PICK q \in FindMembersByRoom(db, r) \ {p} :
            ~ /\ db.members[q].last_acked_msg_seq > 0
              /\ k <= db.members[q].last_acked_msg_seq
      BY <3>1 DEF acked
    <3>3. QED
      BY <1>3, <2>3, <3>1, <3>2
  <2>5. QED
    BY <1>2, <1>3, <1>5, <2>1, <2>2, <2>3, <2>4
<1>6. QED
  BY <1>4, <1>5

-----------------------------------------------------------------------------
(***************************************************************************)
(* A step that is not a leave keeps every member.                          *)
(***************************************************************************)
LEMMA NextKeepsMembers == RegistryInv /\ [Next]_vars => MembersKept
<1> SUFFICES ASSUME RegistryInv, [Next]_vars PROVE MembersKept
  OBVIOUS
<1>1. ASSUME UNCHANGED db
      PROVE  MembersKept
  BY <1>1 DEF MembersKept
<1>2. ASSUME NEW s \in Sessions, Accept(s)
      PROVE  MembersKept
  BY <1>1, <1>2 DEF Accept
<1>3. ASSUME NEW s \in Sessions, Joins(s)
      PROVE  MembersKept
  <2>1. PICK r \in RoomIds, u \in Usernames, t \in RequestedTypes :
          \/ JoinRefused(s, r, u, t)
          \/ JoinReconnect(s, r, u, t)
          \/ JoinNew(s, r, u, t)
    BY <1>3 DEF Joins
  <2>2. CASE JoinRefused(s, r, u, t)
    BY <1>1, <2>2, RefusedChangesNothing
  <2>3. CASE \E p \in PeerIds : Admits(s, r, u, JoinedType(r, t), p)
    BY <2>3 DEF Admits, MembersKept
  <2>4. QED
    BY <2>1, <2>2, <2>3, ReconnectAdmits, NewAdmits
<1>4. ASSUME NEW s \in Sessions, NEW c \in ClientsOf(s), Requests(c, SentSeqs)
      PROVE  MembersKept
  <2>1. c \in clients
    BY DEF ClientsOf
  <2>2. ASSUME NEW p \in PeerIds, Route(c, p)
        PROVE  MembersKept
    BY <1>1, <2>2 DEF Route
  <2>3. ASSUME Broadcast(c)
        PROVE  MembersKept
    <3>1. db'.members = db.members
      BY <2>1, <2>3, SaveGroupMessageDb
      DEF Broadcast, RegistryInv, TypeOK, RamTypeOK, ClientInfo
    <3>2. QED
      BY <3>1 DEF MembersKept
  <2>4. ASSUME NEW n \in SentSeqs, Acknowledge(c, n)
        PROVE  MembersKept
    <3>1. n \in Int
      BY DEF SentSeqs, RegistryInv, TypeOK, IsDb
    <3>2. QED
      BY <2>1, <2>4, <3>1, AcknowledgeTables
      DEF MembersKept, RegistryInv, TypeOK
  <2>5. ASSUME Leave(c)
        PROVE  MembersKept
    BY <2>1, <2>5, LeaveTables
    DEF MembersKept, RegistryInv, TypeOK
  <2>6. QED
    BY <1>4, <2>2, <2>3, <2>4, <2>5 DEF Requests
<1>5. ASSUME NEW s \in Sessions, Close(s)
      PROVE  MembersKept
  BY <1>1, <1>5 DEF Close, Disconnect
<1>6. ASSUME UNCHANGED vars
      PROVE  MembersKept
  BY <1>1, <1>6 DEF vars
<1>7. QED
  BY <1>2, <1>3, <1>4, <1>5, <1>6 DEF Next

(***************************************************************************)
(* In a run of the server without faults nothing but the leave of its own   *)
(* session ends a membership or hands the member's id to somebody else.    *)
(***************************************************************************)
THEOREM MembershipEndsByLeave == Spec => OnlyOwnLeaveEndsMembership
<1>1. RegistryInv /\ [Next]_vars =>
        [\A p \in DOMAIN db.members :
           \/ /\ p \in DOMAIN db'.members
              /\ db'.members[p].username = db.members[p].username
              /\ db'.members[p].room_id = db.members[p].room_id
           \/ \E c \in clients : Leave(c) /\ c.peerId = p]_vars
  BY NextKeepsMembers DEF MembersKept
<1>2. QED
  BY <1>1, RegistryConsistent, PTL DEF Spec, OnlyOwnLeaveEndsMembership

-----------------------------------------------------------------------------
\* The messages a step deletes are those all members of their room have
\* acknowledged after it.
DeletedAcked ==
  \A n \in DOMAIN db.messages \ DOMAIN db'.messages :
    \A p \in FindMembersByRoom(db', db.messages[n].room_id) :
      n <= db'.members[p].last_acked_msg_seq

(***************************************************************************)
(* Only acknowledge and leave delete, and they delete what is acknowledged. *)
(***************************************************************************)
LEMMA NextDeletesAcked == RegistryInv /\ [Next]_vars => DeletedAcked
<1> SUFFICES ASSUME RegistryInv, [Next]_vars PROVE DeletedAcked
  OBVIOUS
<1>1. ASSUME DOMAIN db.messages \subseteq DOMAIN db'.messages
      PROVE  DeletedAcked
  BY <1>1 DEF DeletedAcked
<1>2. ASSUME NEW s \in Sessions, Accept(s)
      PROVE  DeletedAcked
  BY <1>1, <1>2 DEF Accept
<1>3. ASSUME NEW s \in Sessions, Joins(s)
      PROVE  DeletedAcked
  <2>1. PICK r \in RoomIds, u \in Usernames, t \in RequestedTypes :
          \/ JoinRefused(s, r, u, t)
          \/ JoinReconnect(s, r, u, t)
          \/ JoinNew(s, r, u, t)
    BY <1>3 DEF Joins
  <2>2. CASE JoinRefused(s, r, u, t)
    BY <1>1, <2>2, RefusedChangesNothing
  <2>3. CASE \E p \in PeerIds : Admits(s, r, u, JoinedType(r, t), p)
    BY <1>1, <2>3 DEF Admits
  <2>4. QED
    BY <2>1, <2>2, <2>3, ReconnectAdmits, NewAdmits
<1>4. ASSUME NEW s \in Sessions, NEW c \in ClientsOf(s), Requests(c, SentSeqs)
      PROVE  DeletedAcked
  <2>1. c \in clients
    BY DEF ClientsOf
  <2>2. ASSUME NEW p \in PeerIds, Route(c, p)
        PROVE  DeletedAcked
    BY <1>1, <2>2 DEF Route
  <2>3. ASSUME Broadcast(c)
        PROVE  DeletedAcked
    <3>1. db'.messages = Replace(db.messages, db.nextSeq + 1,
                           [room_id |-> c.roomId, from_peer_id |-> c.peerId])
      BY <2>1, <2>3, SaveGroupMessageDb
      DEF Broadcast, RegistryInv, TypeOK, RamTypeOK, ClientInfo
    <3>2. QED
      BY <1>1, <3>1 DEF Replace
  <2>4. ASSUME NEW n \in SentSeqs, Acknowledge(c, n)
        PROVE  DeletedAcked
    <3>1. n \in Int
      BY DEF SentSeqs, RegistryInv, TypeOK, IsDb
    <3>2. QED
      BY <2>1, <2>4, <3>1, AcknowledgeTables
      DEF DeletedAcked, RegistryInv, TypeOK
  <2>5. ASSUME Leave(c)
        PROVE  DeletedAcked
    BY <2>1, <2>5, LeaveTables
    DEF DeletedAcked, RegistryInv, TypeOK
  <2>6. QED
    BY <1>4, <2>2, <2>3, <2>4, <2>5 DEF Requests
<1>5. ASSUME NEW s \in Sessions, Close(s)
      PROVE  DeletedAcked
  BY <1>1, <1>5 DEF Close, Disconnect
<1>6. ASSUME UNCHANGED vars
      PROVE  DeletedAcked
  BY <1>1, <1>6 DEF vars
<1>7. QED
  BY <1>2, <1>3, <1>4, <1>5, <1>6 DEF Next

(***************************************************************************)
(* No buffered message is deleted under a member that has not acknowledged  *)
(* it.                                                                     *)
(***************************************************************************)
THEOREM DeletionNeedsAllAcks == Spec => DeletedOnlyWhenAllAcked
<1>1. RegistryInv /\ [Next]_vars =>
        [\A n \in DOMAIN db.messages \ DOMAIN db'.messages :
           \A p \in FindMembersByRoom(db', db.messages[n].room_id) :
             n <= db'.members[p].last_acked_msg_seq]_vars
  BY NextDeletesAcked DEF DeletedAcked
<1>2. QED
  BY <1>1, RegistryConsistent, PTL DEF Spec, DeletedOnlyWhenAllAcked

-----------------------------------------------------------------------------
(* What is owed to a member is buffered for it.  The invariant says so of    *)
(* all members at once, because one member's acknowledgement deletes rows    *)
(* that are in the others' inboxes too: it is their cursors, all at or past  *)
(* the row, that say the others do not owe it any more.                     *)

\* What BufferedUntilAcked says of a member p, with its definitions expanded.
Buffered(p) ==
  \A n \in owed[p] :
    /\ n \in DOMAIN db.messages
    /\ db.messages[n].room_id = db.members[p].room_id
    /\ n > db.members[p].last_acked_msg_seq

\* BufferedUntilAcked, member by member.
LEMMA BufferedMembers ==
  BufferedUntilAcked <=> \A p \in DOMAIN db.members : Buffered(p)
BY DEF BufferedUntilAcked, Buffered, PendingMessages, GetMessagesAfter,
       MessagesOfRoom

(***************************************************************************)
(* join changes neither messages nor the cursor of a member; a new member   *)
(* owes nothing yet.                                                       *)
(***************************************************************************)
LEMMA JoinsKeepBuffered ==
  ASSUME IsDb(db), RamTypeOK, BufferedUntilAcked, NEW s \in Sessions, Joins(s)
  PROVE  BufferedUntilAcked'
<1>1. PICK r \in RoomIds, u \in Usernames, t \in RequestedTypes :
        \/ JoinRefused(s, r, u, t)
        \/ JoinReconnect(s, r, u, t)
        \/ JoinNew(s, r, u, t)
  BY DEF Joins
<1>2. /\ IsDb(WithRoom(r, t))
      /\ WithRoom(r, t).members = db.members
      /\ WithRoom(r, t).messages = db.messages
  BY WithRoomDb
<1>3. ASSUME NEW p \in PeerIds, NEW n \in Int,
             db' = SaveMember(WithRoom(r, t), p,
                     [username |-> u, room_id |-> r, last_acked_msg_seq |-> n]),
             \A q \in DOMAIN db.members \ {p} : owed'[q] = owed[q],
             \A k \in owed'[p] : /\ p \in DOMAIN db.members
                                 /\ k \in owed[p]
                                 /\ db.members[p].room_id = r
                                 /\ db.members[p].last_acked_msg_seq = n
      PROVE  BufferedUntilAcked'
  <2> DEFINE row == [username |-> u, room_id |-> r, last_acked_msg_seq |-> n]
  <2>1. /\ row \in MemberRow
        /\ row.room_id = r /\ row.last_acked_msg_seq = n
    BY DEF MemberRow
  <2>2. db' = SaveMember(WithRoom(r, t), p, row)
    BY <1>3
  <2> HIDE DEF row
  <2>3. db'.members = Replace(db.members, p, row) /\ db'.messages = db.messages
    BY <1>2, <2>1, <2>2, SaveMemberDb
  <2>4. /\ DOMAIN db'.members = DOMAIN db.members \cup {p}
        /\ db'.members[p] = row
        /\ \A q \in DOMAIN db.members \ {p} : db'.members[q] = db.members[q]
    BY <2>3 DEF Replace
  <2>5. \A q \in DOMAIN db'.members : Buffered(q)'
    BY <1>3, <2>1, <2>3, <2>4, BufferedMembers DEF Buffered
  <2>6. QED
    BY <2>5
    DEF BufferedUntilAcked, Buffered, PendingMessages, GetMessagesAfter,
        MessagesOfRoom
<1>4. CASE JoinRefused(s, r, u, t)
  BY <1>2, <1>4
  DEF JoinRefused, BufferedUntilAcked, PendingMessages, GetMessagesAfter,
      MessagesOfRoom
<1>5. CASE JoinReconnect(s, r, u, t)
  <2>1. PICK p \in Namesakes(r, u) :
          db' = SaveMember(WithRoom(r, t), p,
                  [username |-> u, room_id |-> r,
                   last_acked_msg_seq |-> db.members[p].last_acked_msg_seq])
    BY <1>5 DEF JoinReconnect
  <2>2. /\ p \in DOMAIN db.members /\ p \in PeerIds
        /\ db.members[p].room_id = r
        /\ db.members[p].last_acked_msg_seq \in Int
    BY DEF Namesakes, FindMembersByRoom, IsDb, IsTable, MemberRow
  <2>3. owed' = owed
    BY <1>5 DEF JoinReconnect
  <2>4. QED
    BY <1>3, <2>1, <2>2, <2>3
<1>6. CASE JoinNew(s, r, u, t)
  <2>1. /\ nextPeerSeq \in PeerIds
        /\ owed \in [PeerIds -> SUBSET Seqs]
        /\ DOMAIN db.members \subseteq PeerIds
    BY <1>6, RegistryAssumption DEF JoinNew, RamTypeOK, PeerIds, IsDb, IsTable
  <2>2. /\ owed'[nextPeerSeq] = {}
        /\ \A q \in DOMAIN db.members \ {nextPeerSeq} : owed'[q] = owed[q]
    BY <1>6, <2>1 DEF JoinNew
  <2>3. db' = SaveMember(WithRoom(r, t), nextPeerSeq,
                [username |-> u, room_id |-> r, last_acked_msg_seq |-> 0])
    BY <1>6 DEF JoinNew
  <2>4. QED
    BY <1>3, <2>1, <2>2, <2>3
<1>7. QED
  BY <1>1, <1>4, <1>5, <1>6

(***************************************************************************)
(* broadcast stores the new message before anyone owes it; what was owed    *)
(* and buffered before stays so, whatever becomes of the deliveries.       *)
(***************************************************************************)
LEMMA BroadcastKeepsBuffered ==
  ASSUME IsDb(db), RamTypeOK, \A n \in DOMAIN db.messages : n <= db.nextSeq,
         BufferedUntilAcked, NEW c \in clients, db.nextSeq < MaxMsgSeq,
         db' = SaveGroupMessage(db, c.roomId, c.peerId),
         Owe(c.roomId, db.nextSeq + 1)
  PROVE  BufferedUntilAcked'
<1> DEFINE n   == db.nextSeq + 1
           row == [room_id |-> c.roomId, from_peer_id |-> c.peerId]
<1>1. /\ c.peerId \in PeerIds /\ c.roomId \in RoomIds
      /\ owed \in [PeerIds -> SUBSET Seqs]
      /\ DOMAIN db.members \subseteq PeerIds
  BY DEF RamTypeOK, ClientInfo, IsDb, IsTable
<1>2. db'.members = db.members /\ db'.messages = Replace(db.messages, n, row)
  BY <1>1, SaveGroupMessageDb
<1>3. \A q \in DOMAIN db.members :
        owed'[q] = IF /\ db.members[q].room_id = c.roomId
                      /\ db.members[q].last_acked_msg_seq < n
                   THEN owed[q] \cup {n} ELSE owed[q]
  BY <1>1 DEF Owe, FindMembersByRoom
<1>4. row.room_id = c.roomId /\ n \notin DOMAIN db.messages
  BY DEF IsDb, IsTable, Seqs
<1>5. \A q \in DOMAIN db.members : db.members[q].last_acked_msg_seq \in Int
  BY DEF IsDb, IsTable, MemberRow
<1>6. n \in Int
  BY DEF IsDb
<1> HIDE DEF row, n
<1>7. /\ DOMAIN db'.messages = DOMAIN db.messages \cup {n}
      /\ db'.messages[n] = row
      /\ \A k \in DOMAIN db.messages : db'.messages[k] = db.messages[k]
  BY <1>2, <1>4 DEF Replace
<1>8. \A q \in DOMAIN db'.members : Buffered(q)'
  <2> SUFFICES ASSUME NEW q \in DOMAIN db.members, NEW k \in owed'[q]
               PROVE  /\ k \in DOMAIN db'.messages
                      /\ db'.messages[k].room_id = db.members[q].room_id
                      /\ k > db.members[q].last_acked_msg_seq
    BY <1>2 DEF Buffered
  <2>1. CASE k \in owed[q]
    BY <1>7, <2>1, BufferedMembers DEF Buffered
  <2>2. CASE /\ k = n
             /\ db.members[q].room_id = c.roomId
             /\ db.members[q].last_acked_msg_seq < n
    <3>1. db'.messages[n].room_id = c.roomId
      BY <1>4, <1>7
    <3>2. n > db.members[q].last_acked_msg_seq
      BY <1>5, <1>6, <2>2
    <3>3. QED
      BY <1>7, <2>2, <3>1, <3>2
  <2>3. \/ k \in owed[q]
        \/ /\ k = n
           /\ db.members[q].room_id = c.roomId
           /\ db.members[q].last_acked_msg_seq < n
    <3>1. CASE /\ db.members[q].room_id = c.roomId
               /\ db.members[q].last_acked_msg_seq < n
      <4>1. owed'[q] = owed[q] \cup {n}
        BY <1>3, <3>1
      <4>2. QED
        BY <3>1, <4>1
    <3>2. CASE ~ /\ db.members[q].room_id = c.roomId
                 /\ db.members[q].last_acked_msg_seq < n
      <4>1. owed'[q] = owed[q]
        BY <1>3, <3>2
      <4>2. QED
        BY <4>1
    <3>3. QED
      BY <3>1, <3>2
  <2>4. QED
    BY <2>1, <2>2, <2>3
<1>9. QED
  BY <1>8
  DEF BufferedUntilAcked, Buffered, PendingMessages, GetMessagesAfter,
      MessagesOfRoom

(***************************************************************************)
(* acknowledgeMessages: the session's own member owes only what is after    *)
(* its new cursor; a row that another member still owes is after that       *)
(* member's cursor, so it is not deleted.                                  *)
(***************************************************************************)
LEMMA AcknowledgeKeepsBuffered ==
  ASSUME IsDb(db), RamTypeOK, BufferedUntilAcked, NEW c \in clients,
         NEW n \in Int, Acknowledge(c, n)
  PROVE  BufferedUntilAcked'
<1>1. /\ c.peerId \in PeerIds
      /\ owed \in [PeerIds -> SUBSET Seqs]
      /\ DOMAIN db.members \subseteq PeerIds
      /\ \A q \in DOMAIN db.members : db.members[q].last_acked_msg_seq \in Int
      /\ \A q \in PeerIds : \A k \in owed[q] : k \in Int
  BY DEF RamTypeOK, ClientInfo, IsDb, IsTable, MemberRow, Seqs
<1>2. \A q \in DOMAIN db.members :
        owed'[q] = IF q = c.peerId THEN {k \in owed[q] : k > n} ELSE owed[q]
  BY <1>1 DEF Acknowledge
<1>3. \A q \in DOMAIN db'.members : Buffered(q)'
  <2> SUFFICES ASSUME NEW q \in DOMAIN db'.members, NEW k \in owed'[q]
               PROVE  /\ k \in DOMAIN db'.messages
                      /\ db'.messages[k].room_id = db'.members[q].room_id
                      /\ k > db'.members[q].last_acked_msg_seq
    BY DEF Buffered
  <2>1. /\ q \in DOMAIN db.members
        /\ db'.members[q].room_id = db.members[q].room_id
        /\ db'.members[q].last_acked_msg_seq =
             IF q = c.peerId THEN n ELSE db.members[q].last_acked_msg_seq
    BY AcknowledgeTables
  <2>2. k \in owed[q] /\ k \in Int /\ (q = c.peerId => k > n)
    BY <1>1, <1>2, <2>1
  <2>3. /\ k \in DOMAIN db.messages
        /\ db.messages[k].room_id = db.members[q].room_id
        /\ k > db.members[q].last_acked_msg_seq
    BY <2>1, <2>2, BufferedMembers DEF Buffered
  <2>4. db'.members[q].last_acked_msg_seq \in Int
        /\ k > db'.members[q].last_acked_msg_seq
    BY <1>1, <2>1, <2>2, <2>3
  <2>5. k \in DOMAIN db'.messages
    <3> SUFFICES ASSUME k \notin DOMAIN db'.messages PROVE FALSE
      OBVIOUS
    <3>1. /\ db.messages[k].room_id = c.roomId
          /\ \A p \in FindMembersByRoom(db', c.roomId) :
               k <= db'.members[p].last_acked_msg_seq
      BY <2>3, AcknowledgeTables
    <3>2. q \in FindMembersByRoom(db', c.roomId)
      BY <2>1, <2>3, <3>1 DEF FindMembersByRoom
    <3>3. QED
      BY <2>2, <2>4, <3>1, <3>2
  <2>6. QED
    BY <2>1, <2>3, <2>4, <2>5, AcknowledgeTables
<1>4. QED
  BY <1>3
  DEF BufferedUntilAcked, Buffered, PendingMessages, GetMessagesAfter,
      MessagesOfRoom

(***************************************************************************)
(* leave: the same of the members who stay.                                *)
(***************************************************************************)
LEMMA LeaveKeepsBuffered ==
  ASSUME IsDb(db), RamTypeOK, BufferedUntilAcked, NEW c \in clients, Leave(c)
  PROVE  BufferedUntilAcked'
<1>1. /\ owed \in [PeerIds -> SUBSET Seqs]
      /\ DOMAIN db.members \subseteq PeerIds
      /\ \A q \in DOMAIN db.members : db.members[q].last_acked_msg_seq \in Int
      /\ \A q \in PeerIds : \A k \in owed[q] : k \in Int
  BY DEF RamTypeOK, IsDb, IsTable, MemberRow, Seqs
<1>2. \A q \in DOMAIN db.members \ {c.peerId} : owed'[q] = owed[q]
  BY <1>1 DEF Leave
<1>3. \A q \in DOMAIN db'.members : Buffered(q)'
  <2> SUFFICES ASSUME NEW q \in DOMAIN db'.members, NEW k \in owed'[q]
               PROVE  /\ k \in DOMAIN db'.messages
                      /\ db'.messages[k].room_id = db'.members[q].room_id
                      /\ k > db'.members[q].last_acked_msg_seq
    BY DEF Buffered
  <2>1. q \in DOMAIN db.members \ {c.peerId} /\ db'.members[q] = db.members[q]
    BY LeaveTables
  <2>2. k \in owed[q] /\ k \in Int
    BY <1>1, <1>2, <2>1
  <2>3. /\ k \in DOMAIN db.messages
        /\ db.messages[k].room_id = db.members[q].room_id
        /\ k > db.members[q].last_acked_msg_seq
    BY <2>1, <2>2, BufferedMembers DEF Buffered
  <2>4. k \in DOMAIN db'.messages
    <3> SUFFICES ASSUME k \notin DOMAIN db'.messages PROVE FALSE
      OBVIOUS
    <3>1. /\ db.messages[k].room_id = c.roomId
          /\ \A p \in FindMembersByRoom(db', c.roomId) :
               k <= db'.members[p].last_acked_msg_seq
      BY <2>3, LeaveTables
    <3>2. q \in FindMembersByRoom(db', c.roomId)
      BY <2>1, <2>3, <3>1 DEF FindMembersByRoom
    <3>3. QED
      BY <1>1, <2>1, <2>2, <2>3, <3>1, <3>2
  <2>5. QED
    BY <2>1, <2>3, <2>4, LeaveTables
<1>4. QED
  BY <1>3
  DEF BufferedUntilAcked, Buffered, PendingMessages, GetMessagesAfter,
      MessagesOfRoom

(***************************************************************************)
(* Every step keeps what is owed buffered.                                  *)
(***************************************************************************)
LEMMA NextKeepsBuffered ==
  RegistryInv /\ BufferedUntilAcked /\ [Next]_vars => BufferedUntilAcked'
<1> SUFFICES ASSUME RegistryInv, BufferedUntilAcked, [Next]_vars
             PROVE  BufferedUntilAcked'
  OBVIOUS
<1>0. /\ IsDb(db)
      /\ RamTypeOK
      /\ \A n \in DOMAIN db.messages : n <= db.nextSeq
  BY DEF RegistryInv, TypeOK, StoreConsistent, MessagesHaveRooms
<1>1. ASSUME UNCHANGED <<db, owed>>
      PROVE  BufferedUntilAcked'
  BY <1>1 DEF BufferedUntilAcked, PendingMessages, GetMessagesAfter, MessagesOfRoom
<1>2. ASSUME NEW s \in Sessions, Accept(s)
      PROVE  BufferedUntilAcked'
  BY <1>1, <1>2 DEF Accept
<1>3. ASSUME NEW s \in Sessions, NEW c \in ClientsOf(s), Requests(c, SentSeqs)
      PROVE  BufferedUntilAcked'
  <2>1. c \in clients
    BY DEF ClientsOf
  <2>2. ASSUME NEW p \in PeerIds, Route(c, p)
        PROVE  BufferedUntilAcked'
    BY <1>1, <2>2 DEF Route
  <2>3. ASSUME NEW n \in SentSeqs, Acknowledge(c, n)
        PROVE  BufferedUntilAcked'
    <3>1. n \in Int
      BY <1>0 DEF SentSeqs, IsDb
    <3>2. QED
      BY <1>0, <2>1, <2>3, <3>1, AcknowledgeKeepsBuffered
  <2>4. ASSUME Broadcast(c)
        PROVE  BufferedUntilAcked'
    BY <1>0, <2>1, <2>4, BroadcastKeepsBuffered DEF Broadcast
  <2>5. QED
    BY <1>0, <1>3, <2>1, <2>2, <2>3, <2>4, LeaveKeepsBuffered DEF Requests
<1>4. ASSUME NEW s \in Sessions, Close(s)
      PROVE  BufferedUntilAcked'
  BY <1>1, <1>4 DEF Close, Disconnect
<1>5. ASSUME UNCHANGED vars
      PROVE  BufferedUntilAcked'
  BY <1>1, <1>5 DEF vars
<1>6. QED
  BY <1>0, <1>2, <1>3, <1>4, <1>5, JoinsKeepBuffered DEF Next

(***************************************************************************)
(* A group message is buffered for each member that has not acknowledged    *)
(* it, whatever joins, leaves, disconnects and acknowledgements come in     *)
(* between.                                                                *)
(***************************************************************************)
THEOREM MessagesBufferedUntilAcked == Spec => []BufferedUntilAcked
<1>1. Init => BufferedUntilAcked
  BY EmptyTableIsTable DEF Init, EmptyDb, BufferedUntilAcked
<1>2. QED
  BY <1>1, NextKeepsBuffered, RegistryConsistent, PTL DEF Spec

-----------------------------------------------------------------------------
(* A direct room has two members at most: new members are counted before     *)
(* they are added, those offline included.                                 *)

(***************************************************************************)
(* A room has finitely many members, as there are finitely many ids.        *)
(***************************************************************************)
LEMMA RoomMembersFinite ==
  ASSUME RegistryInv, NEW r
  PROVE  /\ IsFiniteSet(FindMembersByRoom(db, r))
         /\ Cardinality(FindMembersByRoom(db, r)) \in Nat
<1>1. FindMembersByRoom(db, r) \subseteq PeerIds
  BY DEF FindMembersByRoom, RegistryInv, TypeOK, IsDb, IsTable
<1>2. IsFiniteSet(PeerIds)
  BY RegistryAssumption, FS_Interval DEF PeerIds
<1>3. QED
  BY <1>1, <1>2, FS_Subset, FS_CardinalityType

(***************************************************************************)
(* A step that adds nobody to a room, and no room, keeps the capacity.     *)
(***************************************************************************)
LEMMA NoNewMembersKeepsCapacity ==
  ASSUME RegistryInv, DirectCapacity,
         DOMAIN db'.rooms \subseteq DOMAIN db.rooms,
         \A r \in DOMAIN db'.rooms :
           /\ db'.rooms[r] = db.rooms[r]
           /\ FindMembersByRoom(db', r) \subseteq FindMembersByRoom(db, r)
  PROVE  DirectCapacity'
<1> SUFFICES ASSUME NEW r \in DOMAIN db'.rooms, db'.rooms[r] = "direct"
             PROVE  Cardinality(FindMembersByRoom(db', r)) <= 2
  BY DEF DirectCapacity
<1>1. /\ Cardinality(FindMembersByRoom(db, r)) <= 2
      /\ Cardinality(FindMembersByRoom(db, r)) \in Nat
      /\ IsFiniteSet(FindMembersByRoom(db, r))
  BY RoomMembersFinite DEF DirectCapacity
<1>2. /\ IsFiniteSet(FindMembersByRoom(db', r))
      /\ Cardinality(FindMembersByRoom(db', r)) <= Cardinality(FindMembersByRoom(db, r))
  BY <1>1, FS_Subset
<1>3. Cardinality(FindMembersByRoom(db', r)) \in Nat
  BY <1>2, FS_CardinalityType
<1>4. QED
  BY <1>1, <1>2, <1>3

(***************************************************************************)
(* join adds a member to a direct room only when it has at most one.       *)
(***************************************************************************)
LEMMA JoinsKeepCapacity ==
  ASSUME RegistryInv, DirectCapacity, NEW s \in Sessions, Joins(s)
  PROVE  DirectCapacity'
<1>1. PICK r \in RoomIds, u \in Usernames, t \in RequestedTypes :
        \/ JoinRefused(s, r, u, t)
        \/ JoinReconnect(s, r, u, t)
        \/ JoinNew(s, r, u, t)
  BY DEF Joins
<1>2. CASE JoinRefused(s, r, u, t)
  BY <1>2, RefusedChangesNothing DEF DirectCapacity, FindMembersByRoom
<1>3. ASSUME NEW p \in PeerIds, Admits(s, r, u, JoinedType(r, t), p),
             p \in FindMembersByRoom(db, r) \/ ~Full(r, t)
      PROVE  DirectCapacity'
  <2> SUFFICES ASSUME NEW k \in DOMAIN db'.rooms, db'.rooms[k] = "direct"
               PROVE  Cardinality(FindMembersByRoom(db', k)) <= 2
    BY DEF DirectCapacity
  <2>1. \A q \in DOMAIN db.rooms :
          db.rooms[q] = "direct" => Cardinality(FindMembersByRoom(db, q)) <= 2
    BY DEF DirectCapacity
  <2>2. CASE k # r
    <3>1. FindMembersByRoom(db', k) = FindMembersByRoom(db, k)
      BY <1>3, <2>2 DEF Admits, FindMembersByRoom
    <3>2. k \in DOMAIN db.rooms /\ db.rooms[k] = "direct"
      BY <1>3, <2>2 DEF Admits
    <3>3. QED
      BY <2>1, <3>1, <3>2
  <2>3. CASE k = r
    <3>1. FindMembersByRoom(db', r) = FindMembersByRoom(db, r) \cup {p}
      BY <1>3 DEF Admits, FindMembersByRoom
    <3>2. /\ IsFiniteSet(FindMembersByRoom(db, r))
          /\ Cardinality(FindMembersByRoom(db, r)) \in Nat
      BY RoomMembersFinite
    <3>3. JoinedType(r, t) = "direct"
      BY <1>3, <2>3 DEF Admits
    <3>4. CASE p \in FindMembersByRoom(db, r)
      <4>1. FindMembersByRoom(db', r) = FindMembersByRoom(db, r)
        BY <3>1, <3>4
      <4>2. r \in DOMAIN db.rooms
        BY <3>4
        DEF FindMembersByRoom, RegistryInv, StoreConsistent, MembersHaveRooms
      <4>3. db.rooms[r] = "direct"
        BY <3>3, <4>2 DEF JoinedType
      <4>4. QED
        BY <2>1, <2>3, <4>1, <4>2, <4>3
    <3>5. CASE p \notin FindMembersByRoom(db, r)
      <4>1. ~(Cardinality(FindMembersByRoom(db, r)) >= 2)
        BY <1>3, <3>3, <3>5 DEF Full
      <4>2. Cardinality(FindMembersByRoom(db', r)) =
              Cardinality(FindMembersByRoom(db, r)) + 1
        BY <3>1, <3>2, <3>5, FS_AddElement
      <4>3. QED
        BY <2>3, <3>2, <4>1, <4>2
    <3>6. QED
      BY <3>4, <3>5
  <2>4. QED
    BY <2>2, <2>3
<1>4. CASE JoinReconnect(s, r, u, t)
  <2>1. PICK p \in PeerIds : Admits(s, r, u, JoinedType(r, t), p)
    BY <1>4, ReconnectAdmits
  <2>2. PICK q \in DOMAIN db.members :
          db.members[q].room_id = r /\ db.members[q].username = u
    BY <1>4 DEF JoinReconnect, Namesakes, FindMembersByRoom
  <2>3. p \in FindMembersByRoom(db, r)
    BY <2>1, <2>2 DEF Admits, FindMembersByRoom
  <2>4. QED
    BY <1>3, <2>1, <2>3
<1>5. CASE JoinNew(s, r, u, t)
  <2>1. ~Full(r, t)
    BY <1>5 DEF JoinNew
  <2>2. QED
    BY <1>3, <1>5, <2>1, NewAdmits
<1>6. QED
  BY <1>1, <1>2, <1>4, <1>5

(***************************************************************************)
(* Every step keeps direct rooms to two members.                            *)
(***************************************************************************)
LEMMA NextKeepsCapacity ==
  RegistryInv /\ DirectCapacity /\ [Next]_vars => DirectCapacity'
<1> SUFFICES ASSUME RegistryInv, DirectCapacity, [Next]_vars
             PROVE  DirectCapacity'
  OBVIOUS
<1>1. ASSUME UNCHANGED db
      PROVE  DirectCapacity'
  BY <1>1 DEF DirectCapacity, FindMembersByRoom
<1>2. ASSUME NEW s \in Sessions, Accept(s)
      PROVE  DirectCapacity'
  BY <1>1, <1>2 DEF Accept
<1>3. ASSUME NEW s \in Sessions, NEW c \in ClientsOf(s), Requests(c, SentSeqs)
      PROVE  DirectCapacity'
  <2>1. c \in clients
    BY DEF ClientsOf
  <2>2. ASSUME NEW p \in PeerIds, Route(c, p)
        PROVE  DirectCapacity'
    BY <1>1, <2>2 DEF Route
  <2>3. ASSUME Broadcast(c)
        PROVE  DirectCapacity'
    <3>1. db'.members = db.members /\ db'.rooms = db.rooms
      BY <2>1, <2>3, SaveGroupMessageDb
      DEF Broadcast, RegistryInv, TypeOK, RamTypeOK, ClientInfo
    <3>2. QED
      BY <3>1 DEF DirectCapacity, FindMembersByRoom
  <2>4. ASSUME NEW n \in SentSeqs, Acknowledge(c, n)
        PROVE  DirectCapacity'
    <3>1. n \in Int
      BY DEF SentSeqs, RegistryInv, TypeOK, IsDb
    <3>2. /\ db'.rooms = db.rooms
          /\ DOMAIN db'.members = DOMAIN db.members
          /\ \A q \in DOMAIN db.members : db'.members[q].room_id = db.members[q].room_id
      BY <2>1, <2>4, <3>1, AcknowledgeTables DEF RegistryInv, TypeOK
    <3>3. \A r : FindMembersByRoom(db', r) \subseteq FindMembersByRoom(db, r)
      BY <3>2 DEF FindMembersByRoom
    <3>4. QED
      BY <3>2, <3>3, NoNewMembersKeepsCapacity
  <2>5. ASSUME Leave(c)
        PROVE  DirectCapacity'
    <3>1. /\ DOMAIN db'.members \subseteq DOMAIN db.members
          /\ \A q \in DOMAIN db'.members : db'.members[q] = db.members[q]
          /\ DOMAIN db'.rooms \subseteq DOMAIN db.rooms
          /\ \A k \in DOMAIN db'.rooms : db'.rooms[k] = db.rooms[k]
      BY <2>1, <2>5, LeaveTables DEF RegistryInv, TypeOK
    <3>2. \A r : FindMembersByRoom(db', r) \subseteq FindMembersByRoom(db, r)
      BY <3>1 DEF FindMembersByRoom
    <3>3. QED
      BY <3>1, <3>2, NoNewMembersKeepsCapacity
  <2>6. QED
    BY <1>3, <2>2, <2>3, <2>4, <2>5 DEF Requests
<1>4. ASSUME NEW s \in Sessions, Close(s)
      PROVE  DirectCapacity'
  BY <1>1, <1>4 DEF Close, Disconnect
<1>5. ASSUME UNCHANGED vars
      PROVE  DirectCapacity'
  BY <1>1, <1>5 DEF vars
<1>6. QED
  BY <1>2, <1>3, <1>4, <1>5, JoinsKeepCapacity DEF Next

(***************************************************************************)
(* No third member ever gets into a direct room.                           *)
(***************************************************************************)
THEOREM DirectRoomsStayDirect == Spec => []DirectCapacity
<1>1. Init => DirectCapacity
  BY EmptyTableIsTable DEF Init, EmptyDb, DirectCapacity
<1>2. QED
  BY <1>1, NextKeepsCapacity, RegistryConsistent, PTL DEF Spec

-----------------------------------------------------------------------------
(* RoomRegistry implements ChatRooms, the rooms, users and inboxes it        *)
(* promises.  That needs one more invariant: a message is buffered only      *)
(* while some member has yet to get past it.  A new member, whose cursor is  *)
(* zero, is delivered every row the room still has, and this says that each  *)
(* of them is in the inbox of someone else too, as Join demands.             *)

-----------------------------------------------------------------------------
(* What join writes, cursors included.                                     *)

(***************************************************************************)
(* A member that comes back finds the database as it left it: its room is   *)
(* stored, and its row is written again as it is.                          *)
(***************************************************************************)
LEMMA ReconnectTables ==
  ASSUME RegistryInv, NEW s \in Sessions, NEW r \in RoomIds,
         NEW u \in Usernames, NEW t \in RequestedTypes, JoinReconnect(s, r, u, t)
  PROVE  /\ db' = db
         /\ \E p \in Namesakes(r, u) :
              /\ ~Online(p)
              /\ DOMAIN connections' = DOMAIN connections \cup {p}
<1>1. PICK p \in Namesakes(r, u) :
        /\ ~Online(p)
        /\ db' = SaveMember(WithRoom(r, t), p,
                   [username |-> u, room_id |-> r,
                    last_acked_msg_seq |-> db.members[p].last_acked_msg_seq])
        /\ Enter(s, r, u, t, p)
  BY DEF JoinReconnect
<1>2. /\ IsDb(db)
      /\ p \in DOMAIN db.members
      /\ db.members[p].room_id = r /\ db.members[p].username = u
      /\ db.members[p] \in MemberRow
      /\ r \in DOMAIN db.rooms
  BY DEF RegistryInv, TypeOK, StoreConsistent, MembersHaveRooms, IsDb, IsTable,
         Namesakes, FindMembersByRoom
<1>3. [username |-> u, room_id |-> r,
       last_acked_msg_seq |-> db.members[p].last_acked_msg_seq] = db.members[p]
  BY <1>2 DEF MemberRow
<1>4. db' = SaveMember(db, p, db.members[p])
  BY <1>1, <1>2, <1>3 DEF WithRoom
<1>5. Replace(db.members, p, db.members[p]) = db.members
  BY <1>2 DEF Replace, IsDb, IsTable
<1>6. db' = db
  BY <1>2, <1>4, <1>5 DEF SaveMember, IsDb
<1>7. DOMAIN connections' = DOMAIN connections \cup {p}
  BY <1>1, PurgeNothing DEF Enter, Replace
<1>8. QED
  BY <1>1, <1>6, <1>7

(***************************************************************************)
(* A new member gets a row of its own with the cursor at zero; nobody       *)
(* else's row changes.                                                     *)
(***************************************************************************)
LEMMA NewTables ==
  ASSUME RegistryInv, NEW s \in Sessions, NEW r \in RoomIds,
         NEW u \in Usernames, NEW t \in RequestedTypes, JoinNew(s, r, u, t)
  PROVE  /\ nextPeerSeq \in PeerIds
         /\ nextPeerSeq \notin DOMAIN db.members
         /\ DOMAIN db'.members = DOMAIN db.members \cup {nextPeerSeq}
         /\ db'.members[nextPeerSeq].username = u
         /\ db'.members[nextPeerSeq].room_id = r
         /\ db'.members[nextPeerSeq].last_acked_msg_seq = 0
         /\ \A q \in DOMAIN db.members : db'.members[q] = db.members[q]
         /\ DOMAIN db'.rooms = DOMAIN db.rooms \cup {r}
         /\ db'.rooms[r] = JoinedType(r, t)
         /\ \A q \in DOMAIN db.rooms : db'.rooms[q] = db.rooms[q]
         /\ db'.messages = db.messages
         /\ db'.nextSeq = db.nextSeq
         /\ DOMAIN connections' = DOMAIN connections \cup {nextPeerSeq}
<1> DEFINE p   == nextPeerSeq
           row == [username |-> u, room_id |-> r, last_acked_msg_seq |-> 0]
<1>1. db' = SaveMember(WithRoom(r, t), p, row) /\ Enter(s, r, u, t, p)
  BY DEF JoinNew
<1>2. IsDb(db) /\ p \in PeerIds /\ p \notin DOMAIN db.members
  BY RegistryAssumption
  DEF JoinNew, RegistryInv, TypeOK, RamTypeOK, PeerIdsFresh, PeerIds
<1>3. /\ row \in MemberRow
      /\ row.username = u /\ row.room_id = r /\ row.last_acked_msg_seq = 0
  BY DEF MemberRow
<1> HIDE DEF row
<1>4. /\ IsDb(WithRoom(r, t))
      /\ DOMAIN WithRoom(r, t).rooms = DOMAIN db.rooms \cup {r}
      /\ WithRoom(r, t).rooms[r] = JoinedType(r, t)
      /\ \A q \in DOMAIN db.rooms : WithRoom(r, t).rooms[q] = db.rooms[q]
      /\ WithRoom(r, t).members = db.members
      /\ WithRoom(r, t).messages = db.messages
      /\ WithRoom(r, t).nextSeq = db.nextSeq
  BY <1>2, WithRoomDb
<1>5. /\ db'.rooms = WithRoom(r, t).rooms
      /\ db'.members = Replace(db.members, p, row)
      /\ db'.messages = db.messages
      /\ db'.nextSeq = db.nextSeq
  BY <1>1, <1>2, <1>3, <1>4, SaveMemberDb
<1>6. /\ DOMAIN db'.members = DOMAIN db.members \cup {p}
      /\ db'.members[p] = row
      /\ \A q \in DOMAIN db.members : db'.members[q] = db.members[q]
  BY <1>2, <1>5 DEF Replace
<1>7. DOMAIN connections' = DOMAIN connections \cup {p}
  BY <1>1, PurgeNothing DEF Enter, Replace
<1>8. QED
  BY <1>2, <1>3, <1>4, <1>5, <1>6, <1>7

-----------------------------------------------------------------------------
(* No message lingers.                                                     *)

(***************************************************************************)
(* A join stores no message; who comes back still owes what it owed.        *)
(***************************************************************************)
LEMMA JoinsLetNothingLinger ==
  ASSUME RegistryInv, NothingLingers, NEW s \in Sessions, Joins(s)
  PROVE  NothingLingers'
<1>1. PICK r \in RoomIds, u \in Usernames, t \in RequestedTypes :
        \/ JoinRefused(s, r, u, t)
        \/ JoinReconnect(s, r, u, t)
        \/ JoinNew(s, r, u, t)
  BY DEF Joins
<1>2. ASSUME db' = db
      PROVE  NothingLingers'
  BY <1>2 DEF NothingLingers, FindMembersByRoom
<1>3. CASE JoinRefused(s, r, u, t)
  BY <1>2, <1>3, RefusedChangesNothing
<1>4. CASE JoinReconnect(s, r, u, t)
  BY <1>2, <1>4, ReconnectTables
<1>5. CASE JoinNew(s, r, u, t)
  <2>1. /\ DOMAIN db.members \subseteq DOMAIN db'.members
        /\ \A q \in DOMAIN db.members : db'.members[q] = db.members[q]
        /\ db'.messages = db.messages
    BY <1>5, NewTables
  <2>2. QED
    BY <2>1 DEF NothingLingers, FindMembersByRoom
<1>6. QED
  BY <1>1, <1>3, <1>4, <1>5

(***************************************************************************)
(* The sender of a message is a member, whose cursor is behind it.         *)
(***************************************************************************)
LEMMA BroadcastLetsNothingLinger ==
  ASSUME RegistryInv, NothingLingers, NEW c \in clients, Broadcast(c)
  PROVE  NothingLingers'
<1> DEFINE n   == db.nextSeq + 1
           row == [room_id |-> c.roomId, from_peer_id |-> c.peerId]
<1>1. /\ IsDb(db)
      /\ c.peerId \in PeerIds /\ c.roomId \in RoomIds
      /\ c.peerId \in FindMembersByRoom(db, c.roomId)
      /\ db.members[c.peerId].last_acked_msg_seq < n
  BY DEF RegistryInv, TypeOK, RamTypeOK, ClientInfo, CursorsSent,
         ClientsAreMembers, FindMembersByRoom, IsDb
<1>2. /\ db'.members = db.members
      /\ db'.messages = Replace(db.messages, n, row)
  BY <1>1, SaveGroupMessageDb DEF Broadcast
<1>3. row.room_id = c.roomId
  OBVIOUS
<1> HIDE DEF n, row
<1>4. QED
  BY <1>1, <1>2, <1>3 DEF NothingLingers, Replace, FindMembersByRoom

(***************************************************************************)
(* An acknowledgement moves one cursor, and of the room's messages leaves   *)
(* only what is past a cursor; the messages of other rooms, and the cursors  *)
(* there, stay.                                                            *)
(***************************************************************************)
LEMMA AcknowledgeLetsNothingLinger ==
  ASSUME RegistryInv, NothingLingers,
         NEW c \in clients, NEW n \in Int, Acknowledge(c, n)
  PROVE  NothingLingers'
<1> SUFFICES ASSUME NEW k \in DOMAIN db'.messages
             PROVE  \E q \in FindMembersByRoom(db', db'.messages[k].room_id) :
                      db'.members[q].last_acked_msg_seq < k
  BY DEF NothingLingers
<1>1. IsDb(db)
  BY DEF RegistryInv, TypeOK
<1>2. /\ DOMAIN db'.members = DOMAIN db.members
      /\ \A q \in DOMAIN db.members :
           /\ db'.members[q].room_id = db.members[q].room_id
           /\ q # c.peerId => db'.members[q].last_acked_msg_seq =
                              db.members[q].last_acked_msg_seq
      /\ k \in DOMAIN db.messages
      /\ db'.messages[k] = db.messages[k]
      /\ db'.messages[k].room_id = c.roomId /\ FindMembersByRoom(db', c.roomId) # {}
         => \E q \in FindMembersByRoom(db', c.roomId) :
              db'.members[q].last_acked_msg_seq < k
  BY <1>1, AcknowledgeTables
<1>3. c.peerId \in DOMAIN db.members /\ db.members[c.peerId].room_id = c.roomId
  BY DEF RegistryInv, ClientsAreMembers
<1>4. CASE db'.messages[k].room_id = c.roomId
  BY <1>2, <1>3, <1>4 DEF FindMembersByRoom
<1>5. CASE db'.messages[k].room_id # c.roomId
  BY <1>2, <1>3, <1>5 DEF NothingLingers, FindMembersByRoom
<1>6. QED
  BY <1>4, <1>5

(***************************************************************************)
(* A leave takes a member away, and with it the messages only it was        *)
(* waiting for.                                                            *)
(***************************************************************************)
LEMMA LeaveLetsNothingLinger ==
  ASSUME RegistryInv, NothingLingers, NEW c \in clients, Leave(c)
  PROVE  NothingLingers'
<1> SUFFICES ASSUME NEW k \in DOMAIN db'.messages
             PROVE  \E q \in FindMembersByRoom(db', db'.messages[k].room_id) :
                      db'.members[q].last_acked_msg_seq < k
  BY DEF NothingLingers
<1>1. IsDb(db)
  BY DEF RegistryInv, TypeOK
<1>2. /\ DOMAIN db'.members = DOMAIN db.members \ {c.peerId}
      /\ \A q \in DOMAIN db'.members : db'.members[q] = db.members[q]
      /\ k \in DOMAIN db.messages
      /\ db'.messages[k] = db.messages[k]
      /\ db'.messages[k].room_id = c.roomId
         => \E q \in FindMembersByRoom(db', c.roomId) :
              db'.members[q].last_acked_msg_seq < k
  BY <1>1, LeaveTables
<1>3. c.peerId \in DOMAIN db.members /\ db.members[c.peerId].room_id = c.roomId
  BY DEF RegistryInv, ClientsAreMembers
<1>4. CASE db'.messages[k].room_id = c.roomId
  BY <1>2, <1>4
<1>5. CASE db'.messages[k].room_id # c.roomId
  BY <1>2, <1>3, <1>5 DEF NothingLingers, FindMembersByRoom
<1>6. QED
  BY <1>4, <1>5

(***************************************************************************)
(* With the invariant of the registry, every step keeps that nothing        *)
(* lingers.                                                                 *)
(***************************************************************************)
LEMMA NextLetsNothingLinger ==
  RegistryInv /\ NothingLingers /\ [Next]_vars => NothingLingers'
<1> SUFFICES ASSUME RegistryInv, NothingLingers, [Next]_vars
             PROVE  NothingLingers'
  OBVIOUS
<1>1. ASSUME UNCHANGED db
      PROVE  NothingLingers'
  BY <1>1 DEF NothingLingers, FindMembersByRoom
<1>2. ASSUME NEW s \in Sessions, Accept(s)
      PROVE  NothingLingers'
  BY <1>1, <1>2 DEF Accept
<1>3. ASSUME NEW s \in Sessions, NEW c \in ClientsOf(s), Requests(c, SentSeqs)
      PROVE  NothingLingers'
  <2>1. c \in clients
    BY DEF ClientsOf
  <2>2. ASSUME NEW p \in PeerIds, Route(c, p)
        PROVE  NothingLingers'
    BY <1>1, <2>2 DEF Route
  <2>3. ASSUME NEW n \in SentSeqs, Acknowledge(c, n)
        PROVE  NothingLingers'
    <3>1. n \in Int
      BY DEF SentSeqs, RegistryInv, TypeOK, IsDb
    <3>2. QED
      BY <2>1, <2>3, <3>1, AcknowledgeLetsNothingLinger
  <2>4. QED
    BY <1>3, <2>1, <2>2, <2>3, BroadcastLetsNothingLinger, LeaveLetsNothingLinger
    DEF Requests
<1>4. ASSUME NEW s \in Sessions, Close(s)
      PROVE  NothingLingers'
  BY <1>1, <1>4 DEF Close, Disconnect
<1>5. ASSUME UNCHANGED vars
      PROVE  NothingLingers'
  BY <1>1, <1>5 DEF vars
<1>6. QED
  BY <1>2, <1>3, <1>4, <1>5, JoinsLetNothingLinger DEF Next

(***************************************************************************)
(* A message is deleted with the step that takes the last member of its     *)
(* room who waited for it past it, or away: none is kept for nobody.        *)
(***************************************************************************)
THEOREM NothingLingersAlways == Spec => []NothingLingers
<1>1. Init => NothingLingers
  BY EmptyTableIsTable DEF Init, EmptyDb, NothingLingers
<1>2. QED
  BY <1>1, NextLetsNothingLinger, RegistryConsistent, PTL DEF Spec

-----------------------------------------------------------------------------
(* The abstraction, read off the tables: since no room has two members of    *)
(* one name, the CHOOSE in it has one member to choose.                    *)

InboxMeaning ==
  /\ \A r \in RoomIds, u \in Usernames :
       Namesakes(r, u) = {} => Inboxes[<<r, u>>] = {}
  /\ \A r \in RoomIds, u \in Usernames : \A p \in Namesakes(r, u) :
       Inboxes[<<r, u>>] = PendingMessages(p)

OnlineMeaning ==
  \A r \in RoomIds, u \in Usernames :
    <<r, u>> \in UsersOnline
    <=> \E p \in Namesakes(r, u) : p \in DOMAIN connections

(***************************************************************************)
(* An inbox of ChatRooms, computed from a cursor and the shared table, is   *)
(* what the members of that name still owe.                                 *)
(***************************************************************************)
LEMMA InboxesMean == RegistryInv => InboxMeaning
<1> SUFFICES ASSUME RegistryInv, NEW r \in RoomIds, NEW u \in Usernames
             PROVE  /\ Namesakes(r, u) = {} => Inboxes[<<r, u>>] = {}
                    /\ \A p \in Namesakes(r, u) :
                         Inboxes[<<r, u>>] = PendingMessages(p)
  BY DEF InboxMeaning
<1>1. Inboxes[<<r, u>>] = IF Namesakes(r, u) = {} THEN {}
                          ELSE PendingMessages(MemberNamed(r, u))
  BY DEF Inboxes
<1>2. \A p, q \in Namesakes(r, u) : p = q
  BY DEF RegistryInv, UniqueUsernames, Namesakes, FindMembersByRoom
<1>3. \A p \in Namesakes(r, u) : MemberNamed(r, u) = p
  BY <1>2 DEF MemberNamed
<1>4. QED
  BY <1>1, <1>3

(***************************************************************************)
(* The users online in a room are the names of the clients in it.           *)
(***************************************************************************)
LEMMA UsersOnlineMean == RegistryInv => OnlineMeaning
<1> SUFFICES ASSUME RegistryInv, NEW r \in RoomIds, NEW u \in Usernames
             PROVE  <<r, u>> \in UsersOnline
                    <=> \E p \in Namesakes(r, u) : p \in DOMAIN connections
  BY DEF OnlineMeaning
<1>1. \A p : Online(p) <=> p \in DOMAIN connections
  BY OfflineMember DEF Online
<1>2. QED
  BY <1>1 DEF UsersOnline, Namesakes, FindMembersByRoom

\* Only members of stored rooms are named in UsersOnline.
OnlinePairs == UsersOnline \subseteq RoomIds \X Usernames

(***************************************************************************)
(* Said of pairs of a room and a user, as the proofs of single steps need   *)
(* it.                                                                      *)
(***************************************************************************)
LEMMA UsersOnlinePairs == RegistryInv => OnlinePairs
BY DEF OnlinePairs, RegistryInv, TypeOK, IsDb, IsTable, MemberRow, UsersOnline

(***************************************************************************)
(* The messages of a room are those its members wait for, all together.     *)
(***************************************************************************)
LEMMA HeldIsStored ==
  ASSUME RegistryInv, NothingLingers, NEW r \in RoomIds
  PROVE  Promise!Held(r) = MessagesOfRoom(db, r)
<1>1. /\ \A p \in DOMAIN db.members : db.members[p].username \in Usernames
      /\ RoomUsers[r] = {db.members[p].username : p \in FindMembersByRoom(db, r)}
  BY DEF RegistryInv, TypeOK, IsDb, IsTable, MemberRow, RoomUsers
<1>2. \A p \in FindMembersByRoom(db, r) :
        /\ Inboxes[<<r, db.members[p].username>>] = PendingMessages(p)
        /\ PendingMessages(p) = {n \in MessagesOfRoom(db, r) :
                                   n > db.members[p].last_acked_msg_seq}
  <2> SUFFICES ASSUME NEW p \in FindMembersByRoom(db, r)
               PROVE  /\ Inboxes[<<r, db.members[p].username>>] = PendingMessages(p)
                      /\ PendingMessages(p) = {n \in MessagesOfRoom(db, r) :
                                   n > db.members[p].last_acked_msg_seq}
    OBVIOUS
  <2>1. /\ p \in Namesakes(r, db.members[p].username)
        /\ p \in DOMAIN db.members /\ db.members[p].room_id = r
    BY DEF Namesakes, FindMembersByRoom
  <2>2. QED
    BY <1>1, <2>1, InboxesMean
    DEF InboxMeaning, PendingMessages, GetMessagesAfter
<1>3. \A n \in MessagesOfRoom(db, r) :
        \E p \in FindMembersByRoom(db, r) :
          n > db.members[p].last_acked_msg_seq
  <2> SUFFICES ASSUME NEW n \in MessagesOfRoom(db, r)
               PROVE  \E p \in FindMembersByRoom(db, r) :
                        n > db.members[p].last_acked_msg_seq
    OBVIOUS
  <2>1. PICK p \in FindMembersByRoom(db, r) : db.members[p].last_acked_msg_seq < n
    BY DEF NothingLingers, MessagesOfRoom
  <2>2. n \in Int /\ db.members[p].last_acked_msg_seq \in Int
    BY DEF MessagesOfRoom, FindMembersByRoom, RegistryInv, TypeOK, IsDb, IsTable,
           MemberRow, Seqs
  <2>3. QED
    BY <2>1, <2>2
<1>4. Promise!Held(r) = UNION {Inboxes[<<r, u>>] : u \in RoomUsers[r]}
  BY DEF Promise!Held
<1>5. \A p \in FindMembersByRoom(db, r) : db.members[p].username \in RoomUsers[r]
  BY <1>1
<1>6. \A u \in RoomUsers[r] :
        \E p \in FindMembersByRoom(db, r) : u = db.members[p].username
  BY <1>1
<1>7. ASSUME NEW n \in Promise!Held(r)
      PROVE  n \in MessagesOfRoom(db, r)
  <2>1. PICK u \in RoomUsers[r] : n \in Inboxes[<<r, u>>]
    BY <1>4, <1>7
  <2>2. QED
    BY <1>2, <1>6, <2>1
<1>8. ASSUME NEW n \in MessagesOfRoom(db, r)
      PROVE  n \in Promise!Held(r)
  <2>1. PICK p \in FindMembersByRoom(db, r) :
          n > db.members[p].last_acked_msg_seq
    BY <1>3
  <2>2. n \in Inboxes[<<r, db.members[p].username>>]
    BY <1>2, <2>1
  <2>3. QED
    BY <1>4, <1>5, <2>2
<1>9. QED
  BY <1>7, <1>8

(***************************************************************************)
(* A step that changes one inbox.                                          *)
(***************************************************************************)
LEMMA OneInbox ==
  ASSUME NEW r \in RoomIds, NEW u \in Usernames, NEW value,
         Inboxes'[<<r, u>>] = value,
         \A q \in RoomIds, v \in Usernames :
           <<q, v>> # <<r, u>> => Inboxes'[<<q, v>>] = Inboxes[<<q, v>>]
  PROVE  Inboxes' = [Inboxes EXCEPT ![<<r, u>>] = value]
<1>1. /\ Inboxes = [x \in RoomIds \X Usernames |-> Inboxes[x]]
      /\ Inboxes' = [x \in RoomIds \X Usernames |-> Inboxes'[x]]
  BY DEF Inboxes
<1>2. ASSUME NEW x \in RoomIds \X Usernames, x # <<r, u>>
      PROVE  Inboxes'[x] = Inboxes[x]
  <2>1. PICK q \in RoomIds, v \in Usernames : x = <<q, v>>
    OBVIOUS
  <2>2. QED
    BY <1>2, <2>1
<1>3. QED
  BY <1>1, <1>2

-----------------------------------------------------------------------------
(* Each step of the registry is a step of ChatRooms, or changes nothing it   *)
(* can see.                                                                *)

(***************************************************************************)
(* What the abstraction shows depends on the database and on who is online. *)
(***************************************************************************)
LEMMA PromiseStutters ==
  ASSUME UNCHANGED <<db, connections>>
  PROVE  UNCHANGED Promise!vars
<1>1. /\ RoomKinds' = RoomKinds
      /\ RoomUsers' = RoomUsers
  BY DEF RoomKinds, RoomUsers, FindMembersByRoom
<1>2. UsersOnline' = UsersOnline
  BY DEF UsersOnline, Online
<1>3. Inboxes' = Inboxes
  BY DEF Inboxes, Namesakes, FindMembersByRoom, MemberNamed, PendingMessages,
         GetMessagesAfter, MessagesOfRoom
<1>4. QED
  BY <1>1, <1>2, <1>3 DEF Promise!vars

(***************************************************************************)
(* A reconnect changes who is online, and nothing else.                    *)
(***************************************************************************)
LEMMA ReconnectReturns ==
  ASSUME RegistryInv, RegistryInv', NEW s \in Sessions, NEW r \in RoomIds,
         NEW u \in Usernames, NEW t \in RequestedTypes, JoinReconnect(s, r, u, t)
  PROVE  Promise!Return(r, u)
<1>1. db' = db
  BY ReconnectTables
<1>2. PICK p \in Namesakes(r, u) :
        ~Online(p) /\ DOMAIN connections' = DOMAIN connections \cup {p}
  BY ReconnectTables
<1>3. /\ RoomKinds' = RoomKinds /\ RoomUsers' = RoomUsers
      /\ Inboxes' = Inboxes
      /\ \A q, v : Namesakes(q, v)' = Namesakes(q, v)
  BY <1>1 DEF RoomKinds, RoomUsers, FindMembersByRoom, Inboxes, Namesakes,
              MemberNamed, PendingMessages, GetMessagesAfter, MessagesOfRoom
<1>4. u \in RoomUsers[r]
  BY <1>2 DEF RoomUsers, Namesakes
<1>5. \A q \in Namesakes(r, u) : q = p
  BY <1>2 DEF RegistryInv, UniqueUsernames, Namesakes, FindMembersByRoom
<1>6. OnlineMeaning /\ OnlineMeaning' /\ OnlinePairs /\ OnlinePairs'
  BY UsersOnlineMean, UsersOnlinePairs, PTL
<1>7. <<r, u>> \notin UsersOnline
  BY <1>2, <1>5, <1>6, OfflineMember DEF OnlineMeaning
<1>8. UsersOnline' = UsersOnline \cup {<<r, u>>}
  <2>1. \A q \in RoomIds, v \in Usernames :
          <<q, v>> \in UsersOnline' <=> <<q, v>> \in UsersOnline \cup {<<r, u>>}
    <3> SUFFICES ASSUME NEW q \in RoomIds, NEW v \in Usernames
                 PROVE  <<q, v>> \in UsersOnline'
                        <=> <<q, v>> \in UsersOnline \cup {<<r, u>>}
      OBVIOUS
    <3>1. p \in Namesakes(q, v) <=> q = r /\ v = u
      BY <1>2 DEF Namesakes, FindMembersByRoom
    <3>2. <<q, v>> \in UsersOnline
          <=> \E o \in Namesakes(q, v) : o \in DOMAIN connections
      BY <1>6 DEF OnlineMeaning
    <3>3. <<q, v>> \in UsersOnline'
          <=> \E o \in Namesakes(q, v) : o \in DOMAIN connections'
      BY <1>3, <1>6 DEF OnlineMeaning
    <3>4. QED
      BY <1>2, <3>1, <3>2, <3>3
  <2>2. QED
    BY <1>6, <2>1 DEF OnlinePairs
<1>9. QED
  BY <1>1, <1>3, <1>4, <1>7, <1>8 DEF Promise!Return

(***************************************************************************)
(* Members of one room have as many names as there are members, or fewer.   *)
(***************************************************************************)
LEMMA NamesAtMostMembers ==
  ASSUME RegistryInv, NEW r \in RoomIds
  PROVE  /\ Cardinality(RoomUsers[r]) <= Cardinality(FindMembersByRoom(db, r))
         /\ Cardinality(RoomUsers[r]) \in Nat
         /\ Cardinality(FindMembersByRoom(db, r)) \in Nat
<1> DEFINE S == FindMembersByRoom(db, r)
           T == RoomUsers[r]
           f == [p \in S |-> db.members[p].username]
<1>1. IsFiniteSet(S) /\ Cardinality(S) \in Nat
  BY RoomMembersFinite
<1>2. T = {db.members[p].username : p \in S}
  BY DEF RoomUsers
<1>3. f \in Surjection(S, T)
  BY <1>2 DEF Surjection
<1> HIDE DEF S, T, f
<1>4. IsFiniteSet(T) /\ Cardinality(T) <= Cardinality(S)
  BY <1>1, <1>3, FS_Surjection
<1>5. Cardinality(T) \in Nat
  BY <1>4, FS_CardinalityType
<1>6. QED
  BY <1>1, <1>4, <1>5 DEF S, T

(***************************************************************************)
(* A new member's inbox is all the room holds: its cursor is zero.  All      *)
(* others see only that it is there.                                       *)
(***************************************************************************)
LEMMA NewJoins ==
  ASSUME RegistryInv, RegistryInv', NothingLingers,
         NEW s \in Sessions, NEW r \in RoomIds,
         NEW u \in Usernames, NEW t \in RequestedTypes, JoinNew(s, r, u, t)
  PROVE  Promise!Join(r, u, JoinedType(r, t))
<1> PICK p, type : p = nextPeerSeq /\ type = JoinedType(r, t)
  OBVIOUS
<1>1. /\ p \in PeerIds /\ p \notin DOMAIN db.members
      /\ DOMAIN db'.members = DOMAIN db.members \cup {p}
      /\ db'.members[p].username = u
      /\ db'.members[p].room_id = r
      /\ db'.members[p].last_acked_msg_seq = 0
      /\ \A q \in DOMAIN db.members : db'.members[q] = db.members[q]
      /\ DOMAIN db'.rooms = DOMAIN db.rooms \cup {r}
      /\ db'.rooms[r] = type
      /\ \A q \in DOMAIN db.rooms : db'.rooms[q] = db.rooms[q]
      /\ db'.messages = db.messages
      /\ db'.nextSeq = db.nextSeq
      /\ DOMAIN connections' = DOMAIN connections \cup {p}
  BY NewTables
<1>2. Namesakes(r, u) = {} /\ ~Full(r, t)
  BY DEF JoinNew
<1>3. /\ \A q \in DOMAIN db.rooms : db.rooms[q] \in RoomTypes
      /\ type \in RoomTypes
  BY WithRoomDb DEF RegistryInv, TypeOK, IsDb, IsTable
<1>4. \A q \in RoomIds : FindMembersByRoom(db, q)' =
        IF q = r THEN FindMembersByRoom(db, q) \cup {p}
        ELSE FindMembersByRoom(db, q)
  BY <1>1 DEF FindMembersByRoom
<1>5. \A q \in RoomIds, v \in Usernames : Namesakes(q, v)' =
        IF q = r /\ v = u THEN {p} ELSE Namesakes(q, v)
  <2> SUFFICES ASSUME NEW q \in RoomIds, NEW v \in Usernames
               PROVE  Namesakes(q, v)' =
                        IF q = r /\ v = u THEN {p} ELSE Namesakes(q, v)
    OBVIOUS
  <2>1. \A o : o \in Namesakes(q, v)'
               <=> o \in Namesakes(q, v) \/ (o = p /\ q = r /\ v = u)
    BY <1>1 DEF Namesakes, FindMembersByRoom
  <2>2. QED
    BY <1>2, <2>1
<1>6. \A o \in DOMAIN db.members : PendingMessages(o)' = PendingMessages(o)
  BY <1>1 DEF PendingMessages, GetMessagesAfter, MessagesOfRoom
<1>7. PendingMessages(p)' = Promise!Held(r)
  <2>1. \A n \in DOMAIN db.messages : n \in Int /\ n > 0
    BY DEF RegistryInv, TypeOK, IsDb, IsTable, Seqs
  <2>2. PendingMessages(p)' = MessagesOfRoom(db, r)
    BY <1>1, <2>1 DEF PendingMessages, GetMessagesAfter, MessagesOfRoom
  <2>3. QED
    BY <2>2, HeldIsStored
<1>8. u \notin RoomUsers[r]
  BY <1>2 DEF RoomUsers, Namesakes
<1>9. /\ IF RoomKinds[r] = "none" THEN type \in {"direct", "group"}
         ELSE type = RoomKinds[r]
      /\ RoomKinds' = [RoomKinds EXCEPT ![r] = type]
  <2>1. RoomKinds[r] = IF r \in DOMAIN db.rooms THEN db.rooms[r] ELSE "none"
    BY DEF RoomKinds
  <2>2. r \in DOMAIN db.rooms => type = db.rooms[r]
    BY DEF JoinedType
  <2>3. RoomKinds' = [RoomKinds EXCEPT ![r] = type]
    BY <1>1 DEF RoomKinds
  <2>4. QED
    BY <1>3, <2>1, <2>2, <2>3 DEF RoomTypes
<1>10. type = "direct" => Cardinality(RoomUsers[r]) < 2
  BY <1>2, NamesAtMostMembers DEF Full
<1>11. RoomUsers' = [RoomUsers EXCEPT ![r] = @ \cup {u}]
  <2>1. \A q \in RoomIds : RoomUsers'[q] =
          IF q = r THEN RoomUsers[q] \cup {u} ELSE RoomUsers[q]
    <3> SUFFICES ASSUME NEW q \in RoomIds
                 PROVE  RoomUsers'[q] = IF q = r THEN RoomUsers[q] \cup {u}
                                        ELSE RoomUsers[q]
      OBVIOUS
    <3>1. /\ RoomUsers[q] = {db.members[o].username : o \in FindMembersByRoom(db, q)}
          /\ RoomUsers'[q] =
               {db'.members[o].username : o \in FindMembersByRoom(db, q)'}
      BY DEF RoomUsers
    <3>2. \A o \in FindMembersByRoom(db, q) : db'.members[o] = db.members[o]
      BY <1>1 DEF FindMembersByRoom
    <3>3. QED
      BY <1>1, <1>4, <3>1, <3>2
  <2>2. QED
    BY <2>1 DEF RoomUsers
<1>12. UsersOnline' = UsersOnline \cup {<<r, u>>}
  <2>1. OnlineMeaning /\ OnlineMeaning' /\ OnlinePairs /\ OnlinePairs'
    BY UsersOnlineMean, UsersOnlinePairs, PTL
  <2>2. ASSUME NEW q \in RoomIds, NEW v \in Usernames
        PROVE  <<q, v>> \in UsersOnline' <=> <<q, v>> \in UsersOnline \cup {<<r, u>>}
    <3>1. /\ <<q, v>> \in UsersOnline
             <=> \E o \in Namesakes(q, v) : o \in DOMAIN connections
          /\ <<q, v>> \in UsersOnline'
             <=> \E o \in Namesakes(q, v)' : o \in DOMAIN connections'
      BY <2>1 DEF OnlineMeaning
    <3>2. p \notin Namesakes(q, v)
      BY <1>1 DEF Namesakes, FindMembersByRoom
    <3>3. QED
      BY <1>1, <1>5, <3>1, <3>2
  <2>3. QED
    BY <2>1, <2>2 DEF OnlinePairs
<1>13. Inboxes' = [Inboxes EXCEPT ![<<r, u>>] = Promise!Held(r)]
  <2>1. InboxMeaning /\ InboxMeaning'
    BY InboxesMean, PTL
  <2>2. Inboxes'[<<r, u>>] = Promise!Held(r)
    BY <1>5, <1>7, <2>1 DEF InboxMeaning
  <2>3. ASSUME NEW q \in RoomIds, NEW v \in Usernames, <<q, v>> # <<r, u>>
        PROVE  Inboxes'[<<q, v>>] = Inboxes[<<q, v>>]
    <3>1. Namesakes(q, v)' = Namesakes(q, v)
      BY <1>5, <2>3
    <3>2. \A o \in Namesakes(q, v) : o \in DOMAIN db.members
      BY DEF Namesakes, FindMembersByRoom
    <3>3. CASE Namesakes(q, v) = {}
      BY <2>1, <3>1, <3>3 DEF InboxMeaning
    <3>4. ASSUME NEW o \in Namesakes(q, v)
          PROVE  Inboxes'[<<q, v>>] = Inboxes[<<q, v>>]
      <4>1. Inboxes[<<q, v>>] = PendingMessages(o)
        BY <2>1 DEF InboxMeaning
      <4>2. Inboxes'[<<q, v>>] = PendingMessages(o)'
        BY <2>1, <3>1 DEF InboxMeaning
      <4>3. QED
        BY <1>6, <3>2, <4>1, <4>2
    <3>5. QED
      BY <3>3, <3>4
  <2>4. QED
    BY <2>2, <2>3, OneInbox
<1>14. QED
  BY <1>1, <1>8, <1>9, <1>10, <1>11, <1>12, <1>13
  DEF Promise!Join, Promise!Cardinality, Cardinality

(***************************************************************************)
(* A session that is in a room acts there as a user who is online.          *)
(***************************************************************************)
LEMMA ClientIsOnline ==
  ASSUME RegistryInv, NEW c \in clients
  PROVE  /\ c.peerId \in PeerIds /\ c.roomId \in RoomIds /\ c.username \in Usernames
         /\ c.peerId \in DOMAIN db.members
         /\ c.peerId \in Namesakes(c.roomId, c.username)
         /\ \A q \in Namesakes(c.roomId, c.username) : q = c.peerId
         /\ c.peerId \in DOMAIN connections
         /\ c.roomId \in DOMAIN db.rooms
         /\ RoomKinds[c.roomId] = c.roomType
         /\ <<c.roomId, c.username>> \in UsersOnline
<1>1. c.peerId \in PeerIds /\ c.roomId \in RoomIds /\ c.username \in Usernames
  BY DEF RegistryInv, TypeOK, RamTypeOK, ClientInfo
<1>2. /\ c.peerId \in DOMAIN db.members
      /\ c.peerId \in Namesakes(c.roomId, c.username)
      /\ c.roomId \in DOMAIN db.rooms
      /\ db.rooms[c.roomId] = c.roomType
  BY DEF RegistryInv, ClientsAreMembers, StoreConsistent, MembersHaveRooms,
         Namesakes, FindMembersByRoom
<1>3. c.peerId \in DOMAIN connections
  BY DEF RegistryInv, ConnectionsMatchClients
<1>4. \A q \in Namesakes(c.roomId, c.username) : q = c.peerId
  BY <1>2 DEF RegistryInv, UniqueUsernames, Namesakes, FindMembersByRoom
<1>5. RoomKinds[c.roomId] = c.roomType
  BY <1>1, <1>2 DEF RoomKinds
<1>6. <<c.roomId, c.username>> \in UsersOnline
  BY <1>1, <1>2, <1>3, UsersOnlineMean DEF OnlineMeaning
<1>7. QED
  BY <1>1, <1>2, <1>3, <1>4, <1>5, <1>6

(***************************************************************************)
(* As long as no row of members changes its room or name, rooms have the    *)
(* same users.                                                             *)
(***************************************************************************)
LEMMA SameMembers ==
  ASSUME DOMAIN db'.members = DOMAIN db.members,
         \A q \in DOMAIN db.members :
           /\ db'.members[q].room_id = db.members[q].room_id
           /\ db'.members[q].username = db.members[q].username
  PROVE  /\ \A r : FindMembersByRoom(db, r)' = FindMembersByRoom(db, r)
         /\ \A r, u : Namesakes(r, u)' = Namesakes(r, u)
         /\ RoomUsers' = RoomUsers
         /\ connections' = connections => UsersOnline' = UsersOnline
<1>1. \A r : FindMembersByRoom(db, r)' = FindMembersByRoom(db, r)
  BY DEF FindMembersByRoom
<1>2. \A r, u : Namesakes(r, u)' = Namesakes(r, u)
  BY <1>1 DEF Namesakes, FindMembersByRoom
<1>3. RoomUsers' = RoomUsers
  <2>1. ASSUME NEW r \in RoomIds
        PROVE  RoomUsers'[r] = RoomUsers[r]
    <3>1. /\ RoomUsers[r] = {db.members[o].username : o \in FindMembersByRoom(db, r)}
          /\ RoomUsers'[r] =
               {db'.members[o].username : o \in FindMembersByRoom(db, r)'}
      BY DEF RoomUsers
    <3>2. \A o \in FindMembersByRoom(db, r) :
            db'.members[o].username = db.members[o].username
      BY DEF FindMembersByRoom
    <3>3. QED
      BY <1>1, <3>1, <3>2
  <2>2. QED
    BY <2>1 DEF RoomUsers
<1>4. ASSUME connections' = connections
      PROVE  UsersOnline' = UsersOnline
  <2>1. {q \in DOMAIN db'.members : Online(q)'} = {q \in DOMAIN db.members : Online(q)}
    BY <1>4 DEF Online
  <2>2. QED
    BY <2>1 DEF UsersOnline
<1>5. QED
  BY <1>1, <1>2, <1>3, <1>4

(***************************************************************************)
(* broadcast puts the message into the inbox of each member of the room:    *)
(* its number is past every cursor.                                        *)
(***************************************************************************)
LEMMA BroadcastPosts ==
  ASSUME RegistryInv, RegistryInv', NEW c \in clients, Broadcast(c)
  PROVE  Promise!Post(c.roomId, c.username)
<1> DEFINE n   == db.nextSeq + 1
           row == [room_id |-> c.roomId, from_peer_id |-> c.peerId]
<1>1. /\ IsDb(db)
      /\ c.peerId \in PeerIds /\ c.roomId \in RoomIds
      /\ n \in Int
      /\ n \notin DOMAIN db.messages
      /\ \A p \in DOMAIN db.members : db.members[p].last_acked_msg_seq < n
  BY DEF RegistryInv, TypeOK, RamTypeOK, ClientInfo, CursorsSent, IsDb, IsTable,
         StoreConsistent, MessagesHaveRooms
<1>2. /\ db'.rooms = db.rooms /\ db'.members = db.members
      /\ db'.messages = Replace(db.messages, n, row)
      /\ db'.nextSeq = n
      /\ connections' = connections
  BY <1>1, SaveGroupMessageDb, PurgeNothing DEF Broadcast
<1>3. row.room_id = c.roomId
  OBVIOUS
<1> HIDE DEF row
<1>4. /\ \A r, u : Namesakes(r, u)' = Namesakes(r, u)
      /\ RoomUsers' = RoomUsers
      /\ UsersOnline' = UsersOnline
  BY <1>2, SameMembers
<1>5. RoomKinds' = RoomKinds
  BY <1>2 DEF RoomKinds
<1>6. ASSUME NEW p \in DOMAIN db.members
      PROVE  PendingMessages(p)' =
               IF db.members[p].room_id = c.roomId
               THEN PendingMessages(p) \cup {n} ELSE PendingMessages(p)
  <2>1. \A r : MessagesOfRoom(db, r)' =
                 IF r = c.roomId THEN MessagesOfRoom(db, r) \cup {n}
                 ELSE MessagesOfRoom(db, r)
    BY <1>1, <1>2, <1>3 DEF MessagesOfRoom, Replace
  <2>2. db.members[p].last_acked_msg_seq \in Int /\ n > db.members[p].last_acked_msg_seq
    BY <1>1 DEF IsDb, IsTable, MemberRow
  <2>3. QED
    BY <1>2, <2>1, <2>2 DEF PendingMessages, GetMessagesAfter
<1>7. InboxMeaning /\ InboxMeaning'
  BY InboxesMean, PTL
<1>8. ASSUME NEW r \in RoomIds, NEW u \in Usernames
      PROVE  Inboxes'[<<r, u>>] =
               IF r = c.roomId /\ u \in RoomUsers[r]
               THEN Inboxes[<<r, u>>] \cup {n} ELSE Inboxes[<<r, u>>]
  <2>1. u \in RoomUsers[r] <=> Namesakes(r, u) # {}
    BY DEF RoomUsers, Namesakes
  <2>2. CASE Namesakes(r, u) = {}
    BY <1>4, <1>7, <2>1, <2>2 DEF InboxMeaning
  <2>3. ASSUME NEW p \in Namesakes(r, u)
        PROVE  Inboxes'[<<r, u>>] =
                 IF r = c.roomId THEN Inboxes[<<r, u>>] \cup {n} ELSE Inboxes[<<r, u>>]
    <3>1. p \in DOMAIN db.members /\ db.members[p].room_id = r
      BY DEF Namesakes, FindMembersByRoom
    <3>2. Inboxes[<<r, u>>] = PendingMessages(p)
      BY <1>7 DEF InboxMeaning
    <3>3. Inboxes'[<<r, u>>] = PendingMessages(p)'
      BY <1>4, <1>7 DEF InboxMeaning
    <3>4. QED
      BY <1>6, <3>1, <3>2, <3>3
  <2>4. QED
    BY <2>1, <2>2, <2>3
<1>9. Inboxes' = [x \in RoomIds \X Usernames |->
                    IF x[1] = c.roomId /\ x[2] \in RoomUsers[c.roomId]
                    THEN Inboxes[x] \cup {n} ELSE Inboxes[x]]
  <2>1. ASSUME NEW x \in RoomIds \X Usernames
        PROVE  Inboxes'[x] = IF x[1] = c.roomId /\ x[2] \in RoomUsers[c.roomId]
                             THEN Inboxes[x] \cup {n} ELSE Inboxes[x]
    <3>1. PICK r \in RoomIds, u \in Usernames : x = <<r, u>>
      OBVIOUS
    <3>2. QED
      BY <1>8, <3>1
  <2>2. Inboxes' = [x \in RoomIds \X Usernames |-> Inboxes'[x]]
    BY DEF Inboxes
  <2>3. QED
    BY <2>1, <2>2
<1>10. <<c.roomId, c.username>> \in UsersOnline /\ RoomKinds[c.roomId] = "group"
  BY ClientIsOnline DEF Broadcast
<1>11. QED
  BY <1>2, <1>4, <1>5, <1>9, <1>10 DEF Promise!Post

(***************************************************************************)
(* acknowledgeMessages changes one inbox: what cleanup deletes is at or      *)
(* below every cursor of the room, so it is in no inbox there.             *)
(***************************************************************************)
LEMMA AcknowledgeAcknowledges ==
  ASSUME RegistryInv, RegistryInv', NothingLingers,
         NEW c \in clients, NEW n \in Int, Acknowledge(c, n)
  PROVE  Promise!Acknowledge(c.roomId, c.username, n)
<1>1. IsDb(db)
  BY DEF RegistryInv, TypeOK
<1>2. /\ db'.rooms = db.rooms
      /\ DOMAIN db'.members = DOMAIN db.members
      /\ \A q \in DOMAIN db.members :
           /\ db'.members[q].username = db.members[q].username
           /\ db'.members[q].room_id = db.members[q].room_id
           /\ db'.members[q].last_acked_msg_seq =
                IF q = c.peerId THEN n ELSE db.members[q].last_acked_msg_seq
      /\ DOMAIN db'.messages \subseteq DOMAIN db.messages
      /\ \A k \in DOMAIN db'.messages : db'.messages[k] = db.messages[k]
      /\ \A k \in DOMAIN db.messages \ DOMAIN db'.messages :
           /\ db.messages[k].room_id = c.roomId
           /\ \A q \in FindMembersByRoom(db', c.roomId) :
                k <= db'.members[q].last_acked_msg_seq
      /\ db'.nextSeq = db.nextSeq
  BY <1>1, AcknowledgeTables
<1>3. connections' = connections
  BY DEF Acknowledge
<1>4. /\ \A r, u : Namesakes(r, u)' = Namesakes(r, u)
      /\ RoomUsers' = RoomUsers
      /\ UsersOnline' = UsersOnline
  BY <1>2, <1>3, SameMembers
<1>5. RoomKinds' = RoomKinds
  BY <1>2 DEF RoomKinds
<1>6. /\ \A k \in DOMAIN db.messages : k \in Int
      /\ \A q \in DOMAIN db.members : db.members[q].last_acked_msg_seq \in Int
  BY <1>1 DEF IsDb, IsTable, MemberRow, Seqs
<1>7. ASSUME NEW q \in DOMAIN db.members
      PROVE  PendingMessages(q)' =
               {k \in MessagesOfRoom(db, db.members[q].room_id) :
                  k > db'.members[q].last_acked_msg_seq}
  <2>1. PendingMessages(q)' =
          {k \in DOMAIN db'.messages :
             /\ db'.messages[k].room_id = db.members[q].room_id
             /\ k > db'.members[q].last_acked_msg_seq}
    BY <1>2 DEF PendingMessages, GetMessagesAfter, MessagesOfRoom
  <2>2. ASSUME NEW k \in DOMAIN db.messages,
               db.messages[k].room_id = db.members[q].room_id,
               k > db'.members[q].last_acked_msg_seq
        PROVE  k \in DOMAIN db'.messages
    <3>1. q \in FindMembersByRoom(db', db.members[q].room_id)
      BY <1>2 DEF FindMembersByRoom
    <3>2. db'.members[q].last_acked_msg_seq \in Int
      BY <1>2, <1>6
    <3>3. QED
      BY <1>2, <1>6, <2>2, <3>1, <3>2
  <2>3. QED
    BY <1>2, <2>1, <2>2 DEF MessagesOfRoom
<1>8. ASSUME NEW q \in DOMAIN db.members, q # c.peerId
      PROVE  PendingMessages(q)' = PendingMessages(q)
  BY <1>2, <1>7, <1>8 DEF PendingMessages, GetMessagesAfter
<1>9. InboxMeaning /\ InboxMeaning'
  BY InboxesMean, PTL
<1>10. /\ c.roomId \in RoomIds /\ c.username \in Usernames
       /\ c.peerId \in DOMAIN db.members /\ db.members[c.peerId].room_id = c.roomId
       /\ c.peerId \in Namesakes(c.roomId, c.username)
       /\ <<c.roomId, c.username>> \in UsersOnline
  BY ClientIsOnline DEF Namesakes, FindMembersByRoom
<1>11. Inboxes'[<<c.roomId, c.username>>] = {k \in Promise!Held(c.roomId) : k > n}
  <2>1. Inboxes'[<<c.roomId, c.username>>] = PendingMessages(c.peerId)'
    <3>1. \A r \in RoomIds, u \in Usernames : \A q \in Namesakes(r, u) :
            Inboxes'[<<r, u>>] = PendingMessages(q)'
      BY <1>4, <1>9 DEF InboxMeaning
    <3>2. QED
      BY <1>10, <3>1
  <2>2. QED
    BY <1>2, <1>7, <1>10, <2>1, HeldIsStored
<1>12. ASSUME NEW r \in RoomIds, NEW u \in Usernames,
              <<r, u>> # <<c.roomId, c.username>>
       PROVE  Inboxes'[<<r, u>>] = Inboxes[<<r, u>>]
  <2>1. CASE Namesakes(r, u) = {}
    BY <1>4, <1>9, <2>1 DEF InboxMeaning
  <2>2. ASSUME NEW q \in Namesakes(r, u)
        PROVE  Inboxes'[<<r, u>>] = Inboxes[<<r, u>>]
    <3>1. q \in DOMAIN db.members /\ q # c.peerId
      BY <1>10, <1>12 DEF Namesakes, FindMembersByRoom
    <3>2. Inboxes[<<r, u>>] = PendingMessages(q)
      BY <1>9 DEF InboxMeaning
    <3>3. Inboxes'[<<r, u>>] = PendingMessages(q)'
      BY <1>4, <1>9 DEF InboxMeaning
    <3>4. QED
      BY <1>8, <3>1, <3>2, <3>3
  <2>3. QED
    BY <2>1, <2>2
<1>13. Inboxes' = [Inboxes EXCEPT ![<<c.roomId, c.username>>] =
                     {k \in Promise!Held(c.roomId) : k > n}]
  BY <1>10, <1>11, <1>12, OneInbox
<1>14. QED
  BY <1>2, <1>4, <1>5, <1>10, <1>13 DEF Promise!Acknowledge

(***************************************************************************)
(* A leave empties one inbox and takes one name out of one room; what it     *)
(* deletes is in no inbox of those who stay.                               *)
(***************************************************************************)
LEMMA LeaveLeaves ==
  ASSUME RegistryInv, RegistryInv', NEW c \in clients, Leave(c)
  PROVE  Promise!Leave(c.roomId, c.username)
<1> DEFINE gone == FindMembersByRoom(db, c.roomId) \subseteq {c.peerId}
<1>1. IsDb(db)
  BY DEF RegistryInv, TypeOK
<1>2. /\ DOMAIN db'.members = DOMAIN db.members \ {c.peerId}
      /\ \A q \in DOMAIN db'.members : db'.members[q] = db.members[q]
      /\ DOMAIN db'.rooms = IF gone THEN DOMAIN db.rooms \ {c.roomId}
                            ELSE DOMAIN db.rooms
      /\ \A k \in DOMAIN db'.rooms : db'.rooms[k] = db.rooms[k]
      /\ DOMAIN db'.messages \subseteq DOMAIN db.messages
      /\ \A k \in DOMAIN db'.messages : db'.messages[k] = db.messages[k]
      /\ \A k \in DOMAIN db.messages \ DOMAIN db'.messages :
           /\ db.messages[k].room_id = c.roomId
           /\ \A q \in FindMembersByRoom(db', c.roomId) :
                k <= db'.members[q].last_acked_msg_seq
      /\ db'.nextSeq = db.nextSeq
  BY <1>1, LeaveTables
<1>3. connections' = Remove(connections, {c.peerId})
  BY PurgeNothing DEF Leave
<1>4. /\ c.peerId \in PeerIds /\ c.roomId \in RoomIds /\ c.username \in Usernames
      /\ c.peerId \in DOMAIN db.members
      /\ db.members[c.peerId].room_id = c.roomId
      /\ db.members[c.peerId].username = c.username
      /\ c.peerId \in Namesakes(c.roomId, c.username)
      /\ \A q \in Namesakes(c.roomId, c.username) : q = c.peerId
      /\ <<c.roomId, c.username>> \in UsersOnline
  BY ClientIsOnline DEF Namesakes, FindMembersByRoom
<1>5. \A q \in RoomIds, v \in Usernames :
        Namesakes(q, v)' = Namesakes(q, v) \ {c.peerId}
  BY <1>2 DEF Namesakes, FindMembersByRoom
<1>6. ASSUME NEW q \in DOMAIN db'.members
      PROVE  PendingMessages(q)' = PendingMessages(q)
  <2>1. q \in DOMAIN db.members /\ db'.members[q] = db.members[q]
    BY <1>2
  <2>2. ASSUME NEW k \in DOMAIN db.messages,
               db.messages[k].room_id = db.members[q].room_id,
               k > db.members[q].last_acked_msg_seq
        PROVE  k \in DOMAIN db'.messages
    <3>1. q \in FindMembersByRoom(db', db.members[q].room_id)
      BY <2>1 DEF FindMembersByRoom
    <3>2. k \in Int /\ db.members[q].last_acked_msg_seq \in Int
      BY <1>1, <2>1 DEF IsDb, IsTable, MemberRow, Seqs
    <3>3. QED
      BY <1>2, <2>1, <2>2, <3>1, <3>2
  <2>3. QED
    BY <1>2, <2>1, <2>2 DEF PendingMessages, GetMessagesAfter, MessagesOfRoom
<1>7. RoomUsers' = [RoomUsers EXCEPT ![c.roomId] = @ \ {c.username}]
  <2>1. ASSUME NEW q \in RoomIds
        PROVE  RoomUsers'[q] = IF q = c.roomId THEN RoomUsers[q] \ {c.username}
                               ELSE RoomUsers[q]
    <3>1. \A v : v \in RoomUsers[q]
                 <=> \E o \in DOMAIN db.members :
                       db.members[o].room_id = q /\ db.members[o].username = v
      BY DEF RoomUsers, FindMembersByRoom
    <3>2. \A v : v \in RoomUsers'[q]
                 <=> \E o \in DOMAIN db'.members :
                       db'.members[o].room_id = q /\ db'.members[o].username = v
      BY DEF RoomUsers, FindMembersByRoom
    <3>3. \A v : v \in RoomUsers'[q]
                 <=> \E o \in DOMAIN db.members : /\ o # c.peerId
                                                  /\ db.members[o].room_id = q
                                                  /\ db.members[o].username = v
      BY <1>2, <3>2
    <3>4. \A o \in DOMAIN db.members :
            /\ db.members[o].room_id = c.roomId
            /\ db.members[o].username = c.username
            => o = c.peerId
      BY <1>4 DEF Namesakes, FindMembersByRoom
    <3>5. CASE q = c.roomId
      <4>1. \A v : v \in RoomUsers'[q] <=> v \in RoomUsers[q] \ {c.username}
        BY <1>4, <3>1, <3>3, <3>4, <3>5
      <4>2. QED
        BY <3>5, <4>1 DEF RoomUsers
    <3>6. CASE q # c.roomId
      <4>1. \A v : v \in RoomUsers'[q] <=> v \in RoomUsers[q]
        BY <1>4, <3>1, <3>3, <3>6
      <4>2. QED
        BY <3>6, <4>1 DEF RoomUsers
    <3>7. QED
      BY <3>5, <3>6
  <2>2. QED
    BY <2>1 DEF RoomUsers
<1>8. gone <=> RoomUsers[c.roomId] = {c.username}
  <2>1. \A v : v \in RoomUsers[c.roomId]
               <=> \E o \in DOMAIN db.members :
                     db.members[o].room_id = c.roomId /\ db.members[o].username = v
    BY <1>4 DEF RoomUsers, FindMembersByRoom
  <2>2. \A o \in DOMAIN db.members :
          /\ db.members[o].room_id = c.roomId
          /\ db.members[o].username = c.username
          => o = c.peerId
    BY <1>4 DEF Namesakes, FindMembersByRoom
  <2>3. QED
    BY <1>4, <2>1, <2>2 DEF FindMembersByRoom
<1>9. RoomKinds' = [RoomKinds EXCEPT ![c.roomId] =
                      IF RoomUsers[c.roomId] = {c.username} THEN "none" ELSE @]
  <2> HIDE DEF gone
  <2>1. CASE gone
    BY <1>2, <1>4, <1>8, <2>1 DEF RoomKinds
  <2>2. CASE ~gone
    BY <1>2, <1>4, <1>8, <2>2 DEF RoomKinds
  <2>3. QED
    BY <2>1, <2>2
<1>10. UsersOnline' = UsersOnline \ {<<c.roomId, c.username>>}
  <2>1. OnlineMeaning /\ OnlineMeaning' /\ OnlinePairs /\ OnlinePairs'
    BY UsersOnlineMean, UsersOnlinePairs, PTL
  <2>2. ASSUME NEW q \in RoomIds, NEW v \in Usernames
        PROVE  <<q, v>> \in UsersOnline'
               <=> <<q, v>> \in UsersOnline \ {<<c.roomId, c.username>>}
    <3>1. /\ <<q, v>> \in UsersOnline
             <=> \E o \in Namesakes(q, v) : o \in DOMAIN connections
          /\ <<q, v>> \in UsersOnline'
             <=> \E o \in Namesakes(q, v)' : o \in DOMAIN connections'
      BY <2>1 DEF OnlineMeaning
    <3>2. DOMAIN connections' = DOMAIN connections \ {c.peerId}
      BY <1>3 DEF Remove
    <3>3. c.peerId \in Namesakes(q, v) <=> q = c.roomId /\ v = c.username
      BY <1>4 DEF Namesakes, FindMembersByRoom
    <3>4. QED
      BY <1>4, <1>5, <3>1, <3>2, <3>3
  <2>3. QED
    BY <2>1, <2>2 DEF OnlinePairs
<1>11. InboxMeaning /\ InboxMeaning'
  BY InboxesMean, PTL
<1>12. Inboxes'[<<c.roomId, c.username>>] = {}
  <2>1. Namesakes(c.roomId, c.username)' = {}
    BY <1>4, <1>5
  <2>2. QED
    BY <1>4, <1>11, <2>1 DEF InboxMeaning
<1>13. ASSUME NEW q \in RoomIds, NEW v \in Usernames,
              <<q, v>> # <<c.roomId, c.username>>
       PROVE  Inboxes'[<<q, v>>] = Inboxes[<<q, v>>]
  <2>1. Namesakes(q, v)' = Namesakes(q, v)
    BY <1>4, <1>5, <1>13 DEF Namesakes, FindMembersByRoom
  <2>2. CASE Namesakes(q, v) = {}
    BY <1>11, <2>1, <2>2 DEF InboxMeaning
  <2>3. ASSUME NEW o \in Namesakes(q, v)
        PROVE  Inboxes'[<<q, v>>] = Inboxes[<<q, v>>]
    <3>1. o \in DOMAIN db'.members
      BY <1>2, <1>4, <1>13 DEF Namesakes, FindMembersByRoom
    <3>2. Inboxes[<<q, v>>] = PendingMessages(o)
      BY <1>11 DEF InboxMeaning
    <3>3. Inboxes'[<<q, v>>] = PendingMessages(o)'
      BY <1>11, <2>1 DEF InboxMeaning
    <3>4. QED
      BY <1>6, <3>1, <3>2, <3>3
  <2>4. QED
    BY <2>2, <2>3
<1>14. Inboxes' = [Inboxes EXCEPT ![<<c.roomId, c.username>>] = {}]
  BY <1>4, <1>12, <1>13, OneInbox
<1>15. QED
  BY <1>2, <1>4, <1>7, <1>9, <1>10, <1>14 DEF Promise!Leave

(***************************************************************************)
(* When a session closes, the users it was in rooms as go offline.         *)
(***************************************************************************)
LEMMA CloseDrops ==
  ASSUME RegistryInv, RegistryInv', NEW s \in Sessions, Close(s)
  PROVE  \E lost \in SUBSET UsersOnline : Promise!Drop(lost)
<1> DEFINE ids  == {c.peerId : c \in ClientsOf(s)}
           lost == {<<c.roomId, c.username>> : c \in ClientsOf(s)}
<1>1. /\ db' = db
      /\ connections' = Remove(connections, ids)
  BY PurgeNothing DEF Close, Disconnect
<1>2. lost \subseteq UsersOnline
  BY ClientIsOnline DEF ClientsOf
<1>3. /\ RoomKinds' = RoomKinds /\ RoomUsers' = RoomUsers
      /\ Inboxes' = Inboxes
      /\ \A q, v : Namesakes(q, v)' = Namesakes(q, v)
  BY <1>1 DEF RoomKinds, RoomUsers, FindMembersByRoom, Inboxes, Namesakes,
              MemberNamed, PendingMessages, GetMessagesAfter, MessagesOfRoom
<1>4. UsersOnline' = UsersOnline \ lost
  <2>1. OnlineMeaning /\ OnlineMeaning' /\ OnlinePairs /\ OnlinePairs'
    BY UsersOnlineMean, UsersOnlinePairs, PTL
  <2>2. ASSUME NEW q \in RoomIds, NEW v \in Usernames
        PROVE  <<q, v>> \in UsersOnline' <=> <<q, v>> \in UsersOnline \ lost
    <3>1. /\ <<q, v>> \in UsersOnline
             <=> \E o \in Namesakes(q, v) : o \in DOMAIN connections
          /\ <<q, v>> \in UsersOnline'
             <=> \E o \in Namesakes(q, v) : o \in DOMAIN connections'
      BY <1>3, <2>1 DEF OnlineMeaning
    <3>2. DOMAIN connections' = DOMAIN connections \ ids
      BY <1>1 DEF Remove
    <3>3. \A o, p \in Namesakes(q, v) : o = p
      BY DEF RegistryInv, UniqueUsernames, Namesakes, FindMembersByRoom
    <3>4. ASSUME NEW o \in Namesakes(q, v)
          PROVE  o \in ids <=> <<q, v>> \in lost
      <4>1. ASSUME o \in ids PROVE <<q, v>> \in lost
        <5>1. PICK c \in ClientsOf(s) : o = c.peerId
          BY <4>1
        <5>2. c.roomId = q /\ c.username = v
          BY <5>1 DEF ClientsOf, RegistryInv, ClientsAreMembers, Namesakes,
                      FindMembersByRoom
        <5>3. QED
          BY <5>2
      <4>2. ASSUME <<q, v>> \in lost PROVE o \in ids
        <5>1. PICK c \in ClientsOf(s) : q = c.roomId /\ v = c.username
          BY <4>2
        <5>2. c.peerId \in Namesakes(q, v)
          BY <5>1, ClientIsOnline DEF ClientsOf
        <5>3. QED
          BY <3>3, <5>2
      <4>3. QED
        BY <4>1, <4>2
    <3>5. QED
      BY <3>1, <3>2, <3>4
  <2>3. QED
    BY <2>1, <2>2 DEF OnlinePairs
<1>5. Promise!Drop(lost)
  BY <1>1, <1>2, <1>3, <1>4 DEF Promise!Drop
<1>6. QED
  BY <1>2, <1>5

(***************************************************************************)
(* An empty registry is an empty ChatRooms.                                 *)
(***************************************************************************)
LEMMA InitPromises == Init => Promise!Init
<1> SUFFICES ASSUME Init PROVE Promise!Init
  OBVIOUS
<1>1. /\ DOMAIN db.rooms = {} /\ DOMAIN db.members = {} /\ db.nextSeq = 0
      /\ DOMAIN connections = {}
  BY EmptyTableIsTable DEF Init, EmptyDb
<1>2. RoomKinds = [r \in RoomIds |-> "none"]
  BY <1>1 DEF RoomKinds
<1>3. RoomUsers = [r \in RoomIds |-> {}]
  BY <1>1 DEF RoomUsers, FindMembersByRoom
<1>4. UsersOnline = {}
  BY <1>1 DEF UsersOnline
<1>5. Inboxes = [x \in RoomIds \X Usernames |-> {}]
  BY <1>1 DEF Inboxes, Namesakes, FindMembersByRoom
<1>6. QED
  BY <1>1, <1>2, <1>3, <1>4, <1>5 DEF Promise!Init

(***************************************************************************)
(* Every step of the registry is a step of ChatRooms, or changes nothing of *)
(* it.                                                                      *)
(***************************************************************************)
LEMMA NextPromises ==
  RegistryInv /\ RegistryInv' /\ NothingLingers /\ [Next]_vars
  => [Promise!Next]_(Promise!vars)
<1> SUFFICES ASSUME RegistryInv, RegistryInv', NothingLingers, [Next]_vars
             PROVE  Promise!Next \/ UNCHANGED Promise!vars
  OBVIOUS
<1>1. ASSUME NEW s \in Sessions, Accept(s)
      PROVE  UNCHANGED Promise!vars
  BY <1>1, PromiseStutters DEF Accept
<1>2. ASSUME NEW s \in Sessions, NEW r \in RoomIds, NEW u \in Usernames,
             NEW t \in RequestedTypes,
             \/ JoinRefused(s, r, u, t)
             \/ JoinReconnect(s, r, u, t)
             \/ JoinNew(s, r, u, t)
      PROVE  Promise!Next \/ UNCHANGED Promise!vars
  <2>1. CASE JoinRefused(s, r, u, t)
    BY <2>1, RefusedChangesNothing, PromiseStutters
  <2>2. CASE JoinReconnect(s, r, u, t)
    BY <2>2, ReconnectReturns DEF Promise!Next
  <2>3. CASE JoinNew(s, r, u, t)
    <3>1. JoinedType(r, t) \in {"direct", "group"}
      BY WithRoomDb DEF RegistryInv, TypeOK, RoomTypes
    <3>2. QED
      BY <2>3, <3>1, NewJoins DEF Promise!Next
  <2>4. QED
    BY <1>2, <2>1, <2>2, <2>3
<1>3. ASSUME NEW s \in Sessions, NEW c \in ClientsOf(s), Requests(c, SentSeqs)
      PROVE  Promise!Next \/ UNCHANGED Promise!vars
  <2>1. c \in clients /\ c.roomId \in RoomIds /\ c.username \in Usernames
    BY ClientIsOnline DEF ClientsOf
  <2>2. ASSUME NEW p \in PeerIds, Route(c, p)
        PROVE  UNCHANGED Promise!vars
    BY <2>2, PurgeNothing, PromiseStutters DEF Route
  <2>3. CASE Broadcast(c)
    BY <2>1, <2>3, BroadcastPosts DEF Promise!Next
  <2>4. ASSUME NEW n \in SentSeqs, Acknowledge(c, n)
        PROVE  Promise!Next
    <3>1. n \in Int /\ n \in 1..db.nextSeq
      BY DEF SentSeqs, RegistryInv, TypeOK, IsDb
    <3>2. Promise!Acknowledge(c.roomId, c.username, n)
      BY <2>1, <2>4, <3>1, AcknowledgeAcknowledges
    <3>3. QED
      BY <2>1, <3>1, <3>2 DEF Promise!Next
  <2>5. CASE Leave(c)
    BY <2>1, <2>5, LeaveLeaves DEF Promise!Next
  <2>6. QED
    BY <1>3, <2>2, <2>3, <2>4, <2>5 DEF Requests
<1>4. ASSUME NEW s \in Sessions, Close(s)
      PROVE  Promise!Next
  BY <1>4, CloseDrops DEF Promise!Next
<1>5. ASSUME UNCHANGED vars
      PROVE  UNCHANGED Promise!vars
  BY <1>5, PromiseStutters DEF vars
<1>6. QED
  BY <1>1, <1>2, <1>3, <1>4, <1>5 DEF Next, Joins

(***************************************************************************)
(* The registry keeps what ChatRooms promises, whatever the interleaving of  *)
(* joins, leaves, messages, acknowledgements and lost connections: one       *)
(* cleanup of the messages table by the lowest cursor never takes a message *)
(* out of another member's inbox, nor does a new member find one that is in *)
(* nobody's.                                                               *)
(***************************************************************************)
THEOREM RegistryKeepsPromise == Spec => KeepsPromise
BY InitPromises, NextPromises, RegistryConsistent, NothingLingersAlways, PTL
DEF Spec, KeepsPromise, Promise!Spec
=============================================================================

------------------------------ MODULE RoomStore ------------------------------
(***************************************************************************)
(* SqliteRoomStore: the signaling server's database, as operators that take *)
(* a database and return the database after one method.                    *)
(*                                                                         *)
(* A database is a record of three tables and a counter:                   *)
(*   rooms     room_id   -> type                                           *)
(*   members   member_id -> [username, room_id, last_acked_msg_seq]        *)
(*   messages  seq       -> [room_id, from_peer_id]                        *)
(*   nextSeq   the last sequence number handed out (in RAM, not in the     *)
(*             file: Reopen computes it again)                             *)
(* A table is a function from the primary keys it holds to their rows.     *)
(* Names, timestamps and payloads are left out: nothing branches on them.  *)
(***************************************************************************)
EXTENDS Integers, FiniteSets

RoomTypes == {"direct", "group"}

-----------------------------------------------------------------------------
(* The two statements of sqlite_orm the store is built from.               *)

\* storage.replace(row): insert the row, or overwrite the one with its key.
Replace(table, key, row) ==
  [k \in DOMAIN table \cup {key} |-> IF k = key THEN row ELSE table[k]]

\* storage.remove<Row>(key), for every key of a set.
Remove(table, keys) == [k \in DOMAIN table \ keys |-> table[k]]

EmptyTable == [k \in {} |-> k]

\* A table with keys in Keys and rows in Rows.
IsTable(table, Keys, Rows) ==
  /\ table = [k \in DOMAIN table |-> table[k]]
  /\ DOMAIN table \subseteq Keys
  /\ \A k \in DOMAIN table : table[k] \in Rows

-----------------------------------------------------------------------------
EmptyDb ==
  [rooms |-> EmptyTable, members |-> EmptyTable,
   messages |-> EmptyTable, nextSeq |-> 0]

\* Mutant of Reopen: the number of stored messages for the largest seq.
ReopenCounting(db) == [db EXCEPT !.nextSeq = Cardinality(DOMAIN db.messages)]

\* Opening the file: the counter restarts from the largest stored seq, or
\* from zero when no message is stored.
Reopen(db) ==
  LET stored == DOMAIN db.messages
      maxSeq == CHOOSE n \in stored : \A m \in stored : m <= n
  IN  [db EXCEPT !.nextSeq = IF stored = {} THEN 0 ELSE maxSeq]

SaveRoom(db, r, type) == [db EXCEPT !.rooms = Replace(@, r, type)]

SaveMember(db, p, row) == [db EXCEPT !.members = Replace(@, p, row)]

\* Mutant of RemoveMember: deletes by name instead of by key.
RemoveMemberByName(db, p) ==
  [db EXCEPT !.members =
     Remove(@, {q \in DOMAIN db.members :
                  p \in DOMAIN db.members
                  /\ db.members[q].username = db.members[p].username})]

RemoveMember(db, p) == [db EXCEPT !.members = Remove(@, {p})]

FindMembersByRoom(db, r) ==
  {p \in DOMAIN db.members : db.members[p].room_id = r}

MessagesOfRoom(db, r) ==
  {n \in DOMAIN db.messages : db.messages[n].room_id = r}

\* Mutant of GetMessagesAfter: ">=" for ">".
GetMessagesFrom(db, r, afterSeq) ==
  {n \in MessagesOfRoom(db, r) : n >= afterSeq}

GetMessagesAfter(db, r, afterSeq) ==
  {n \in MessagesOfRoom(db, r) : n > afterSeq}

RemoveGroupMessagesByRoom(db, r) ==
  [db EXCEPT !.messages = Remove(@, MessagesOfRoom(db, r))]

\* removeRoom deletes what is left of the room's members and messages too.
RemoveRoom(db, r) ==
  [rooms    |-> Remove(db.rooms, {r}),
   members  |-> Remove(db.members, FindMembersByRoom(db, r)),
   messages |-> Remove(db.messages, MessagesOfRoom(db, r)),
   nextSeq  |-> db.nextSeq]

SaveGroupMessage(db, r, from) ==
  LET seq == db.nextSeq + 1
  IN  [rooms    |-> db.rooms,
       members  |-> db.members,
       messages |-> Replace(db.messages, seq,
                            [room_id |-> r, from_peer_id |-> from]),
       nextSeq  |-> seq]

\* An overwrite: the new cursor may be behind the old one.
UpdateLastAckedSeq(db, p, seq) ==
  IF p \in DOMAIN db.members
  THEN [db EXCEPT !.members = Replace(@, p,
                     [db.members[p] EXCEPT !.last_acked_msg_seq = seq])]
  ELSE db

\* Mutants of Cleanable: the highest cursor instead of the lowest; no filter on
\* the room; one past the lowest cursor.
CleanableByAny(db, r) ==
  {n \in MessagesOfRoom(db, r) :
     \E p \in FindMembersByRoom(db, r) :
       n <= db.members[p].last_acked_msg_seq}

CleanableInAnyRoom(db, r) ==
  {n \in DOMAIN db.messages :
     /\ FindMembersByRoom(db, r) # {}
     /\ \A p \in FindMembersByRoom(db, r) :
          /\ db.members[p].last_acked_msg_seq > 0
          /\ n <= db.members[p].last_acked_msg_seq}

CleanablePastLowest(db, r) ==
  {n \in MessagesOfRoom(db, r) :
     /\ FindMembersByRoom(db, r) # {}
     /\ \A p \in FindMembersByRoom(db, r) :
          /\ db.members[p].last_acked_msg_seq > 0
          /\ n <= db.members[p].last_acked_msg_seq + 1}

\* The messages at or below every member's cursor. A lowest cursor of zero or
\* less deletes nothing, and neither does a room without members.
Cleanable(db, r) ==
  {n \in MessagesOfRoom(db, r) :
     /\ FindMembersByRoom(db, r) # {}
     /\ \A p \in FindMembersByRoom(db, r) :
          /\ db.members[p].last_acked_msg_seq > 0
          /\ n <= db.members[p].last_acked_msg_seq}

CleanupMessages(db, r) ==
  [db EXCEPT !.messages = Remove(@, Cleanable(db, r))]
=============================================================================

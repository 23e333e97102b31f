-------------------------- MODULE ConsoleClientProofs --------------------------
(***************************************************************************)
(* Proofs about ConsoleClient: what it has acknowledged it stores, in order, *)
(* once and under its sender, or loses only in the ways NothingSlips names. *)
(*                                                                         *)
(* ConsoleInv is the inductive invariant.  Its hard parts are about what is *)
(* between two places: the acknowledged and what is still under way (NoGaps), *)
(* the element a walk of the queue is at and what it has read of it (WalkOK, *)
(* WalkLosesNothing), the stored and the queued (StoredOK).                *)
(***************************************************************************)
EXTENDS ConsoleClient, FiniteSetTheorems, WellFoundedInduction, TLAPS

-----------------------------------------------------------------------------
(* The invariant: types.                                                   *)

\* Those whose messages the server sends.
Writers == Peers \cup {MyPeer}
\* An id, or that there is none.
Id == Nat \cup {None}

\* The rows of the three tables, and what is in incomingQueue.
ChatRows == [id : Nat, room : Rooms]
MemberRows == [id : Nat, name : Writers \cup {Me, None}]
MessageRows == [id : Nat, chat : Id, sender : Id, text : Id,
                direction : {"incoming", "outgoing"}]
Items == [room : Rooms, from : Writers, text : Nat]

StoreTypeOK ==
  /\ nextId \in Nat
  /\ store \in [chats : Seq(ChatRows), members : Seq(MemberRows),
                relations : {<<>>}, messages : Seq(MessageRows)]

MemType ==
  [given : BOOLEAN, connected : BOOLEAN, todo : Seq(ChatRows),
   joined : SUBSET Rooms, self : [Rooms -> Id], senders : [Keys -> Id],
   queue : Seq(Items), room : Rooms \cup {None}, chat : Id, text : Id]

MemTypeOK == mem \in MemType

OpTypeOK ==
  op \in [main : {"none", "run_one", "loop"},
          coroutine : {"none", "spawned", "posted", "done"}, id : Id]

WalkTypeOK ==
  walk \in [at : Nat, size : Nat, moved : BOOLEAN, room : Rooms \cup {None},
            key : Keys \cup {None}, chat : Id, sender : Id, text : Id]

LogRows == [from : Writers, text : Nat]
SeqRows == [from : Writers, text : Nat, seq : Nat]
Events == [room : Rooms, messages : Seq(SeqRows)]

WorldTypeOK ==
  /\ link \in {"none", "connecting", "up", "broken"}
  /\ rooms \in [Rooms -> [log : Seq(LogRows), session : {"none", "now", "old"},
                          cursor : Nat]]
  /\ inbox \in Seq(Events)
  /\ author \in Seq(Peers \cup {Me})
  /\ ends \in Nat /\ breaks \in Nat

-----------------------------------------------------------------------------
(* The rows of the database.                                               *)

\* The next uuid is a new one, and no two chats have one id.
IdsFresh ==
  /\ \A i \in DOMAIN store.chats : store.chats[i].id < nextId
  /\ \A i \in DOMAIN store.members : store.members[i].id < nextId
  /\ \A i \in DOMAIN store.messages : store.messages[i].id < nextId
  /\ \A i, j \in DOMAIN store.chats :
       store.chats[i].id = store.chats[j].id => i = j

StoreInv == StoreTypeOK /\ IdsFresh

\* The row with that id is the chat of room r.
ChatIs(id, r) ==
  /\ HasChat(store, id)
  /\ \A i \in DOMAIN store.chats :
       store.chats[i].id = id => store.chats[i].room = r

\* The row with that id is a member of that name.
MemberIs(id, name) ==
  /\ HasMember(store, id)
  /\ \A i \in DOMAIN store.members :
       store.members[i].id = id => store.members[i].name = name

\* The room has a chat.
Saved(r) == ChatsOf(r) # {}

-----------------------------------------------------------------------------
(* What the server sends.                                                  *)

\* A text is the number it has among all that are written.
Texts == DOMAIN author
Writer(n) == IF author[n] = Me THEN MyPeer ELSE author[n]

\* A log is what was written to the room, in that order.
LogsOK ==
  \A r \in Rooms :
    /\ \A i \in DOMAIN rooms[r].log :
         /\ rooms[r].log[i].text \in Texts
         /\ rooms[r].log[i].from = Writer(rooms[r].log[i].text)
    /\ \A i, j \in DOMAIN rooms[r].log :
         i < j => rooms[r].log[i].text < rooms[r].log[j].text
    /\ rooms[r].cursor <= Len(rooms[r].log)

Seqs(j) == {inbox[j].messages[i].seq : i \in DOMAIN inbox[j].messages}

\* An event is a part of the log of its room, in its order.
FromLog(e) ==
  /\ e.messages # <<>>
  /\ \A i \in DOMAIN e.messages :
       /\ e.messages[i].seq \in DOMAIN rooms[e.room].log
       /\ e.messages[i].from = rooms[e.room].log[e.messages[i].seq].from
       /\ e.messages[i].text = rooms[e.room].log[e.messages[i].seq].text
  /\ \A i, k \in DOMAIN e.messages :
       i < k => e.messages[i].seq < e.messages[k].seq

InboxOK == \A j \in DOMAIN inbox : FromLog(inbox[j])

\* What is under way from a room the session is in is all that has not been
\* acknowledged, once, and in order.
NoGaps ==
  /\ \A r \in Rooms : rooms[r].session = "now" =>
       \A k \in (rooms[r].cursor + 1)..Len(rooms[r].log) :
         \E j \in DOMAIN inbox : inbox[j].room = r /\ k \in Seqs(j)
  /\ \A j \in DOMAIN inbox : rooms[inbox[j].room].session = "now" =>
       /\ \A k \in Seqs(j) : k > rooms[inbox[j].room].cursor
       /\ \A i \in DOMAIN inbox : i < j /\ inbox[i].room = inbox[j].room =>
            \A k \in Seqs(i), l \in Seqs(j) : k < l

\* The session is in a room only while the connection is up, and then nothing
\* comes from elsewhere.
SessionsOK ==
  /\ \A r \in Rooms : rooms[r].session = "now" => link = "up" /\ Saved(r)
  /\ link = "up" =>
       \A j \in DOMAIN inbox : rooms[inbox[j].room].session = "now"
  /\ link \in {"none", "connecting"} => inbox = <<>>
  /\ link = "broken" => breaks > 0
  /\ \A j \in DOMAIN inbox : Saved(inbox[j].room)

WorldInv == WorldTypeOK /\ LogsOK /\ InboxOK /\ NoGaps /\ SessionsOK

-----------------------------------------------------------------------------
(* The main thread.                                                        *)

\* What it waits for has been written.
Written == op.coroutine = "done"

\* Rooms are joined once their chat is in the database.
JoinedOK ==
  /\ \A r \in mem.joined : Saved(r)
  /\ \A i \in DOMAIN mem.todo : Saved(mem.todo[i].room)
  /\ pc \in {"rejoin", "rejoin self"} => mem.todo # <<>>
  /\ pc \in {"rejoin self", "join self", "send self", "settle to send", "text",
             "outgoing"} => mem.room \in Rooms /\ Saved(mem.room)
  /\ pc = "chat" => mem.room \in Rooms /\ (Written => Saved(mem.room))
  /\ pc = "off" => mem = EmptyMem /\ link = "none"

MainInv == MemTypeOK /\ OpTypeOK /\ WalkTypeOK /\ JoinedOK

-----------------------------------------------------------------------------
(* The queue and the walk.                                                 *)

\* What is in incomingQueue came from a room with a chat, under its writer.
QueueOK ==
  \A i \in DOMAIN mem.queue :
    /\ Saved(mem.queue[i].room)
    /\ mem.queue[i].text \in Texts
    /\ mem.queue[i].from = Writer(mem.queue[i].text)

\* senderMemberIds leads to members with the peer id asked for.
SendersOK ==
  \A key \in Keys :
    mem.senders[key] # None => MemberIs(mem.senders[key], key[2])

\* What the walk holds of the element it is at, if that can still be read.
WalkOK ==
  /\ Walking <=> pc \in {"find", "sender", "incoming"}
  /\ Walking => walk.at <= walk.size /\ walk.size <= Len(mem.queue)
  /\ pc = "find" /\ ~walk.moved => walk.room = mem.queue[walk.at].room
  /\ pc = "sender" =>
       /\ walk.key \in Keys /\ mem.senders[walk.key] = None
       /\ ~walk.moved =>
            /\ ChatIs(walk.chat, mem.queue[walk.at].room)
            /\ walk.key[2] = mem.queue[walk.at].from
       /\ Written => MemberIs(op.id, walk.key[2])
  /\ pc = "incoming" /\ walk.text # None =>
       /\ walk.text = mem.queue[walk.at].text
       /\ ChatIs(walk.chat, mem.queue[walk.at].room)
       /\ MemberIs(walk.sender, mem.queue[walk.at].from)
  /\ pc = "incoming" /\ ~walk.moved => walk.text # None

Stored(n) == \E j \in Incomings : store.messages[j].text = n

\* The walk will still write element i.
ToBeWritten(i) ==
  \/ i > walk.at /\ i <= walk.size /\ ~walk.moved
  \/ /\ i = walk.at /\ ~(pc = "incoming" /\ Written)
     /\ ~walk.moved \/ (pc = "incoming" /\ walk.text = mem.queue[i].text)

\* What the walk will not write it has written, or it is excused.
WalkLosesNothing ==
  Walking => \A i \in DOMAIN mem.queue :
    \/ mem.queue[i].text \in excused
    \/ Stored(mem.queue[i].text)
    \/ ToBeWritten(i)

WalkInv == QueueOK /\ SendersOK /\ WalkOK /\ WalkLosesNothing /\ NothingSlips

-----------------------------------------------------------------------------
(* The order.                                                              *)

\* The server takes text n of room r for delivered.
Acked(r, n) == \E k \in 1..rooms[r].cursor : rooms[r].log[k].text = n

\* The walk is done with element j.
Passed(j) ==
  /\ Walking
  /\ j < walk.at \/ (j = walk.at /\ pc = "incoming" /\ Written)

\* A message is stored in the chat of its room, under its sender, and before
\* what is still in the queue.
StoredOK ==
  \A i \in Incomings : \E r \in Rooms :
    /\ ChatIs(store.messages[i].chat, r)
    /\ store.messages[i].text \in Texts
    /\ MemberIs(store.messages[i].sender, Writer(store.messages[i].text))
    /\ breaks = 0 =>
         /\ Acked(r, store.messages[i].text)
         /\ \A j \in DOMAIN mem.queue :
              mem.queue[j].room = r /\ ~Passed(j) =>
                store.messages[i].text < mem.queue[j].text

\* While no connection is lost, the queue holds what is acknowledged, in order.
QueueInOrder ==
  breaks = 0 =>
    /\ \A i \in DOMAIN mem.queue : Acked(mem.queue[i].room, mem.queue[i].text)
    /\ \A i, j \in DOMAIN mem.queue :
         i < j /\ mem.queue[i].room = mem.queue[j].room =>
           mem.queue[i].text < mem.queue[j].text

OrderInv == StoredOK /\ QueueInOrder /\ StoredInSequence

-----------------------------------------------------------------------------
(* The members.                                                            *)

\* The rooms in which this run of the program has added a member for p.
Met(p) ==
  {r \in Rooms :
     \/ mem.senders[<<r, p>>] # None
     \/ pc = "sender" /\ walk.key = <<r, p>> /\ Written}

MembersOf(p) == {i \in DOMAIN store.members : store.members[i].name = p}

\* Members are added once for each peer and room by each run of the program.
FewMembers ==
  \A p \in Writers :
    Cardinality(MembersOf(p)) <= ends * Cardinality(Rooms) + Cardinality(Met(p))

ConsoleInv ==
  StoreInv /\ WorldInv /\ MainInv /\ WalkInv /\ OrderInv /\ FewMembers

-----------------------------------------------------------------------------
(* The database.                                                           *)

\* Nothing is changed or removed, and what is added has new ids.
StoreGrows ==
  /\ \A i \in DOMAIN store.chats :
       i \in DOMAIN store'.chats /\ store'.chats[i] = store.chats[i]
  /\ \A i \in DOMAIN store.members :
       i \in DOMAIN store'.members /\ store'.members[i] = store.members[i]
  /\ \A i \in DOMAIN store.messages :
       i \in DOMAIN store'.messages /\ store'.messages[i] = store.messages[i]
  /\ \A i \in DOMAIN store'.chats \ DOMAIN store.chats :
       store'.chats[i].id = nextId
  /\ \A i \in DOMAIN store'.members \ DOMAIN store.members :
       store'.members[i].id = nextId

(***************************************************************************)
(* A row added at the end leaves the others where they are.                *)
(***************************************************************************)
LEMMA AppendKeeps ==
  ASSUME NEW S, NEW s \in Seq(S), NEW x \in S
  PROVE  /\ Append(s, x) \in Seq(S)
         /\ Len(Append(s, x)) = Len(s) + 1
         /\ DOMAIN Append(s, x) = DOMAIN s \cup {Len(s) + 1}
         /\ \A i \in DOMAIN s : Append(s, x)[i] = s[i]
         /\ Append(s, x)[Len(s) + 1] = x
         /\ Len(s) + 1 \notin DOMAIN s
         /\ Append(s, x) # s
OBVIOUS

\* Table t is s and a row with a new id.
IsAdded(S, s, t, row, id) ==
  /\ ~Has(s, id) /\ Has(t, id)
  /\ t \in Seq(S) /\ t # s
  /\ DOMAIN t = DOMAIN s \cup {Len(s) + 1} /\ Len(s) + 1 \notin DOMAIN s
  /\ \A i \in DOMAIN s : t[i] = s[i]
  /\ t[Len(s) + 1] = row
  /\ \A i \in DOMAIN t : t[i].id < id + 1
  /\ \A i \in DOMAIN t : t[i].id = id => i = Len(s) + 1

(***************************************************************************)
(* A row with a new id is in no table yet, and is the only one with it.    *)
(***************************************************************************)
LEMMA RowAdded ==
  ASSUME NEW S, NEW s \in Seq(S), NEW row \in S, NEW id \in Nat, row.id = id,
         \A i \in DOMAIN s : s[i].id \in Nat /\ s[i].id < id
  PROVE  IsAdded(S, s, Append(s, row), row, id)
<1> DEFINE t == Append(s, row)
<1>1. ~Has(s, id)
  BY DEF Has
<1>2. /\ t \in Seq(S) /\ t # s
      /\ DOMAIN t = DOMAIN s \cup {Len(s) + 1} /\ Len(s) + 1 \notin DOMAIN s
      /\ \A i \in DOMAIN s : t[i] = s[i]
      /\ t[Len(s) + 1] = row
  BY AppendKeeps
<1> HIDE DEF t
<1>3. Has(t, id)
  BY <1>2 DEF Has
<1>4. ASSUME NEW i \in DOMAIN t
      PROVE  t[i].id < id + 1 /\ (t[i].id = id => i = Len(s) + 1)
  <2>1. CASE i \in DOMAIN s
    <3>1. t[i].id \in Nat /\ t[i].id < id
      BY <1>2, <2>1
    <3>2. QED
      BY <3>1
  <2>2. CASE i = Len(s) + 1
    BY <1>2, <2>2
  <2>3. QED
    BY <1>2, <2>1, <2>2
<1>5. QED
  BY <1>1, <1>2, <1>3, <1>4 DEF IsAdded, t

(***************************************************************************)
(* The four tables, one by one.                                            *)
(***************************************************************************)
LEMMA StoreTypes ==
  ASSUME StoreTypeOK
  PROVE  /\ nextId \in Nat
         /\ store.chats \in Seq(ChatRows)
         /\ store.members \in Seq(MemberRows)
         /\ store.messages \in Seq(MessageRows)
         /\ store.relations = <<>>
         /\ store = [chats |-> store.chats, members |-> store.members,
                     relations |-> <<>>, messages |-> store.messages]
BY DEF StoreTypeOK

(***************************************************************************)
(* The fields of their rows.                                               *)
(***************************************************************************)
LEMMA RowTypes ==
  ASSUME StoreTypeOK
  PROVE  /\ \A i \in DOMAIN store.chats :
              store.chats[i].id \in Nat /\ store.chats[i].room \in Rooms
         /\ \A i \in DOMAIN store.members : store.members[i].id \in Nat
         /\ \A i \in DOMAIN store.messages :
              /\ store.messages[i].id \in Nat /\ store.messages[i].chat \in Id
              /\ store.messages[i].sender \in Id
              /\ store.messages[i].text \in Id
<1>1. /\ \A i \in DOMAIN store.chats : store.chats[i] \in ChatRows
      /\ \A i \in DOMAIN store.members : store.members[i] \in MemberRows
      /\ \A i \in DOMAIN store.messages : store.messages[i] \in MessageRows
  <2>1. ASSUME NEW S, NEW s \in Seq(S)
        PROVE  \A i \in DOMAIN s : s[i] \in S
    BY <2>1
  <2>2. QED
    BY <2>1, StoreTypes
<1>2. QED
  BY <1>1 DEF ChatRows, MemberRows, MessageRows

(***************************************************************************)
(* A table of ids below nextId.                                            *)
(***************************************************************************)
LEMMA FreshIds ==
  ASSUME StoreInv
  PROVE  /\ \A i \in DOMAIN store.chats :
              store.chats[i].id \in Nat /\ store.chats[i].id < nextId
         /\ \A i \in DOMAIN store.members :
              store.members[i].id \in Nat /\ store.members[i].id < nextId
         /\ \A i \in DOMAIN store.messages :
              store.messages[i].id \in Nat /\ store.messages[i].id < nextId
         /\ \A i \in DOMAIN store.chats : store.chats[i].id < nextId + 1
         /\ \A i \in DOMAIN store.members : store.members[i].id < nextId + 1
         /\ \A i \in DOMAIN store.messages : store.messages[i].id < nextId + 1
BY RowTypes, StoreTypes DEF StoreInv, IdsFresh

(***************************************************************************)
(* A chat that is added has a new id, so it is added indeed.               *)
(***************************************************************************)
LEMMA ChatAdded ==
  ASSUME StoreInv, NEW r \in Rooms,
         store' = AddChat(store, [id |-> nextId, room |-> r]),
         nextId' = IF store' = store THEN nextId ELSE nextId + 1
  PROVE  /\ StoreInv' /\ StoreGrows /\ Saved(r)'
         /\ store'.members = store.members /\ store'.messages = store.messages
<1> DEFINE row == [id |-> nextId, room |-> r]
           s   == store.chats
           t   == Append(s, row)
<1>1. /\ nextId \in Nat /\ s \in Seq(ChatRows)
      /\ store.members \in Seq(MemberRows)
      /\ store.messages \in Seq(MessageRows) /\ store.relations = <<>>
      /\ store = [chats |-> s, members |-> store.members,
                  relations |-> <<>>, messages |-> store.messages]
  BY StoreTypes DEF StoreInv
<1>2. row \in ChatRows /\ row.id = nextId /\ row.room = r
  BY <1>1 DEF ChatRows
<1> HIDE DEF row
<1>3. IsAdded(ChatRows, s, t, row, nextId)
  <2>1. \A i \in DOMAIN s : s[i].id \in Nat /\ s[i].id < nextId
    BY FreshIds
  <2>2. QED
    BY <1>1, <1>2, <2>1, RowAdded
<1>4. store' = [store EXCEPT !.chats = t]
  BY <1>3 DEF AddChat, HasChat, row, IsAdded
<1> HIDE DEF t
<1>5. /\ store'.chats = t
      /\ store'.members = store.members /\ store'.messages = store.messages
      /\ store' \in [chats : Seq(ChatRows), members : Seq(MemberRows),
                     relations : {<<>>}, messages : Seq(MessageRows)]
  BY <1>1, <1>3, <1>4 DEF IsAdded
<1>6. nextId' = nextId + 1
  BY <1>3, <1>5 DEF IsAdded
<1>7. StoreGrows
  BY <1>2, <1>3, <1>5 DEF StoreGrows, IsAdded
<1>8. \A i, j \in DOMAIN t : t[i].id = t[j].id => i = j
  <2>1. \A i, j \in DOMAIN s : t[i].id = t[j].id => i = j
    BY <1>3 DEF StoreInv, IdsFresh, IsAdded
  <2>2. \A i \in DOMAIN t : i \notin DOMAIN s => t[i].id = nextId
    BY <1>2, <1>3 DEF IsAdded
  <2>3. QED
    BY <1>3, <2>1, <2>2 DEF IsAdded
<1>9. IdsFresh'
  <2>1. \A i \in DOMAIN t : t[i].id < nextId + 1
    BY <1>3 DEF IsAdded
  <2>2. /\ \A i \in DOMAIN store.members : store.members[i].id < nextId + 1
        /\ \A i \in DOMAIN store.messages : store.messages[i].id < nextId + 1
    BY FreshIds
  <2>3. QED
    BY <1>5, <1>6, <1>8, <2>1, <2>2 DEF IdsFresh
<1>10. StoreInv'
  BY <1>1, <1>5, <1>6, <1>9 DEF StoreInv, StoreTypeOK
<1>11. Saved(r)'
  BY <1>2, <1>3, <1>5 DEF Saved, ChatsOf, GetAllChats, IsAdded
<1>12. QED
  BY <1>5, <1>7, <1>10, <1>11

(***************************************************************************)
(* So is a member.                                                         *)
(***************************************************************************)
LEMMA MemberAdded ==
  ASSUME StoreInv, NEW name \in Writers \cup {Me, None}, NEW id, id = nextId,
         store' = AddMember(store, [id |-> nextId, name |-> name]),
         nextId' = IF store' = store THEN nextId ELSE nextId + 1
  PROVE  /\ StoreInv' /\ StoreGrows /\ MemberIs(id, name)'
         /\ store'.chats = store.chats /\ store'.messages = store.messages
         /\ DOMAIN store'.members
              = DOMAIN store.members \cup {Len(store.members) + 1}
         /\ store'.members[Len(store.members) + 1].name = name
<1> DEFINE row == [id |-> nextId, name |-> name]
           s   == store.members
           t   == Append(s, row)
<1>1. /\ nextId \in Nat /\ s \in Seq(MemberRows)
      /\ store.chats \in Seq(ChatRows)
      /\ store.messages \in Seq(MessageRows) /\ store.relations = <<>>
      /\ store = [chats |-> store.chats, members |-> s,
                  relations |-> <<>>, messages |-> store.messages]
  BY StoreTypes DEF StoreInv
<1>2. row \in MemberRows /\ row.id = nextId /\ row.name = name
  BY <1>1 DEF MemberRows
<1> HIDE DEF row
<1>3. IsAdded(MemberRows, s, t, row, nextId)
  <2>1. \A i \in DOMAIN s : s[i].id \in Nat /\ s[i].id < nextId
    BY FreshIds
  <2>2. QED
    BY <1>1, <1>2, <2>1, RowAdded
<1>4. store' = [store EXCEPT !.members = t]
  BY <1>3 DEF AddMember, HasMember, row, IsAdded
<1> HIDE DEF t
<1>5. /\ store'.members = t
      /\ store'.chats = store.chats /\ store'.messages = store.messages
      /\ store' \in [chats : Seq(ChatRows), members : Seq(MemberRows),
                     relations : {<<>>}, messages : Seq(MessageRows)]
  BY <1>1, <1>3, <1>4 DEF IsAdded
<1>6. nextId' = nextId + 1
  BY <1>3, <1>5 DEF IsAdded
<1>7. StoreGrows
  BY <1>2, <1>3, <1>5 DEF StoreGrows, IsAdded
<1>8. IdsFresh'
  <2>1. \A i, j \in DOMAIN store.chats :
          store.chats[i].id = store.chats[j].id => i = j
    BY DEF StoreInv, IdsFresh
  <2>2. QED
    BY <1>3, <1>5, <1>6, <2>1, FreshIds DEF IdsFresh, IsAdded
<1>9. StoreInv'
  BY <1>1, <1>5, <1>6, <1>8 DEF StoreInv, StoreTypeOK
<1>10. MemberIs(id, name)'
  BY <1>2, <1>3, <1>5 DEF MemberIs, HasMember, IsAdded
<1>11. QED
  BY <1>2, <1>3, <1>5, <1>7, <1>9, <1>10 DEF IsAdded

(***************************************************************************)
(* A database that does not change grows too.                              *)
(***************************************************************************)
LEMMA SameStore ==
  ASSUME StoreInv, UNCHANGED <<store, nextId>>
  PROVE  StoreInv' /\ StoreGrows /\ Incomings' = Incomings
<1>1. StoreInv'
  BY DEF StoreInv, StoreTypeOK, IdsFresh
<1>2. StoreGrows /\ Incomings' = Incomings
  BY DEF StoreGrows, Incomings
<1>3. QED
  BY <1>1, <1>2

\* A message is written, as the last of all.
LastMessage(row) ==
  /\ DOMAIN store'.messages
       = DOMAIN store.messages \cup {Len(store.messages) + 1}
  /\ Len(store.messages) + 1 \notin DOMAIN store.messages
  /\ store'.messages[Len(store.messages) + 1] = row

(***************************************************************************)
(* A message whose chat and sender are there is added at the end; any other *)
(* is refused and the database stays as it is.                             *)
(***************************************************************************)
LEMMA MessageAdded ==
  ASSUME StoreInv, NEW row \in MessageRows, row.id = nextId,
         store' = AddMessage(store, row),
         nextId' = IF store' = store THEN nextId ELSE nextId + 1
  PROVE  /\ StoreInv' /\ StoreGrows
         /\ store'.chats = store.chats /\ store'.members = store.members
         /\ IF HasBoth(store, row.chat, row.sender) THEN LastMessage(row)
            ELSE Incomings' = Incomings
<1>1. CASE ~HasBoth(store, row.chat, row.sender)
  <2>1. store' = store /\ nextId' = nextId
    BY <1>1 DEF AddMessage, MayAddMessage
  <2>2. QED
    BY <1>1, <2>1, SameStore
<1>2. CASE HasBoth(store, row.chat, row.sender)
  <2> DEFINE s == store.messages
             t == Append(s, row)
  <2>1. /\ nextId \in Nat /\ s \in Seq(MessageRows)
        /\ store.chats \in Seq(ChatRows)
        /\ store.members \in Seq(MemberRows) /\ store.relations = <<>>
        /\ store = [chats |-> store.chats, members |-> store.members,
                    relations |-> <<>>, messages |-> s]
    BY StoreTypes DEF StoreInv
  <2>2. IsAdded(MessageRows, s, t, row, nextId)
    <3>1. \A i \in DOMAIN s : s[i].id \in Nat /\ s[i].id < nextId
      BY FreshIds
    <3>2. QED
      BY <2>1, <3>1, RowAdded
  <2>3. MayAddMessage(store, row)
    BY <1>2, <2>2 DEF MayAddMessage, HasMessage, IsAdded
  <2>4. store' = [store EXCEPT !.messages = t]
    BY <2>3 DEF AddMessage
  <2> HIDE DEF t
  <2>5. /\ store'.messages = t
        /\ store'.chats = store.chats /\ store'.members = store.members
        /\ store' \in [chats : Seq(ChatRows), members : Seq(MemberRows),
                       relations : {<<>>}, messages : Seq(MessageRows)]
    BY <2>1, <2>2, <2>4 DEF IsAdded
  <2>6. nextId' = nextId + 1
    BY <2>2, <2>5 DEF IsAdded
  <2>7. StoreGrows
    BY <2>2, <2>5 DEF StoreGrows, IsAdded
  <2>8. IdsFresh'
    <3>1. \A i, j \in DOMAIN store.chats :
            store.chats[i].id = store.chats[j].id => i = j
      BY DEF StoreInv, IdsFresh
    <3>2. QED
      BY <2>2, <2>5, <2>6, <3>1, FreshIds DEF IdsFresh, IsAdded
  <2>9. StoreInv'
    BY <2>1, <2>5, <2>6, <2>8 DEF StoreInv, StoreTypeOK
  <2>10. LastMessage(row)
    BY <2>2, <2>5 DEF IsAdded, LastMessage
  <2>11. QED
    BY <1>2, <2>5, <2>7, <2>9, <2>10
<1>3. QED
  BY <1>1, <1>2

(***************************************************************************)
(* A database that grows keeps its chats, its members and its messages.    *)
(***************************************************************************)
LEMMA Persist ==
  ASSUME StoreInv, StoreGrows
  PROVE  /\ \A r \in Rooms : Saved(r) => Saved(r)'
         /\ \A id, r : ChatIs(id, r) => ChatIs(id, r)'
         /\ \A id, name : MemberIs(id, name) => MemberIs(id, name)'
         /\ Incomings \subseteq Incomings'
         /\ \A n : Stored(n) => Stored(n)'
<1>1. \A r \in Rooms : Saved(r) => Saved(r)'
  <2>1. ASSUME NEW r \in Rooms, NEW i \in ChatsOf(r)
        PROVE  i \in ChatsOf(r)'
    BY <2>1 DEF ChatsOf, GetAllChats, StoreGrows
  <2>2. QED
    BY <2>1 DEF Saved
<1>2. ASSUME NEW id, NEW r, ChatIs(id, r)
      PROVE  ChatIs(id, r)'
  <2>1. PICK c \in DOMAIN store.chats : store.chats[c].id = id
    BY <1>2 DEF ChatIs, HasChat, Has
  <2>2. id # nextId
    BY <2>1, FreshIds
  <2>3. c \in DOMAIN store'.chats /\ store'.chats[c].id = id
    BY <2>1 DEF StoreGrows
  <2>4. \A i \in DOMAIN store'.chats :
          store'.chats[i].id = id => store'.chats[i].room = r
    BY <1>2, <2>2 DEF StoreGrows, ChatIs
  <2>5. QED
    BY <2>3, <2>4 DEF ChatIs, HasChat, Has
<1>3. ASSUME NEW id, NEW name, MemberIs(id, name)
      PROVE  MemberIs(id, name)'
  <2>1. PICK c \in DOMAIN store.members : store.members[c].id = id
    BY <1>3 DEF MemberIs, HasMember, Has
  <2>2. id # nextId
    BY <2>1, FreshIds
  <2>3. c \in DOMAIN store'.members /\ store'.members[c].id = id
    BY <2>1 DEF StoreGrows
  <2>4. \A i \in DOMAIN store'.members :
          store'.members[i].id = id => store'.members[i].name = name
    BY <1>3, <2>2 DEF StoreGrows, MemberIs
  <2>5. QED
    BY <2>3, <2>4 DEF MemberIs, HasMember, Has
<1>4. Incomings \subseteq Incomings'
  BY DEF Incomings, StoreGrows
<1>5. ASSUME NEW n, Stored(n)
      PROVE  Stored(n)'
  <2>1. PICK j \in Incomings : store.messages[j].text = n
    BY <1>5 DEF Stored
  <2>2. j \in Incomings' /\ store'.messages[j].text = n
    BY <1>4, <2>1 DEF Incomings, StoreGrows
  <2>3. QED
    BY <2>2 DEF Stored
<1>6. QED
  BY <1>1, <1>2, <1>3, <1>4, <1>5

-----------------------------------------------------------------------------
(* Steps that leave the queue alone.                                       *)

\* Logs and texts only grow, and nothing more is acknowledged.
LogsKeep ==
  /\ \A r \in Rooms :
       /\ rooms'[r].cursor = rooms[r].cursor
       /\ \A i \in DOMAIN rooms[r].log :
            i \in DOMAIN rooms'[r].log /\ rooms'[r].log[i] = rooms[r].log[i]
  /\ \A n \in DOMAIN author : n \in DOMAIN author' /\ author'[n] = author[n]

\* The queue, what is stored of it and what is acknowledged stay the same.
QueueKept ==
  /\ StoreGrows /\ Incomings' = Incomings
  /\ LogsKeep
  /\ mem'.queue = mem.queue
  /\ excused \subseteq excused'
  /\ breaks' = 0 => breaks = 0
  /\ \A j \in Nat : Passed(j) => Passed(j)'

(***************************************************************************)
(* The fields of a room and of what comes from it.                         *)
(***************************************************************************)
LEMMA RoomTypes ==
  ASSUME WorldTypeOK, NEW r \in Rooms
  PROVE  /\ rooms[r].log \in Seq(LogRows) /\ rooms[r].cursor \in Nat
         /\ rooms[r].session \in {"none", "now", "old"}
         /\ Len(rooms[r].log) \in Nat
         /\ DOMAIN rooms[r].log = 1..Len(rooms[r].log)
BY DEF WorldTypeOK

(***************************************************************************)
(* The fields of main()'s state.                                           *)
(***************************************************************************)
LEMMA MemTypes ==
  ASSUME MemTypeOK
  PROVE  /\ mem.queue \in Seq(Items) /\ mem.todo \in Seq(ChatRows)
         /\ mem.joined \subseteq Rooms
         /\ mem.self \in [Rooms -> Id] /\ mem.senders \in [Keys -> Id]
         /\ mem.room \in Rooms \cup {None}
         /\ mem.chat \in Id /\ mem.text \in Id
         /\ Len(mem.queue) \in Nat /\ DOMAIN mem.queue = 1..Len(mem.queue)
         /\ \A i \in DOMAIN mem.queue :
              /\ mem.queue[i].room \in Rooms /\ mem.queue[i].from \in Writers
              /\ mem.queue[i].text \in Nat
         /\ \A i \in DOMAIN mem.todo : mem.todo[i].room \in Rooms
<1>1. mem.queue \in Seq(Items) /\ mem.todo \in Seq(ChatRows)
  BY DEF MemTypeOK, MemType
<1>2. /\ \A i \in DOMAIN mem.queue : mem.queue[i] \in Items
      /\ \A i \in DOMAIN mem.todo : mem.todo[i] \in ChatRows
  <2>1. ASSUME NEW S, NEW s \in Seq(S)
        PROVE  \A i \in DOMAIN s : s[i] \in S
    BY <2>1
  <2>2. QED
    BY <1>1, <2>1
<1>3. /\ mem.joined \subseteq Rooms
      /\ mem.self \in [Rooms -> Id] /\ mem.senders \in [Keys -> Id]
      /\ mem.room \in Rooms \cup {None} /\ mem.chat \in Id /\ mem.text \in Id
  BY DEF MemTypeOK, MemType
<1>4. QED
  BY <1>1, <1>2, <1>3 DEF Items, ChatRows

(***************************************************************************)
(* The writer of a text stays.                                             *)
(***************************************************************************)
LEMMA WritersKept ==
  ASSUME LogsKeep
  PROVE  \A n \in Texts : n \in Texts' /\ Writer(n)' = Writer(n)
BY DEF LogsKeep, Texts, Writer

(***************************************************************************)
(* What is acknowledged stays.                                             *)
(***************************************************************************)
LEMMA AckedKept ==
  ASSUME WorldInv, LogsKeep, NEW r \in Rooms, NEW n
  PROVE  Acked(r, n) => Acked(r, n)'
<1>1. SUFFICES ASSUME NEW k \in 1..rooms[r].cursor, rooms[r].log[k].text = n
               PROVE  Acked(r, n)'
  BY DEF Acked
<1>2. k \in DOMAIN rooms[r].log
  BY <1>1, RoomTypes DEF WorldInv, LogsOK
<1>3. k \in 1..rooms'[r].cursor /\ rooms'[r].log[k].text = n
  BY <1>1, <1>2 DEF LogsKeep
<1>4. QED
  BY <1>3 DEF Acked

(***************************************************************************)
(* What a row looked up by an id is that the table has.                    *)
(***************************************************************************)
LEMMA RowFound ==
  ASSUME NEW table, NEW id, Has(table, id)
  PROVE  \E c \in DOMAIN table : table[c].id = id /\ Head(ById(table, id)) = table[c]
<1> DEFINE c == CHOOSE c \in DOMAIN table : table[c].id = id
<1>1. c \in DOMAIN table /\ table[c].id = id
  BY DEF Has
<1>2. Head(ById(table, id)) = Head(<<table[c]>>)
  BY DEF ById
<1>3. QED
  BY <1>1, <1>2

(***************************************************************************)
(* The room of a message is that of its chat, and stays so.                *)
(***************************************************************************)
LEMMA RoomFound ==
  ASSUME NEW i, NEW r, ChatIs(store.messages[i].chat, r)
  PROVE  RoomOf(i) = r
BY RowFound DEF ChatIs, HasChat, RoomOf, GetChatById

(***************************************************************************)
(* The same of the next state.                                             *)
(***************************************************************************)
LEMMA RoomFoundNext ==
  ASSUME NEW i, NEW r, ChatIs(store.messages[i].chat, r)'
  PROVE  RoomOf(i)' = r
BY RowFound DEF ChatIs, HasChat, RoomOf, GetChatById

(***************************************************************************)
(* Where the queue, what is stored of it and what is acknowledged stay, so *)
(* does what relates them.                                                 *)
(***************************************************************************)
LEMMA KeptQueue ==
  ASSUME StoreInv, WorldInv, MemTypeOK, QueueOK, NothingSlips, OrderInv,
         QueueKept
  PROVE  QueueOK' /\ NothingSlips' /\ OrderInv'
<1>1. /\ \A r \in Rooms : Saved(r) => Saved(r)'
      /\ \A id, r : ChatIs(id, r) => ChatIs(id, r)'
      /\ \A id, name : MemberIs(id, name) => MemberIs(id, name)'
      /\ Incomings' = Incomings
  BY Persist DEF QueueKept
<1>2. \A i \in Incomings : store'.messages[i] = store.messages[i]
  BY DEF QueueKept, StoreGrows, Incomings
<1>3. mem'.queue = mem.queue
  BY DEF QueueKept
<1>4. \A n \in Texts : n \in Texts' /\ Writer(n)' = Writer(n)
  BY WritersKept DEF QueueKept
<1>5. QueueOK'
  BY <1>1, <1>3, <1>4, MemTypes DEF QueueOK
<1>6. NothingSlips'
  <2>1. SUFFICES ASSUME NEW r \in Rooms, NEW i \in 1..rooms'[r].cursor
                 PROVE  LET n == rooms'[r].log[i].text
                        IN  \/ n \in excused'
                            \/ \E j \in DOMAIN mem'.queue : mem'.queue[j].text = n
                            \/ \E j \in Incomings' : store'.messages[j].text = n
    BY DEF NothingSlips
  <2>2. i \in 1..rooms[r].cursor
    BY DEF QueueKept, LogsKeep
  <2>3. rooms'[r].log[i] = rooms[r].log[i]
    BY <2>2, RoomTypes DEF WorldInv, LogsOK, QueueKept, LogsKeep
  <2>4. \/ rooms[r].log[i].text \in excused
        \/ \E j \in DOMAIN mem.queue : mem.queue[j].text = rooms[r].log[i].text
        \/ \E j \in Incomings : store.messages[j].text = rooms[r].log[i].text
    BY <2>2 DEF NothingSlips
  <2>5. QED
    BY <1>1, <1>2, <1>3, <2>3, <2>4 DEF QueueKept
<1>7. \A r \in Rooms : \A n : Acked(r, n) => Acked(r, n)'
  BY AckedKept DEF QueueKept
<1>8. StoredOK'
  <2>1. SUFFICES ASSUME NEW i \in Incomings
        PROVE \E r \in Rooms :
           /\ ChatIs(store.messages[i].chat, r)'
           /\ store.messages[i].text \in Texts'
           /\ MemberIs(store.messages[i].sender, Writer(store.messages[i].text))'
           /\ breaks' = 0 =>
                /\ Acked(r, store.messages[i].text)'
                /\ \A j \in DOMAIN mem.queue :
                     mem.queue[j].room = r /\ ~Passed(j)' =>
                       store.messages[i].text < mem.queue[j].text
    BY <1>1, <1>2, <1>3 DEF StoredOK
  <2>2. PICK r \in Rooms :
           /\ ChatIs(store.messages[i].chat, r)
           /\ store.messages[i].text \in Texts
           /\ MemberIs(store.messages[i].sender, Writer(store.messages[i].text))
           /\ breaks = 0 =>
                /\ Acked(r, store.messages[i].text)
                /\ \A j \in DOMAIN mem.queue :
                     mem.queue[j].room = r /\ ~Passed(j) =>
                       store.messages[i].text < mem.queue[j].text
    BY DEF OrderInv, StoredOK
  <2>3. ChatIs(store.messages[i].chat, r)'
    BY <1>1, <1>2, <2>2
  <2>4. \A j \in DOMAIN mem.queue : Passed(j) => Passed(j)'
    BY MemTypes DEF QueueKept
  <2>5. QED
    BY <1>1, <1>2, <1>4, <1>7, <2>2, <2>4 DEF QueueKept
<1>9. QueueInOrder'
  BY <1>3, <1>7, MemTypes DEF OrderInv, QueueInOrder, QueueKept
<1>10. StoredInSequence'
  <2>1. ASSUME NEW i \in Incomings
        PROVE  RoomOf(i)' = RoomOf(i)
    <3>1. PICK r \in Rooms : ChatIs(store.messages[i].chat, r)
      BY DEF OrderInv, StoredOK
    <3>2. ChatIs(store.messages[i].chat, r)'
      BY <1>1, <1>2, <3>1
    <3>3. QED
      BY <3>1, <3>2, RoomFound, RoomFoundNext
  <2>2. QED
    BY <1>1, <1>2, <2>1 DEF OrderInv, StoredInSequence, QueueKept
<1>11. QED
  BY <1>5, <1>6, <1>8, <1>9, <1>10 DEF OrderInv

-----------------------------------------------------------------------------
(* Steps of the main thread that do not write what the queue holds.        *)

(***************************************************************************)
(* The walk stays where it is, or a handler runs that is no part of it.    *)
(***************************************************************************)
LEMMA WalkKept ==
  ASSUME StoreInv, StoreGrows, SendersOK, WalkOK, WalkLosesNothing,
         mem'.queue = mem.queue, mem'.senders = mem.senders,
         walk' = walk, pc' = pc, excused \subseteq excused',
         pc \in {"sender", "incoming"} =>
           (Written' <=> Written) /\ (Written => op' = op)
  PROVE  /\ SendersOK' /\ WalkOK' /\ WalkLosesNothing'
         /\ \A j \in Nat : Passed(j) => Passed(j)'
<1>1. /\ \A id, r : ChatIs(id, r) => ChatIs(id, r)'
      /\ \A id, name : MemberIs(id, name) => MemberIs(id, name)'
      /\ \A n : Stored(n) => Stored(n)'
  BY Persist
<1>2. SendersOK'
  BY <1>1 DEF SendersOK
<1>3. WalkOK'
  <2>1. (Walking <=> pc \in {"find", "sender", "incoming"})'
    BY DEF WalkOK, Walking
  <2>2. (/\ Walking => walk.at <= walk.size /\ walk.size <= Len(mem.queue)
         /\ pc = "find" /\ ~walk.moved => walk.room = mem.queue[walk.at].room)'
    BY DEF WalkOK, Walking
  <2>3. (pc = "sender" =>
           /\ walk.key \in Keys /\ mem.senders[walk.key] = None
           /\ ~walk.moved =>
                /\ ChatIs(walk.chat, mem.queue[walk.at].room)
                /\ walk.key[2] = mem.queue[walk.at].from
           /\ Written => MemberIs(op.id, walk.key[2]))'
    BY <1>1 DEF WalkOK
  <2>4. (/\ pc = "incoming" /\ walk.text # None =>
              /\ walk.text = mem.queue[walk.at].text
              /\ ChatIs(walk.chat, mem.queue[walk.at].room)
              /\ MemberIs(walk.sender, mem.queue[walk.at].from)
         /\ pc = "incoming" /\ ~walk.moved => walk.text # None)'
    BY <1>1 DEF WalkOK
  <2>5. QED
    BY <2>1, <2>2, <2>3, <2>4 DEF WalkOK
<1>4. \A i : ToBeWritten(i) => ToBeWritten(i)'
  BY DEF ToBeWritten
<1>5. WalkLosesNothing'
  BY <1>1, <1>4 DEF WalkLosesNothing, Walking
<1>6. \A j \in Nat : Passed(j) => Passed(j)'
  BY DEF Passed, Walking
<1>7. QED
  BY <1>2, <1>3, <1>5, <1>6

\* The main thread is not in flushIncoming.
NotWalking == ~Walking /\ pc \notin {"find", "sender", "incoming"}

(***************************************************************************)
(* Outside flushIncoming there is no walk to go wrong.                     *)
(***************************************************************************)
LEMMA NoWalkKept ==
  ASSUME StoreInv, StoreGrows, SendersOK, mem'.senders = mem.senders,
         NotWalking, NotWalking'
  PROVE  /\ SendersOK' /\ WalkOK' /\ WalkLosesNothing'
         /\ \A j \in Nat : Passed(j) => Passed(j)'
<1>1. \A id, name : MemberIs(id, name) => MemberIs(id, name)'
  BY Persist
<1>2. SendersOK'
  BY <1>1 DEF SendersOK
<1>3. WalkOK'
  BY DEF NotWalking, WalkOK
<1>4. WalkLosesNothing' /\ \A j \in Nat : Passed(j) => Passed(j)'
  BY DEF NotWalking, WalkLosesNothing, Passed
<1>5. QED
  BY <1>2, <1>3, <1>4

(***************************************************************************)
(* The main thread calls or leaves run_and_wait.                           *)
(***************************************************************************)
LEMMA Awaits ==
  ASSUME NEW place, Await(place)
  PROVE  pc' = place /\ OpTypeOK' /\ ~Written'
BY DEF Await, OpTypeOK, Written, Id

(***************************************************************************)
(* The main thread goes on without waiting.                                *)
(***************************************************************************)
LEMMA Goes ==
  ASSUME NEW place, Goto(place)
  PROVE  pc' = place /\ OpTypeOK' /\ ~Written'
BY DEF Goto, NoOp, OpTypeOK, Written, Id

(***************************************************************************)
(* flushIncoming starts with all of the queue before it.                   *)
(***************************************************************************)
LEMMA WalkStarts ==
  ASSUME StoreInv, StoreGrows, SendersOK, NotWalking,
         NEW m \in MemType, m.queue = mem.queue, m.senders = mem.senders,
         FlushIncoming(m)
  PROVE  /\ mem' = m /\ MemTypeOK' /\ OpTypeOK' /\ WalkTypeOK'
         /\ pc' \in {"menu", "find"} /\ ~Written'
         /\ SendersOK' /\ WalkOK' /\ WalkLosesNothing'
         /\ \A j \in Nat : Passed(j) => Passed(j)'
<1>1. mem' = m
  BY DEF FlushIncoming
<1>2. MemTypeOK'
  BY <1>1 DEF MemTypeOK
<1>3. CASE m.queue = <<>>
  <2>1. walk' = NoWalk /\ Goto("menu")
    BY <1>3 DEF FlushIncoming
  <2>2. WalkTypeOK' /\ ~Walking'
    BY <2>1 DEF NoWalk, WalkTypeOK, Id, Walking
  <2>3. pc' = "menu" /\ OpTypeOK' /\ ~Written'
    BY <2>1, Goes
  <2>4. NotWalking'
    BY <2>2, <2>3 DEF NotWalking
  <2>5. QED
    BY <1>1, <1>2, <2>2, <2>3, <2>4, NoWalkKept
<1>4. CASE m.queue # <<>>
  <2>1. /\ walk' = [NoWalk EXCEPT !.at = 1, !.size = Len(m.queue),
                                  !.room = m.queue[1].room]
        /\ Await("find")
    BY <1>4 DEF FlushIncoming
  <2>2. pc' = "find" /\ OpTypeOK' /\ ~Written'
    BY <2>1, Awaits
  <2>3. /\ m.queue \in Seq(Items) /\ Len(m.queue) \in Nat /\ Len(m.queue) >= 1
        /\ m.queue[1] \in Items /\ DOMAIN m.queue = 1..Len(m.queue)
    <3>1. m.queue \in Seq(Items)
      BY DEF MemType
    <3>2. QED
      BY <1>4, <3>1
  <2>4. m.queue[1].room \in Rooms
    BY <2>3 DEF Items
  <2>5. /\ walk'.at = 1 /\ walk'.size = Len(m.queue) /\ walk'.moved = FALSE
        /\ walk'.room = m.queue[1].room
    BY <2>1 DEF NoWalk
  <2>6. WalkTypeOK'
    BY <2>1, <2>3, <2>4 DEF NoWalk, WalkTypeOK, Id
  <2>7. SendersOK'
    <3>1. \A id, name : MemberIs(id, name) => MemberIs(id, name)'
      BY Persist
    <3>2. QED
      BY <1>1, <3>1 DEF SendersOK
  <2>8. WalkOK'
    BY <1>1, <2>2, <2>3, <2>5 DEF WalkOK, Walking
  <2>9. WalkLosesNothing'
    <3>1. \A i \in 1..Len(m.queue) : ToBeWritten(i)'
      BY <2>2, <2>3, <2>5 DEF ToBeWritten
    <3>2. QED
      BY <1>1, <2>3, <3>1 DEF WalkLosesNothing
  <2>10. \A j \in Nat : Passed(j) => Passed(j)'
    BY DEF Passed, NotWalking
  <2>11. QED
    BY <1>1, <1>2, <2>2, <2>6, <2>7, <2>8, <2>9, <2>10
<1>5. QED
  BY <1>3, <1>4

(***************************************************************************)
(* The fields of an event.                                                 *)
(***************************************************************************)
LEMMA EventTypes ==
  ASSUME WorldTypeOK
  PROVE  /\ inbox \in Seq(Events)
         /\ \A j \in DOMAIN inbox :
              /\ inbox[j] \in Events
              /\ inbox[j].room \in Rooms
              /\ inbox[j].messages \in Seq(SeqRows)
              /\ \A i \in DOMAIN inbox[j].messages :
                   /\ inbox[j].messages[i] \in SeqRows
                   /\ inbox[j].messages[i].seq \in Nat
                   /\ inbox[j].messages[i].text \in Nat
                   /\ inbox[j].messages[i].from \in Writers
<1>1. ASSUME NEW S, NEW s \in Seq(S)
      PROVE  \A j \in DOMAIN s : s[j] \in S
  BY <1>1
<1>2. inbox \in Seq(Events)
  BY DEF WorldTypeOK
<1>3. \A j \in DOMAIN inbox : inbox[j] \in Events
  BY <1>1, <1>2
<1>4. \A j \in DOMAIN inbox :
        inbox[j].room \in Rooms /\ inbox[j].messages \in Seq(SeqRows)
  BY <1>3 DEF Events
<1>5. \A j \in DOMAIN inbox : \A i \in DOMAIN inbox[j].messages :
        inbox[j].messages[i] \in SeqRows
  BY <1>1, <1>4
<1>6. QED
  BY <1>2, <1>3, <1>4, <1>5 DEF SeqRows

(***************************************************************************)
(* The network is the same where only the database grows.                  *)
(***************************************************************************)
LEMMA WorldIdle ==
  ASSUME StoreInv, StoreGrows, WorldInv,
         UNCHANGED <<link, rooms, inbox, author, ends, breaks>>
  PROVE  WorldInv' /\ LogsKeep
<1>1. \A r \in Rooms : Saved(r) => Saved(r)'
  BY Persist
<1>2. WorldTypeOK' /\ LogsOK'
  BY DEF WorldInv, WorldTypeOK, LogsOK, Texts, Writer
<1>3. InboxOK' /\ NoGaps'
  BY SMTT(20) DEF WorldInv, InboxOK, FromLog, NoGaps, Seqs
<1>4. \A j \in DOMAIN inbox : inbox[j].room \in Rooms
  BY EventTypes DEF WorldInv
<1>5. SessionsOK'
  BY <1>1, <1>4 DEF WorldInv, SessionsOK
<1>6. LogsKeep
  BY DEF LogsKeep
<1>7. QED
  BY <1>2, <1>3, <1>5, <1>6 DEF WorldInv

(***************************************************************************)
(* There are finitely many members and rooms.                              *)
(***************************************************************************)
LEMMA FewFinite ==
  ASSUME StoreTypeOK, NEW p
  PROVE  /\ IsFiniteSet(MembersOf(p)) /\ Cardinality(MembersOf(p)) \in Nat
         /\ IsFiniteSet(Met(p)) /\ Cardinality(Met(p)) \in Nat
         /\ Cardinality(Met(p)) <= Cardinality(Rooms)
         /\ Cardinality(Rooms) \in Nat
<1>1. Len(store.members) \in Nat /\ DOMAIN store.members = 1..Len(store.members)
  BY StoreTypes
<1>2. IsFiniteSet(DOMAIN store.members)
  BY <1>1, FS_Interval
<1>3. MembersOf(p) \subseteq DOMAIN store.members /\ Met(p) \subseteq Rooms
  BY DEF MembersOf, Met
<1>4. IsFiniteSet(MembersOf(p))
  BY <1>2, <1>3, FS_Subset
<1>5. IsFiniteSet(Met(p)) /\ Cardinality(Met(p)) <= Cardinality(Rooms)
  BY <1>3, ConsoleBounds, FS_Subset
<1>6. QED
  BY <1>4, <1>5, ConsoleBounds, FS_CardinalityType

(***************************************************************************)
(* Who has been met stays met.                                             *)
(***************************************************************************)
LEMMA FewKept ==
  ASSUME FewMembers, StoreTypeOK, ends' = ends, ends \in Nat,
         \A p \in Writers : MembersOf(p)' = MembersOf(p),
         \A p \in Writers : Met(p) \subseteq Met(p)'
  PROVE  FewMembers'
<1>1. SUFFICES ASSUME NEW p \in Writers
               PROVE  Cardinality(MembersOf(p))
                        <= ends * Cardinality(Rooms) + Cardinality(Met(p)')
  BY DEF FewMembers
<1>2. Cardinality(MembersOf(p)) <= ends * Cardinality(Rooms) + Cardinality(Met(p))
  BY DEF FewMembers
<1>3. /\ Cardinality(MembersOf(p)) \in Nat /\ Cardinality(Met(p)) \in Nat
      /\ Cardinality(Rooms) \in Nat
  BY FewFinite
<1>4. Met(p)' \subseteq Rooms /\ Met(p) \subseteq Met(p)'
  BY DEF Met
<1>5. IsFiniteSet(Met(p)')
  BY <1>4, ConsoleBounds, FS_Subset
<1>6. /\ Cardinality(Met(p)') \in Nat
      /\ Cardinality(Met(p)) <= Cardinality(Met(p)')
  BY <1>4, <1>5, FS_Subset, FS_CardinalityType
<1>7. QED
  BY <1>2, <1>3, <1>6

(***************************************************************************)
(* No one is met while no member is added for a sender.                    *)
(***************************************************************************)
LEMMA MetKept ==
  ASSUME mem'.senders = mem.senders,
         pc = "sender" => pc' = pc /\ walk'.key = walk.key /\ (Written => Written')
  PROVE  \A p \in Writers : Met(p) \subseteq Met(p)'
BY DEF Met

-----------------------------------------------------------------------------
(* The handlers of run_and_wait.                                           *)

\* What a handler leaves alone.
Quiet ==
  /\ pc' = pc /\ mem' = mem /\ walk' = walk /\ link' = link
  /\ rooms' = rooms /\ inbox' = inbox
  /\ author' = author /\ excused' = excused
  /\ ends' = ends /\ breaks' = breaks

\* The second handler of a coroutine that is under way.
Writes ==
  /\ op.coroutine = "posted" /\ op'.coroutine = "done" /\ op'.id = nextId
  /\ Operation
  /\ nextId' = IF store' = store THEN nextId ELSE nextId + 1
  /\ Quiet

(***************************************************************************)
(* The member that is added for a sender is the first of its room.         *)
(***************************************************************************)
LEMMA SenderWritten ==
  ASSUME StoreInv, MainInv, WorldInv, SendersOK, WalkOK, FewMembers, Writes,
         pc = "sender"
  PROVE  /\ StoreInv' /\ StoreGrows /\ Incomings' = Incomings
         /\ MemberIs(op.id, walk.key[2])' /\ FewMembers'
<1>1. SUFFICES ASSUME NEW name, name = walk.key[2], NEW id, id = nextId,
                      NEW new, new = Len(store.members) + 1
               PROVE  /\ StoreInv' /\ StoreGrows /\ Incomings' = Incomings
                      /\ MemberIs(id, name)' /\ FewMembers'
  BY DEF Writes, Quiet
<1>2. walk.key \in Keys /\ mem.senders[walk.key] = None
  BY DEF WalkOK
<1>3. name \in Writers \cup {None}
  BY <1>1, <1>2 DEF Keys, Writers
<1>4. store' = AddMember(store, [id |-> nextId, name |-> name])
  BY <1>1 DEF Writes, Operation
<1>5. /\ StoreInv' /\ StoreGrows /\ MemberIs(id, name)'
      /\ store'.chats = store.chats /\ store'.messages = store.messages
      /\ DOMAIN store'.members = DOMAIN store.members \cup {new}
      /\ store'.members[new].name = name
  BY <1>1, <1>3, <1>4, MemberAdded DEF Writes
<1>6. Incomings' = Incomings
  BY <1>5 DEF Incomings
<1>7. FewMembers'
  <2>1. SUFFICES ASSUME NEW p \in Writers
                 PROVE  Cardinality(MembersOf(p)')
                          <= ends * Cardinality(Rooms) + Cardinality(Met(p)')
    BY DEF FewMembers, Writes, Quiet
  <2>2. Cardinality(MembersOf(p)) <= ends * Cardinality(Rooms) + Cardinality(Met(p))
    BY DEF FewMembers
  <2>3. /\ IsFiniteSet(MembersOf(p)) /\ Cardinality(MembersOf(p)) \in Nat
        /\ IsFiniteSet(Met(p)) /\ Cardinality(Met(p)) \in Nat
        /\ Cardinality(Rooms) \in Nat /\ ends \in Nat
    BY FewFinite DEF StoreInv, WorldInv, WorldTypeOK
  <2>4. MembersOf(p)' = MembersOf(p) \cup (IF name = p THEN {new} ELSE {})
    BY <1>5 DEF MembersOf, StoreGrows
  <2>5. CASE name # p
    <3>1. MembersOf(p)' = MembersOf(p)
      BY <2>4, <2>5
    <3>2. Met(p)' = Met(p)
      BY <1>1, <1>2, <2>5 DEF Met, Writes, Quiet, Keys
    <3>3. QED
      BY <2>2, <3>1, <3>2
  <2>6. CASE name = p
    <3>1. PICK r \in Rooms : walk.key = <<r, p>>
      <4>1. p # None
        BY ConsoleBounds DEF Writers
      <4>2. walk.key # <<None, None>>
        <5>1. <<None, None>>[2] = None
          OBVIOUS
        <5>2. QED
          BY <1>1, <2>6, <4>1, <5>1, Zenon
      <4>3. walk.key \in Rooms \X Writers
        BY <1>2, <4>2 DEF Keys, Writers
      <4>4. PICK r \in Rooms, w \in Writers : walk.key = <<r, w>>
        BY <4>3
      <4>5. w = p
        <5>1. <<r, w>>[2] = w
          OBVIOUS
        <5>2. QED
          BY <1>1, <2>6, <4>4, <5>1, Zenon
      <4>6. QED
        BY <4>4, <4>5
    <3>2. r \notin Met(p)
      BY <1>2, <3>1 DEF Met, Writes, Written
    <3>3. Met(p)' = Met(p) \cup {r}
      BY <3>1 DEF Met, Writes, Written, Quiet
    <3>4. Cardinality(Met(p)') = Cardinality(Met(p)) + 1
      BY <2>3, <3>2, <3>3, FS_AddElement
    <3>5. Cardinality(MembersOf(p) \cup {new})
            = IF new \in MembersOf(p) THEN Cardinality(MembersOf(p))
              ELSE Cardinality(MembersOf(p)) + 1
      BY <2>3, FS_AddElement
    <3>6. MembersOf(p)' = MembersOf(p) \cup {new}
      BY <2>4, <2>6
    <3>7. Cardinality(MembersOf(p)') <= Cardinality(MembersOf(p)) + 1
      BY <2>3, <3>5, <3>6
    <3>8. Cardinality(MembersOf(p)') \in Nat
      BY <2>3, <3>5, <3>6
    <3>9. QED
      BY <2>2, <2>3, <3>4, <3>7, <3>8
  <2>7. QED
    BY <2>5, <2>6
<1>8. QED
  BY <1>5, <1>6, <1>7

(***************************************************************************)
(* The message of the walk is stored, in its order.                        *)
(***************************************************************************)
LEMMA IncomingWritten ==
  ASSUME StoreInv, MainInv, WorldInv, WalkInv, OrderInv, Writes, pc = "incoming"
  PROVE  /\ StoreInv' /\ StoreGrows
         /\ store'.members = store.members /\ WalkInv' /\ OrderInv'
<1>1. SUFFICES ASSUME NEW at, at = walk.at, NEW q, q = mem.queue,
                      NEW new, new = Len(store.messages) + 1,
                      NEW row, row = [id |-> nextId, chat |-> walk.chat,
                        sender |-> walk.sender, text |-> walk.text,
                        direction |-> "incoming"]
               PROVE  /\ StoreInv' /\ StoreGrows
                      /\ store'.members = store.members /\ WalkInv' /\ OrderInv'
  OBVIOUS
<1>2. /\ row \in MessageRows /\ row.id = nextId
      /\ row.direction = "incoming" /\ row.text = walk.text
      /\ row.chat = walk.chat /\ row.sender = walk.sender
  BY <1>1, StoreTypes DEF MessageRows, MainInv, WalkTypeOK, StoreInv
<1>3. store' = AddMessage(store, row)
  BY <1>1 DEF Writes, Operation
<1>4. /\ StoreInv' /\ StoreGrows
      /\ store'.chats = store.chats /\ store'.members = store.members
      /\ IF HasBoth(store, row.chat, row.sender) THEN LastMessage(row)
         ELSE Incomings' = Incomings
  BY <1>1, <1>2, <1>3, MessageAdded DEF Writes
<1>5. /\ Walking /\ at \in DOMAIN q /\ at \in Nat /\ walk.size \in Nat
      /\ q[at].text \in Nat /\ q[at].room \in Rooms
      /\ \A j \in DOMAIN q : q[j].text \in Nat
  <2>1. /\ Walking /\ at > 0 /\ at <= walk.size /\ walk.size <= Len(q)
        /\ at \in Nat /\ walk.size \in Nat
    BY <1>1 DEF WalkInv, WalkOK, Walking, MainInv, WalkTypeOK
  <2>2. Len(q) \in Nat /\ DOMAIN q = 1..Len(q)
    BY <1>1, MemTypes DEF MainInv
  <2>3. at \in DOMAIN q
    BY <2>1, <2>2
  <2>4. QED
    BY <1>1, <2>1, <2>3, MemTypes DEF MainInv
<1>6. LogsKeep
  BY DEF LogsKeep, Writes, Quiet
<1>7. /\ \A j \in Nat : Passed(j) => Passed(j)'
      /\ \A j \in DOMAIN q : Passed(j) => Passed(j)'
  BY DEF Passed, Walking, Writes, Quiet, Written
<1>8. \A i : i # at /\ ToBeWritten(i) => ToBeWritten(i)'
  BY <1>1 DEF ToBeWritten, Writes, Quiet
<1>9. /\ \A r \in Rooms : Saved(r) => Saved(r)'
      /\ \A id, r : ChatIs(id, r) => ChatIs(id, r)'
      /\ \A id, name : MemberIs(id, name) => MemberIs(id, name)'
      /\ \A n : Stored(n) => Stored(n)'
  BY <1>4, Persist
<1>10. SendersOK' /\ WalkOK'
  <2>1. SendersOK'
    BY <1>9 DEF WalkInv, SendersOK, Writes, Quiet
  <2>2. WalkOK'
    BY <1>9 DEF WalkInv, WalkOK, Walking, Writes, Quiet
  <2>3. QED
    BY <2>1, <2>2
<1>11. CASE walk.text = None
  <2>1. Incomings' = Incomings
    BY <1>2, <1>4, <1>11 DEF Incomings, StoreGrows, LastMessage
  <2>2. QueueKept
    BY <1>4, <1>6, <1>7, <2>1 DEF QueueKept, Writes, Quiet
  <2>3. QueueOK' /\ NothingSlips' /\ OrderInv'
    BY <2>2, KeptQueue DEF WalkInv, MainInv
  <2>4. ~ToBeWritten(at)
    BY <1>1, <1>5, <1>11, ConsoleBounds DEF ToBeWritten, WalkInv, WalkOK
  <2>5. WalkLosesNothing'
    BY <1>8, <1>9, <2>4 DEF WalkInv, WalkLosesNothing, Walking, Writes, Quiet
  <2>6. QED
    BY <1>4, <1>10, <2>3, <2>5 DEF WalkInv
<1>12. CASE walk.text # None
  <2>1. /\ walk.text = q[at].text
        /\ ChatIs(walk.chat, q[at].room)' /\ MemberIs(walk.sender, q[at].from)'
    <3>1. /\ walk.text = q[at].text
          /\ ChatIs(walk.chat, q[at].room) /\ MemberIs(walk.sender, q[at].from)
      BY <1>1, <1>12 DEF WalkInv, WalkOK
    <3>2. QED
      BY <1>9, <3>1 DEF Writes, Quiet
  <2>1a. /\ DOMAIN store'.messages = DOMAIN store.messages \cup {new}
         /\ new \notin DOMAIN store.messages
         /\ store'.messages[new] = row
    <3>1. ChatIs(walk.chat, q[at].room) /\ MemberIs(walk.sender, q[at].from)
      BY <1>1, <1>12 DEF WalkInv, WalkOK
    <3>2. HasBoth(store, row.chat, row.sender)
      BY <1>2, <3>1 DEF HasBoth, ChatIs, MemberIs
    <3>3. QED
      BY <1>1, <1>4, <3>2 DEF LastMessage
  <2>2. Incomings' = Incomings \cup {new}
    BY <1>2, <1>4, <1>12, <2>1a DEF Incomings, StoreGrows
  <2>3. /\ store'.messages[new].text = q[at].text
        /\ store'.messages[new].chat = walk.chat
        /\ store'.messages[new].sender = walk.sender
        /\ \A i \in Incomings : store'.messages[i] = store.messages[i]
    BY <1>2, <1>4, <2>1, <2>1a DEF StoreGrows, Incomings
  <2>4. WalkLosesNothing'
    <3>1. \A i \in DOMAIN q :
            q[i].text \in excused \/ Stored(q[i].text) \/ ToBeWritten(i)
      BY <1>1, <1>5 DEF WalkInv, WalkLosesNothing
    <3>2. Stored(q[at].text)'
      BY <2>2, <2>3 DEF Stored
    <3>3. SUFFICES ASSUME NEW i \in DOMAIN q
                   PROVE  q[i].text \in excused \/ Stored(q[i].text)' \/ ToBeWritten(i)'
      BY <1>1 DEF WalkLosesNothing, Writes, Quiet
    <3>4. CASE i = at
      BY <3>2, <3>4
    <3>5. CASE i # at
      BY <1>8, <1>9, <3>1, <3>5
    <3>6. QED
      BY <3>4, <3>5
  <2>5. QueueOK'
    BY <1>6, <1>9, MemTypes, WritersKept DEF WalkInv, QueueOK, MainInv, Writes, Quiet
  <2>6. NothingSlips'
    BY <2>2, <2>3 DEF WalkInv, NothingSlips, Writes, Quiet
  <2>7. breaks = 0 =>
          /\ Acked(q[at].room, q[at].text)
          /\ \A j \in DOMAIN q :
               at < j /\ q[j].room = q[at].room => q[at].text < q[j].text
    BY <1>1, <1>5 DEF OrderInv, QueueInOrder
  <2>8. \A i \in Incomings : \E r \in Rooms :
          /\ ChatIs(store'.messages[i].chat, r)
          /\ store'.messages[i].text \in Texts
          /\ MemberIs(store'.messages[i].sender, Writer(store'.messages[i].text))
          /\ breaks = 0 =>
               /\ Acked(r, store'.messages[i].text)
               /\ \A j \in DOMAIN q : q[j].room = r /\ ~Passed(j) =>
                    store'.messages[i].text < q[j].text
    BY <1>1, <2>3 DEF OrderInv, StoredOK
  <2>9. StoredOK'
    <3>1. SUFFICES ASSUME NEW i \in Incomings', NEW c, c = store'.messages[i].chat,
                          NEW s, s = store'.messages[i].sender,
                          NEW n, n = store'.messages[i].text
                   PROVE  \E r \in Rooms :
                            /\ ChatIs(c, r)' /\ n \in Texts /\ MemberIs(s, Writer(n))'
                            /\ breaks = 0 =>
                                 /\ Acked(r, n)
                                 /\ \A j \in DOMAIN q : q[j].room = r /\ ~Passed(j)' =>
                                      n < q[j].text
      BY <1>1 DEF StoredOK, Writes, Quiet, Texts, Writer, Acked
    <3>2. CASE i \in Incomings
      <4>1. PICK r \in Rooms :
              /\ ChatIs(c, r) /\ n \in Texts /\ MemberIs(s, Writer(n))
              /\ breaks = 0 =>
                   /\ Acked(r, n)
                   /\ \A j \in DOMAIN q : q[j].room = r /\ ~Passed(j) => n < q[j].text
        BY <2>8, <3>1, <3>2
      <4>2. QED
        BY <1>7, <1>9, <4>1 DEF Writer, Writes, Quiet
    <3>3. CASE i = new
      <4>1. n = q[at].text /\ ChatIs(c, q[at].room)'
        BY <2>1, <2>3, <3>1, <3>3 DEF Writes, Quiet
      <4>2. n \in Texts /\ q[at].from = Writer(n)
        BY <1>1, <1>5, <4>1 DEF WalkInv, QueueOK
      <4>3. MemberIs(s, Writer(n))'
        BY <2>1, <2>3, <3>1, <3>3, <4>2 DEF Writes, Quiet, Writer
      <4>4. \A j \in DOMAIN q : ~Passed(j)' => at < j
        BY <1>1, <1>5, MemTypes DEF Passed, Writes, Quiet, Written, Walking, MainInv
      <4>5. QED
        BY <1>5, <2>7, <4>1, <4>2, <4>3, <4>4
    <3>4. QED
      BY <2>2, <3>2, <3>3
  <2>10. QueueInOrder'
    BY DEF OrderInv, QueueInOrder, Acked, Writes, Quiet
  <2>11. StoredInSequence'
    <3>1. \A i \in Incomings : \E r \in Rooms :
            /\ RoomOf(i) = r /\ RoomOf(i)' = r
            /\ breaks = 0 => \A j \in DOMAIN q : q[j].room = r /\ ~Passed(j) =>
                               store'.messages[i].text < q[j].text
      <4>1. SUFFICES ASSUME NEW i \in Incomings
                     PROVE  \E r \in Rooms :
                       /\ RoomOf(i) = r /\ RoomOf(i)' = r
                       /\ breaks = 0 =>
                            \A j \in DOMAIN q : q[j].room = r /\ ~Passed(j) =>
                               store'.messages[i].text < q[j].text
        OBVIOUS
      <4>2. PICK r \in Rooms :
              /\ ChatIs(store'.messages[i].chat, r)
              /\ breaks = 0 =>
                   \A j \in DOMAIN q : q[j].room = r /\ ~Passed(j) =>
                     store'.messages[i].text < q[j].text
        BY <2>8
      <4>3. RoomOf(i) = r
        BY <2>3, <4>2, RoomFound
      <4>4. ChatIs(store.messages[i].chat, r)'
        BY <1>9, <4>2
      <4>5. RoomOf(i)' = r
        BY <4>4, RoomFoundNext
      <4>6. QED
        BY <4>2, <4>3, <4>5
    <3>2. RoomOf(new)' = q[at].room
      <4>1. ChatIs(store.messages[new].chat, q[at].room)'
        BY <2>1, <2>3 DEF Writes, Quiet
      <4>2. QED
        BY <4>1, RoomFoundNext
    <3>3. ~Passed(at) /\ new \notin Incomings
      BY <1>1, <1>4, <1>5, <2>1a DEF Passed, Writes, Written, Incomings
    <3>4. \A i \in Incomings : i < new
      BY <1>1, StoreTypes DEF Incomings, StoreInv
    <3>5. ASSUME breaks = 0, NEW i \in Incomings', NEW j \in Incomings',
                 i < j, RoomOf(i)' = RoomOf(j)'
          PROVE  store'.messages[i].text < store'.messages[j].text
      <4>1. CASE j \in Incomings
        <5>1. i \in Incomings
          BY <1>1, <2>2, <3>4, <3>5, <4>1, StoreTypes DEF Incomings, StoreInv
        <5>2. RoomOf(i) = RoomOf(j)
          BY <3>1, <3>5, <4>1, <5>1
        <5>3. QED
          BY <2>3, <3>5, <4>1, <5>1, <5>2 DEF OrderInv, StoredInSequence
      <4>2. CASE j = new
        <5>1. i \in Incomings
          BY <1>1, <2>2, <3>5, <4>2, StoreTypes DEF StoreInv
        <5>2. QED
          BY <1>5, <2>3, <3>1, <3>2, <3>3, <3>5, <4>2, <5>1
      <4>3. QED
        BY <2>2, <4>1, <4>2
    <3>6. QED
      BY <3>5 DEF StoredInSequence, Writes, Quiet
  <2>12. QED
    BY <1>4, <1>10, <2>4, <2>5, <2>6, <2>9, <2>10, <2>11 DEF WalkInv, OrderInv
<1>13. QED
  BY <1>11, <1>12

(***************************************************************************)
(* One handler of a coroutine.                                             *)
(***************************************************************************)
LEMMA HandlerStep ==
  ASSUME ConsoleInv, NEW main \in {"none", "run_one", "loop"}, Handler(main),
         UNCHANGED quietVars
  PROVE  ConsoleInv'
<1>1. /\ StoreInv /\ WorldInv /\ MainInv /\ WalkInv /\ OrderInv /\ FewMembers
      /\ MemTypeOK /\ OpTypeOK /\ StoreTypeOK /\ ends \in Nat
  BY DEF ConsoleInv, MainInv, StoreInv, WorldInv, WorldTypeOK
<1>2. Quiet
  BY DEF Quiet, quietVars, worldVars, boundVars
<1>3. mem' = mem /\ walk' = walk /\ pc' = pc /\ ends' = ends /\ excused' = excused
  BY <1>2 DEF Quiet
<1>4. MemTypeOK' /\ WalkTypeOK'
  BY <1>2 DEF Quiet, ConsoleInv, MainInv, MemTypeOK, WalkTypeOK
<1>5. ASSUME StoreInv', StoreGrows, Incomings' = Incomings,
             Written => Written',
             pc \in {"sender", "incoming"} =>
               (Written' <=> Written) /\ (Written => op' = op)
      PROVE  WorldInv' /\ WalkInv' /\ OrderInv'
  <2>1. WorldInv' /\ LogsKeep
    BY <1>1, <1>2, <1>5, WorldIdle DEF Quiet
  <2>2. /\ SendersOK' /\ WalkOK' /\ WalkLosesNothing'
        /\ \A j \in Nat : Passed(j) => Passed(j)'
    BY <1>1, <1>3, <1>5, WalkKept DEF WalkInv
  <2>3. QueueKept
    BY <1>2, <1>5, <2>1, <2>2 DEF QueueKept, Quiet
  <2>4. QueueOK' /\ NothingSlips' /\ OrderInv'
    BY <1>1, <2>3, KeptQueue DEF WalkInv
  <2>5. QED
    BY <2>1, <2>2, <2>4 DEF WalkInv
<1>6. CASE /\ op.coroutine = "spawned"
           /\ op' = [op EXCEPT !.coroutine = "posted", !.main = main]
           /\ UNCHANGED <<store, nextId>>
  <2>1. StoreInv' /\ StoreGrows /\ Incomings' = Incomings
    BY <1>1, <1>6, SameStore
  <2>2. OpTypeOK' /\ ~Written /\ ~Written'
    BY <1>1, <1>6 DEF OpTypeOK, Written
  <2>3. WorldInv' /\ WalkInv' /\ OrderInv'
    BY <1>5, <2>1, <2>2
  <2>4. JoinedOK'
    BY <1>1, <1>2, <1>6, <2>2
    DEF MainInv, JoinedOK, Quiet, Saved, ChatsOf, GetAllChats
  <2>5. FewMembers'
    BY <1>1, <1>3, <1>6, <2>2, FewKept, MetKept DEF MembersOf
  <2>6. QED
    BY <1>4, <2>1, <2>2, <2>3, <2>4, <2>5 DEF ConsoleInv, MainInv
<1>7. CASE /\ op.coroutine = "posted" /\ Operation
           /\ nextId' = IF store' = store THEN nextId ELSE nextId + 1
           /\ op' = [op EXCEPT !.coroutine = "done", !.main = main, !.id = nextId]
  <2>1. op'.coroutine = "done" /\ op'.id = nextId /\ OpTypeOK' /\ ~Written /\ Written'
    BY <1>1, <1>7, StoreTypes DEF OpTypeOK, Written, Id
  <2>2. Writes
    BY <1>2, <1>7, <2>1 DEF Writes
  <2>3. ASSUME StoreInv', StoreGrows, pc = "chat" => Saved(mem.room)'
        PROVE  JoinedOK'
    <3>1. \A r \in Rooms : Saved(r) => Saved(r)'
      BY <1>1, <2>3, Persist
    <3>2. QED
      BY <1>1, <1>2, <2>3, <3>1, MemTypes DEF MainInv, JoinedOK, Quiet
  <2>4. ASSUME pc # "sender", store'.members = store.members
        PROVE  FewMembers'
    BY <1>1, <1>3, <2>4, FewKept, MetKept DEF MembersOf
  <2>5. CASE pc = "sender"
    <3>1. /\ StoreInv' /\ StoreGrows /\ Incomings' = Incomings
          /\ MemberIs(op.id, walk.key[2])' /\ FewMembers'
      BY <1>1, <2>2, <2>5, SenderWritten DEF WalkInv
    <3>2. WorldInv' /\ LogsKeep
      BY <1>1, <1>2, <3>1, WorldIdle DEF Quiet
    <3>3. /\ \A id, r : ChatIs(id, r) => ChatIs(id, r)'
          /\ \A id, name : MemberIs(id, name) => MemberIs(id, name)'
          /\ \A n : Stored(n) => Stored(n)'
      BY <1>1, <3>1, Persist
    <3>4. SendersOK' /\ WalkOK'
      BY <1>1, <1>2, <2>5, <3>1, <3>3
      DEF WalkInv, SendersOK, WalkOK, Walking, Quiet
    <3>5. WalkLosesNothing'
      BY <1>1, <1>2, <2>5, <3>3
      DEF WalkInv, WalkLosesNothing, ToBeWritten, Walking, Quiet
    <3>6. \A j \in Nat : Passed(j) => Passed(j)'
      BY <1>2, <2>5 DEF Passed, Walking, Quiet
    <3>7. QueueKept
      BY <1>2, <3>1, <3>2, <3>6 DEF QueueKept, Quiet
    <3>8. QueueOK' /\ NothingSlips' /\ OrderInv'
      BY <1>1, <3>7, KeptQueue DEF WalkInv
    <3>9. JoinedOK'
      BY <2>3, <2>5, <3>1
    <3>10. QED
      BY <1>4, <2>1, <3>1, <3>2, <3>4, <3>5, <3>8, <3>9
      DEF ConsoleInv, MainInv, WalkInv
  <2>6. CASE pc = "incoming"
    <3>1. /\ StoreInv' /\ StoreGrows
          /\ store'.members = store.members /\ WalkInv' /\ OrderInv'
      BY <1>1, <2>2, <2>6, IncomingWritten
    <3>2. WorldInv'
      BY <1>1, <1>2, <3>1, WorldIdle DEF Quiet
    <3>3. JoinedOK' /\ FewMembers'
      BY <2>3, <2>4, <2>6, <3>1
    <3>4. QED
      BY <1>4, <2>1, <3>1, <3>2, <3>3 DEF ConsoleInv, MainInv
  <2>7. ASSUME pc \notin {"sender", "incoming"}, StoreInv', StoreGrows,
               Incomings' = Incomings, FewMembers', pc = "chat" => Saved(mem.room)'
        PROVE  ConsoleInv'
    <3>1. WorldInv' /\ WalkInv' /\ OrderInv'
      BY <1>5, <2>1, <2>7
    <3>2. JoinedOK'
      BY <2>3, <2>7
    <3>3. QED
      BY <1>4, <2>1, <2>7, <3>1, <3>2 DEF ConsoleInv, MainInv
  <2>8. CASE pc = "chat"
    <3>1. PICK r \in Rooms : r = mem.room
      BY <1>1, <2>8 DEF MainInv, JoinedOK
    <3>2. store' = AddChat(store, [id |-> nextId, room |-> r])
      BY <1>7, <2>8, <3>1 DEF Operation
    <3>3. /\ StoreInv' /\ StoreGrows /\ Saved(r)'
          /\ store'.members = store.members /\ store'.messages = store.messages
      BY <1>1, <1>7, <3>2, ChatAdded
    <3>4. Saved(mem.room)' /\ Incomings' = Incomings
      BY <1>2, <3>1, <3>3 DEF Incomings, Quiet
    <3>5. FewMembers'
      BY <2>4, <2>8, <3>3
    <3>6. QED
      BY <2>7, <2>8, <3>3, <3>4, <3>5
  <2>9. CASE pc \in {"rejoin self", "join self", "send self"}
    <3>1. store' = AddMember(store, [id |-> nextId, name |-> Me])
      BY <1>7, <2>9 DEF Operation
    <3>2. /\ StoreInv' /\ StoreGrows
          /\ store'.chats = store.chats /\ store'.messages = store.messages
          /\ DOMAIN store'.members
               = DOMAIN store.members \cup {Len(store.members) + 1}
          /\ store'.members[Len(store.members) + 1].name = Me
      <4>1. PICK id : id = nextId
        OBVIOUS
      <4>2. QED
        BY <1>1, <1>7, <3>1, <4>1, MemberAdded
    <3>3. \A p \in Writers : p # Me
      BY ConsoleBounds DEF Writers, Me, MyPeer
    <3>4. \A p \in Writers : MembersOf(p)' = MembersOf(p)
      BY <3>2, <3>3 DEF MembersOf, StoreGrows
    <3>5. FewMembers'
      BY <1>1, <1>3, <2>9, <3>4, FewKept, MetKept
    <3>6. Incomings' = Incomings
      BY <3>2 DEF Incomings
    <3>7. QED
      BY <2>7, <2>9, <3>2, <3>5, <3>6
  <2>10. CASE pc = "outgoing"
    <3>1. PICK row : row = [id |-> nextId, chat |-> mem.chat,
                            sender |-> mem.self[mem.room], text |-> mem.text,
                            direction |-> "outgoing"]
      OBVIOUS
    <3>2. mem.room \in Rooms
      BY <1>1, <2>10 DEF MainInv, JoinedOK
    <3>3. row \in MessageRows /\ row.id = nextId /\ row.direction = "outgoing"
      BY <1>1, <3>1, <3>2, MemTypes, StoreTypes DEF MessageRows
    <3>4. store' = AddMessage(store, row)
      BY <1>7, <2>10, <3>1 DEF Operation
    <3>5. /\ StoreInv' /\ StoreGrows
          /\ store'.chats = store.chats /\ store'.members = store.members
          /\ IF HasBoth(store, row.chat, row.sender) THEN LastMessage(row)
             ELSE Incomings' = Incomings
      BY <1>1, <1>7, <3>3, <3>4, MessageAdded
    <3>6. Incomings' = Incomings
      BY <3>3, <3>5 DEF Incomings, StoreGrows, LastMessage
    <3>7. FewMembers'
      BY <2>4, <2>10, <3>5
    <3>8. QED
      BY <2>7, <2>10, <3>5, <3>6, <3>7
  <2>11. CASE pc \notin {"sender", "incoming", "chat", "rejoin self", "join self",
                         "send self", "outgoing"}
    <3>1. UNCHANGED <<store, nextId>>
      BY <1>7, <2>11 DEF Operation
    <3>2. StoreInv' /\ StoreGrows /\ Incomings' = Incomings
      BY <1>1, <3>1, SameStore
    <3>3. FewMembers'
      BY <2>4, <2>11, <3>1
    <3>4. QED
      BY <2>7, <2>11, <3>2, <3>3
  <2>12. QED
    BY <2>5, <2>6, <2>8, <2>9, <2>10, <2>11
<1>8. QED
  BY <1>6, <1>7 DEF Handler

-----------------------------------------------------------------------------
(* The steps of the main thread: each keeps the invariant if it keeps the  *)
(* parts that it changes.                                                  *)

\* The database, the queue, the bounds and the history stay the same.
MainFrame ==
  /\ store' = store /\ nextId' = nextId
  /\ mem'.queue = mem.queue
  /\ excused' = excused /\ ends' = ends /\ breaks' = breaks

\* The walk and main()'s state are right after the step.
MainNext ==
  /\ MemTypeOK' /\ OpTypeOK' /\ WalkTypeOK' /\ JoinedOK'
  /\ SendersOK' /\ WalkOK' /\ WalkLosesNothing'
  /\ \A j \in Nat : Passed(j) => Passed(j)'
  /\ \A p \in Writers : Met(p) \subseteq Met(p)'

(***************************************************************************)
(* A step of the main thread that keeps what it changes right, and does not *)
(* disturb the server, keeps the whole invariant.                          *)
(***************************************************************************)
LEMMA MainKeeps ==
  ASSUME ConsoleInv, MainFrame, MainNext, WorldInv', LogsKeep
  PROVE  ConsoleInv'
<1>1. StoreInv' /\ StoreGrows /\ Incomings' = Incomings
  BY SameStore DEF ConsoleInv, MainFrame
<1>2. QueueKept
  BY <1>1 DEF QueueKept, MainFrame, MainNext
<1>3. QueueOK' /\ NothingSlips' /\ OrderInv'
  BY <1>2, KeptQueue DEF ConsoleInv, MainInv, WalkInv
<1>4. FewMembers'
  <2>1. \A p \in Writers : MembersOf(p)' = MembersOf(p)
    BY DEF MainFrame, MembersOf
  <2>2. QED
    BY <2>1, FewKept
    DEF ConsoleInv, MainFrame, MainNext, StoreInv, WorldInv, WorldTypeOK
<1>5. QED
  BY <1>1, <1>3, <1>4 DEF ConsoleInv, MainNext, MainInv, WalkInv

(***************************************************************************)
(* The rooms in the database are the same where it is.                     *)
(***************************************************************************)
LEMMA SameSaved ==
  ASSUME store' = store
  PROVE  /\ \A r : Saved(r)' <=> Saved(r)
         /\ \A id, r : ChatIs(id, r)' <=> ChatIs(id, r)
         /\ \A id, name : MemberIs(id, name)' <=> MemberIs(id, name)
BY DEF Saved, ChatsOf, GetAllChats, ChatIs, HasChat, MemberIs, HasMember

(***************************************************************************)
(* Every set of numbers with one in it has a least one.                    *)
(***************************************************************************)
LEMMA NatLess == IsWellFoundedOn({x \in Nat \X Nat : x[1] < x[2]}, Nat)
BY NatLessThanWellFounded DEF OpToRel

(***************************************************************************)
(* The least number of a set of numbers is one of them.                    *)
(***************************************************************************)
LEMMA MinOf ==
  ASSUME NEW S, S \subseteq Nat, S # {}
  PROVE  Min(S) \in S
<1>1. \E x \in S : \A y \in S : ~(<<y, x>> \in {z \in Nat \X Nat : z[1] < z[2]})
  <2>1. PICK e : e \in S
    OBVIOUS
  <2>2. QED
    BY <2>1, NatLess, WFMin, Zenon
<1>2. PICK x \in S : \A y \in S : ~(<<y, x>> \in {z \in Nat \X Nat : z[1] < z[2]})
  BY <1>1
<1>3. \A y \in S : ~(y < x)
  BY <1>2
<1>4. \E z \in S : \A y \in S : z <= y
  BY <1>3
<1>5. QED
  BY <1>4 DEF Min

(***************************************************************************)
(* The greatest number of a set.                                           *)
(***************************************************************************)
LEMMA MaxOf ==
  ASSUME NEW S, S \subseteq Nat, NEW m \in S, \A y \in S : y <= m
  PROVE  Max(S) = m
<1>1. \E x \in S : \A y \in S : x >= y
  OBVIOUS
<1>2. Max(S) \in S /\ \A y \in S : Max(S) >= y
  BY <1>1 DEF Max
<1>3. m \in Nat /\ Max(S) \in Nat /\ Max(S) <= m /\ Max(S) >= m
  BY <1>2
<1>4. QED
  BY <1>3

(***************************************************************************)
(* What the walk is at.                                                    *)
(***************************************************************************)
LEMMA WalkTypes ==
  ASSUME WalkTypeOK, MemTypeOK, WalkOK, Walking
  PROVE  /\ walk.at \in Nat /\ walk.size \in Nat /\ walk.moved \in BOOLEAN
         /\ walk.room \in Rooms \cup {None} /\ walk.key \in Keys \cup {None}
         /\ walk.chat \in Id /\ walk.sender \in Id /\ walk.text \in Id
         /\ walk.at \in DOMAIN mem.queue
         /\ walk.at > 0 /\ walk.at <= walk.size /\ walk.size <= Len(mem.queue)
         /\ Len(mem.queue) \in Nat /\ DOMAIN mem.queue = 1..Len(mem.queue)
<1>1. /\ walk.at \in Nat /\ walk.size \in Nat /\ walk.moved \in BOOLEAN
      /\ walk.room \in Rooms \cup {None} /\ walk.key \in Keys \cup {None}
      /\ walk.chat \in Id /\ walk.sender \in Id /\ walk.text \in Id
  BY DEF WalkTypeOK
<1>2. walk.at > 0 /\ walk.at <= walk.size /\ walk.size <= Len(mem.queue)
  BY DEF WalkOK, Walking
<1>3. Len(mem.queue) \in Nat /\ DOMAIN mem.queue = 1..Len(mem.queue)
  BY MemTypes
<1>4. QED
  BY <1>1, <1>2, <1>3

(***************************************************************************)
(* The walk goes on when it is done with an element: to the next, or to the *)
(* end, where it clears what it has written or lost.                       *)
(***************************************************************************)
LEMMA NextItemKeeps ==
  ASSUME ConsoleInv, Walking, ~ToBeWritten(walk.at), pc # "sender",
         NextItem(mem), LogsKeep, WorldInv',
         store' = store, nextId' = nextId, excused' = excused,
         ends' = ends, breaks' = breaks
  PROVE  ConsoleInv'
<1>1. /\ StoreInv /\ WorldInv /\ MainInv /\ WalkInv /\ OrderInv /\ FewMembers
      /\ MemTypeOK /\ OpTypeOK /\ WalkTypeOK /\ StoreTypeOK /\ WalkOK
  BY DEF ConsoleInv, MainInv, StoreInv, WalkInv
<1>2. /\ \A r : Saved(r)' <=> Saved(r)
      /\ \A id, name : MemberIs(id, name)' <=> MemberIs(id, name)
  BY SameSaved
<1>3. /\ walk.at \in Nat /\ walk.size \in Nat /\ walk.moved \in BOOLEAN
      /\ walk.at \in DOMAIN mem.queue
      /\ walk.at > 0 /\ walk.at <= walk.size /\ walk.size <= Len(mem.queue)
      /\ Len(mem.queue) \in Nat /\ DOMAIN mem.queue = 1..Len(mem.queue)
  BY <1>1, WalkTypes
<1>4. StoreInv' /\ StoreGrows /\ Incomings' = Incomings
  BY <1>1, SameStore
<1>5. CASE walk.at = walk.size
  <2>1. /\ mem' = [mem EXCEPT !.queue = <<>>] /\ walk' = NoWalk /\ Goto("menu")
    BY <1>5 DEF NextItem
  <2>2. pc' = "menu" /\ OpTypeOK' /\ ~Written'
    BY <2>1, Goes
  <2>3. WalkTypeOK' /\ ~Walking' /\ NotWalking'
    BY <2>1, <2>2 DEF NoWalk, WalkTypeOK, Id, Walking, NotWalking
  <2>4. /\ MemTypeOK' /\ mem'.senders = mem.senders /\ mem'.queue = <<>>
        /\ mem'.joined = mem.joined /\ mem'.todo = mem.todo
    <3>1. <<>> \in Seq(Items)
      OBVIOUS
    <3>2. QED
      BY <1>1, <2>1, <3>1 DEF MemTypeOK, MemType
  <2>5. DOMAIN mem'.queue = {}
    <3>1. DOMAIN <<>> = {}
      OBVIOUS
    <3>2. QED
      BY <2>4, <3>1
  <2>6. JoinedOK'
    BY <1>1, <1>2, <2>2, <2>4 DEF MainInv, JoinedOK
  <2>7. SendersOK' /\ WalkOK' /\ WalkLosesNothing'
    <3>1. SendersOK'
      BY <1>1, <1>2, <2>4 DEF SendersOK, WalkInv
    <3>2. WalkOK' /\ WalkLosesNothing'
      BY <2>3 DEF WalkOK, WalkLosesNothing, NotWalking
    <3>3. QED
      BY <3>1, <3>2
  <2>8. QueueOK' /\ QueueInOrder'
    BY <2>5 DEF QueueOK, QueueInOrder
  <2>9. \A i \in DOMAIN mem.queue :
          mem.queue[i].text \in excused \/ Stored(mem.queue[i].text)
    <3>1. \A i \in DOMAIN mem.queue : ~ToBeWritten(i)
      BY <1>5, <1>3 DEF ToBeWritten
    <3>2. QED
      BY <1>1, <3>1 DEF WalkInv, WalkLosesNothing
  <2>10. NothingSlips'
    <3>1. SUFFICES ASSUME NEW r \in Rooms, NEW i \in 1..rooms'[r].cursor
                   PROVE  LET n == rooms'[r].log[i].text
                          IN  n \in excused \/ Stored(n)
      BY <1>4 DEF NothingSlips, Stored
    <3>2. i \in 1..rooms[r].cursor
      BY DEF LogsKeep
    <3>3. rooms'[r].log[i] = rooms[r].log[i]
      BY <1>1, <3>2, RoomTypes DEF WorldInv, LogsOK, LogsKeep
    <3>4. \/ rooms[r].log[i].text \in excused
          \/ \E j \in DOMAIN mem.queue : mem.queue[j].text = rooms[r].log[i].text
          \/ Stored(rooms[r].log[i].text)
      BY <1>1, <3>2 DEF WalkInv, NothingSlips, Stored
    <3>5. QED
      BY <2>9, <3>3, <3>4
  <2>11. StoredOK'
    <3>1. \A n \in Texts : n \in Texts' /\ Writer(n)' = Writer(n)
      BY WritersKept
    <3>2. \A r \in Rooms : \A n : Acked(r, n) => Acked(r, n)'
      BY <1>1, AckedKept
    <3>3. \A id, r : ChatIs(id, r)' <=> ChatIs(id, r)
      BY SameSaved
    <3>4. SUFFICES ASSUME NEW i \in Incomings, NEW c, c = store.messages[i].chat,
                          NEW s, s = store.messages[i].sender,
                          NEW n, n = store.messages[i].text
                   PROVE  \E r \in Rooms :
                            /\ ChatIs(c, r)' /\ n \in Texts' /\ MemberIs(s, Writer(n))'
                            /\ breaks = 0 => Acked(r, n)'
      BY <1>4, <2>5 DEF StoredOK
    <3>5. QED
      BY <1>1, <1>2, <3>1, <3>2, <3>3, <3>4 DEF OrderInv, StoredOK
  <2>12. StoredInSequence'
    BY <1>1, <1>4 DEF OrderInv, StoredInSequence, RoomOf
  <2>13. FewMembers'
    <3>1. \A p \in Writers : MembersOf(p)' = MembersOf(p)
      BY DEF MembersOf
    <3>2. QED
      BY <1>1, <2>4, <3>1, MetKept, FewKept DEF WorldInv, WorldTypeOK
  <2>14. QED
    BY <1>4, <2>2, <2>3, <2>4, <2>6, <2>7, <2>8, <2>10, <2>11, <2>12, <2>13
    DEF ConsoleInv, MainInv, WalkInv, OrderInv
<1>6. CASE walk.at # walk.size
  <2>1. PICK next : next = IF walk.moved THEN Nothing ELSE mem.queue[walk.at + 1]
    OBVIOUS
  <2>2. /\ mem' = mem
        /\ walk' = [NoWalk EXCEPT !.at = walk.at + 1, !.size = walk.size,
                         !.moved = walk.moved, !.room = next.room]
        /\ Await("find")
    BY <1>6, <2>1 DEF NextItem
  <2>3. pc' = "find" /\ OpTypeOK' /\ ~Written'
    BY <2>2, Awaits
  <2>4. next.room \in Rooms \cup {None}
    <3>1. walk.at + 1 \in DOMAIN mem.queue
      BY <1>3, <1>6
    <3>2. QED
      BY <1>1, <2>1, <3>1, MemTypes DEF Nothing
  <2>5. /\ walk'.at = walk.at + 1 /\ walk'.size = walk.size
        /\ walk'.moved = walk.moved /\ walk'.room = next.room
    BY <2>2 DEF NoWalk
  <2>6. MemTypeOK' /\ WalkTypeOK'
    <3>1. walk' = [at |-> walk.at + 1, size |-> walk.size, moved |-> walk.moved,
                   room |-> next.room, key |-> None, chat |-> None,
                   sender |-> None, text |-> None]
      BY <2>2 DEF NoWalk
    <3>2. walk.at + 1 \in Nat /\ None \in Id /\ None \in Keys \cup {None}
      BY <1>3 DEF Id
    <3>3. WalkTypeOK'
      BY <1>3, <2>4, <3>1, <3>2 DEF WalkTypeOK
    <3>4. QED
      BY <1>1, <2>2, <3>3 DEF MemTypeOK
  <2>7. JoinedOK'
    BY <1>1, <1>2, <2>2, <2>3 DEF MainInv, JoinedOK
  <2>8. SendersOK'
    BY <1>1, <1>2, <2>2 DEF SendersOK, WalkInv
  <2>9. WalkOK'
    BY <1>3, <1>6, <2>1, <2>2, <2>3, <2>5 DEF WalkOK, Walking
  <2>10. \A i \in DOMAIN mem.queue : ToBeWritten(i) => ToBeWritten(i)'
    BY <1>3, <2>2, <2>3, <2>5 DEF ToBeWritten
  <2>11. WalkLosesNothing'
    BY <1>1, <1>4, <2>2, <2>10 DEF WalkInv, WalkLosesNothing, Stored
  <2>12. \A j \in Nat : Passed(j) => Passed(j)'
    BY <1>3, <2>3, <2>5 DEF Passed, Walking
  <2>13. \A p \in Writers : Met(p) \subseteq Met(p)'
    BY <2>2, MetKept
  <2>14. MainFrame /\ MainNext
    BY <2>2, <2>3, <2>6, <2>7, <2>8, <2>9, <2>11, <2>12, <2>13
    DEF MainFrame, MainNext
  <2>15. QED
    BY <2>14, MainKeeps
<1>7. QED
  BY <1>5, <1>6

(***************************************************************************)
(* The chat of the element the walk is at has been found.                  *)
(***************************************************************************)
LEMMA FoundChatKeeps ==
  ASSUME ConsoleInv, FoundChat, WorldInv', LogsKeep,
         store' = store, nextId' = nextId, excused' = excused,
         ends' = ends, breaks' = breaks
  PROVE  ConsoleInv'
<1>1. /\ StoreInv /\ WorldInv /\ MainInv /\ WalkInv /\ OrderInv /\ FewMembers
      /\ MemTypeOK /\ OpTypeOK /\ WalkTypeOK /\ StoreTypeOK /\ WalkOK
  BY DEF ConsoleInv, MainInv, StoreInv, WalkInv
<1>2. pc = "find" /\ Walking
  BY <1>1 DEF FoundChat, Returned, WalkOK
<1>3. /\ walk.at \in Nat /\ walk.size \in Nat /\ walk.moved \in BOOLEAN
      /\ walk.at \in DOMAIN mem.queue
  BY <1>1, <1>2, WalkTypes
<1>4. CASE ChatsOf(walk.room) = {}
  <2>1. walk.moved
    BY <1>1, <1>2, <1>3, <1>4 DEF WalkInv, WalkOK, QueueOK, Saved
  <2>2. ~ToBeWritten(walk.at)
    BY <1>2, <1>3, <2>1 DEF ToBeWritten
  <2>3. NextItem(mem)
    BY <1>4 DEF FoundChat
  <2>4. QED
    BY <1>2, <2>2, <2>3, NextItemKeeps
<1>5. CASE ChatsOf(walk.room) # {}
  <2>1. PICK key, first :
          key = <<Item.room, Item.from>> /\ first = Min(ChatsOf(walk.room))
    OBVIOUS
  <2>2. /\ mem' = mem
        /\ walk' = [walk EXCEPT !.chat = store.chats[first].id, !.key = key,
                                !.sender = mem.senders[key], !.text = Item.text]
        /\ Await(IF mem.senders[key] = None THEN "sender" ELSE "incoming")
    BY <1>5, <2>1 DEF FoundChat
  <2>3. first \in DOMAIN store.chats /\ store.chats[first].room = walk.room
    <3>1. DOMAIN store.chats \subseteq Nat
      BY <1>1, StoreTypes
    <3>2. ChatsOf(walk.room) \subseteq Nat
      BY <3>1 DEF ChatsOf, GetAllChats
    <3>3. first \in ChatsOf(walk.room)
      BY <1>5, <2>1, <3>2, MinOf
    <3>4. QED
      BY <3>3 DEF ChatsOf, GetAllChats
  <2>4. ChatIs(store.chats[first].id, walk.room)
    BY <1>1, <2>3 DEF ChatIs, HasChat, Has, StoreInv, IdsFresh
  <2>5. /\ walk.moved => key = <<None, None>> /\ Item.text = None
        /\ ~walk.moved =>
             /\ key = <<mem.queue[walk.at].room, mem.queue[walk.at].from>>
             /\ Item.text = mem.queue[walk.at].text
    BY <2>1 DEF Item, Nothing
  <2>6. key \in Keys /\ Item.text \in Id /\ mem.senders[key] \in Id
    <3>1. /\ mem.queue[walk.at].room \in Rooms /\ mem.queue[walk.at].from \in Writers
          /\ mem.queue[walk.at].text \in Nat /\ mem.senders \in [Keys -> Id]
      BY <1>1, <1>3, MemTypes
    <3>2. key \in Keys
      BY <2>5, <3>1 DEF Keys, Writers
    <3>3. QED
      BY <2>5, <3>1, <3>2 DEF Id
  <2>7. PICK place : place = IF mem.senders[key] = None THEN "sender" ELSE "incoming"
    OBVIOUS
  <2>8. pc' = place /\ OpTypeOK' /\ ~Written'
    BY <2>2, <2>7, Awaits
  <2>9. /\ walk'.at = walk.at /\ walk'.size = walk.size /\ walk'.moved = walk.moved
        /\ walk'.chat = store.chats[first].id /\ walk'.key = key
        /\ walk'.sender = mem.senders[key] /\ walk'.text = Item.text
        /\ WalkTypeOK'
    <3>1. store.chats[first].id \in Nat
      BY <1>1, <2>3, RowTypes
    <3>2. QED
      BY <1>1, <2>2, <2>6, <3>1 DEF WalkTypeOK, Id
  <2>10. MemTypeOK' /\ JoinedOK' /\ SendersOK'
    <3>1. pc' \in {"sender", "incoming"}
      BY <2>7, <2>8
    <3>2. \A r : Saved(r)' <=> Saved(r)
      BY SameSaved
    <3>3. \A id, name : MemberIs(id, name)' <=> MemberIs(id, name)
      BY SameSaved
    <3>4. MemTypeOK'
      BY <1>1, <2>2 DEF MemTypeOK
    <3>5. JoinedOK'
      BY <1>1, <2>2, <3>1, <3>2 DEF MainInv, JoinedOK
    <3>6. SendersOK'
      BY <1>1, <2>2, <3>3 DEF WalkInv, SendersOK
    <3>7. QED
      BY <3>4, <3>5, <3>6
  <2>11. ~walk.moved =>
           /\ walk.room = mem.queue[walk.at].room
           /\ key[2] = mem.queue[walk.at].from
           /\ Item.text # None
    <3>1. ASSUME ~walk.moved
          PROVE  key[2] = mem.queue[walk.at].from
      <4>1. PICK q : q = mem.queue[walk.at]
        OBVIOUS
      <4>2. key = <<q.room, q.from>>
        BY <2>5, <3>1, <4>1
      <4>3. <<q.room, q.from>>[2] = q.from
        OBVIOUS
      <4>4. QED
        BY <4>1, <4>2, <4>3, Zenon
    <3>2. ~walk.moved => Item.text # None
      BY <1>1, <1>3, <2>5, MemTypes, ConsoleBounds
    <3>3. QED
      BY <1>1, <1>2, <3>1, <3>2 DEF WalkOK
  <2>12. mem.senders[key] # None => MemberIs(mem.senders[key], key[2])
    BY <1>1, <2>6 DEF WalkInv, SendersOK
  <2>13. WalkOK'
    <3>1. /\ \A id, r : ChatIs(id, r)' <=> ChatIs(id, r)
          /\ \A id, name : MemberIs(id, name)' <=> MemberIs(id, name)
      BY SameSaved
    <3>2. (Walking <=> pc \in {"find", "sender", "incoming"})'
      BY <1>2, <2>7, <2>8, <2>9 DEF Walking
    <3>3. (Walking => walk.at <= walk.size /\ walk.size <= Len(mem.queue))'
      BY <1>1, <1>2, <2>2, <2>9 DEF WalkOK, Walking
    <3>4. (pc = "sender" =>
             /\ walk.key \in Keys /\ mem.senders[walk.key] = None
             /\ ~walk.moved =>
                  /\ ChatIs(walk.chat, mem.queue[walk.at].room)
                  /\ walk.key[2] = mem.queue[walk.at].from)'
      BY <2>2, <2>4, <2>6, <2>7, <2>8, <2>9, <2>11, <3>1
    <3>5. (/\ pc = "incoming" /\ walk.text # None =>
                /\ walk.text = mem.queue[walk.at].text
                /\ ChatIs(walk.chat, mem.queue[walk.at].room)
                /\ MemberIs(walk.sender, mem.queue[walk.at].from)
           /\ pc = "incoming" /\ ~walk.moved => walk.text # None)'
      BY <2>2, <2>4, <2>5, <2>7, <2>8, <2>9, <2>11, <2>12, <3>1
    <3>6. pc' # "find"
      BY <2>7, <2>8
    <3>7. QED
      BY <2>8, <3>2, <3>3, <3>4, <3>5, <3>6 DEF WalkOK
  <2>14. \A i : ToBeWritten(i) => ToBeWritten(i)'
    BY <1>2, <2>8, <2>9 DEF ToBeWritten
  <2>15. WalkLosesNothing'
    BY <1>1, <1>2, <2>2, <2>14
    DEF WalkInv, WalkLosesNothing, Stored, Incomings
  <2>16. \A j \in Nat : Passed(j) => Passed(j)'
    BY <1>2, <2>8, <2>9 DEF Passed, Walking
  <2>17. \A p \in Writers : Met(p) \subseteq Met(p)'
    BY <1>2, <2>2, MetKept
  <2>18. MainFrame /\ MainNext
    BY <2>2, <2>8, <2>9, <2>10, <2>13, <2>15, <2>16, <2>17
    DEF MainFrame, MainNext
  <2>19. QED
    BY <2>18, MainKeeps
<1>6. QED
  BY <1>4, <1>5

(***************************************************************************)
(* The sender has been added, and is remembered.                           *)
(***************************************************************************)
LEMMA AddedSenderKeeps ==
  ASSUME ConsoleInv, AddedSender, WorldInv', LogsKeep,
         store' = store, nextId' = nextId, excused' = excused,
         ends' = ends, breaks' = breaks
  PROVE  ConsoleInv'
<1>1. /\ StoreInv /\ WorldInv /\ MainInv /\ WalkInv /\ OrderInv /\ FewMembers
      /\ MemTypeOK /\ OpTypeOK /\ WalkTypeOK /\ StoreTypeOK /\ WalkOK
  BY DEF ConsoleInv, MainInv, StoreInv, WalkInv
<1>2. pc = "sender" /\ Walking /\ Written
  BY <1>1 DEF AddedSender, Returned, WalkOK, Written
<1>3. /\ walk.at \in Nat /\ walk.size \in Nat /\ walk.moved \in BOOLEAN
      /\ walk.at \in DOMAIN mem.queue
  BY <1>1, <1>2, WalkTypes
<1>4. PICK key, id : key = walk.key /\ id = op.id
  OBVIOUS
<1>5. /\ mem' = [mem EXCEPT !.senders[key] = id]
      /\ walk' = [walk EXCEPT !.sender = id, !.text = Item.text]
      /\ Await("incoming")
  BY <1>4 DEF AddedSender
<1>6. key \in Keys /\ MemberIs(id, key[2])
  BY <1>1, <1>2, <1>4 DEF WalkOK
<1>7. id \in Nat /\ id # None
  <2>1. PICK i \in DOMAIN store.members : store.members[i].id = id
    BY <1>6 DEF MemberIs, HasMember, Has
  <2>2. QED
    BY <1>1, <2>1, RowTypes, ConsoleBounds
<1>8. /\ MemTypeOK' /\ mem'.queue = mem.queue /\ mem'.joined = mem.joined
      /\ mem'.todo = mem.todo /\ mem'.senders = [mem.senders EXCEPT ![key] = id]
      /\ mem'.senders[key] = id
      /\ \A k \in Keys : k # key => mem'.senders[k] = mem.senders[k]
  <2>1. mem.senders \in [Keys -> Id]
    BY <1>1, MemTypes
  <2>2. [mem.senders EXCEPT ![key] = id] \in [Keys -> Id]
    BY <1>6, <1>7, <2>1 DEF Id
  <2>3. mem' = [mem EXCEPT !.senders = [mem.senders EXCEPT ![key] = id]]
    BY <1>1, <1>5 DEF MemTypeOK, MemType
  <2>4. MemTypeOK'
    BY <1>1, <2>2, <2>3 DEF MemTypeOK, MemType
  <2>5. /\ mem'.queue = mem.queue /\ mem'.joined = mem.joined
        /\ mem'.todo = mem.todo /\ mem'.senders = [mem.senders EXCEPT ![key] = id]
    BY <1>1, <2>3 DEF MemTypeOK, MemType
  <2>6. QED
    BY <1>6, <2>1, <2>4, <2>5
<1>9. pc' = "incoming" /\ OpTypeOK' /\ ~Written'
  BY <1>5, Awaits
<1>10. Item.text = IF walk.moved THEN None ELSE mem.queue[walk.at].text
  BY DEF Item, Nothing
<1>11. /\ walk'.at = walk.at /\ walk'.size = walk.size /\ walk'.moved = walk.moved
       /\ walk'.chat = walk.chat /\ walk'.sender = id /\ walk'.text = Item.text
       /\ WalkTypeOK'
  <2>1. Item.text \in Id
    BY <1>1, <1>3, <1>10, MemTypes DEF Id
  <2>2. QED
    BY <1>1, <1>5, <1>7, <2>1 DEF WalkTypeOK, Id
<1>12. /\ \A r : Saved(r)' <=> Saved(r)
       /\ \A c, r : ChatIs(c, r)' <=> ChatIs(c, r)
       /\ \A m, name : MemberIs(m, name)' <=> MemberIs(m, name)
  BY SameSaved
<1>13. JoinedOK'
  BY <1>1, <1>8, <1>9, <1>12 DEF MainInv, JoinedOK
<1>14. SendersOK'
  BY <1>1, <1>6, <1>8, <1>12 DEF WalkInv, SendersOK
<1>15. WalkOK'
  <2>1. walk.moved \/ (/\ ChatIs(walk.chat, mem.queue[walk.at].room)
                       /\ key[2] = mem.queue[walk.at].from
                       /\ mem.queue[walk.at].text # None)
    <3>1. mem.queue[walk.at].text # None
      BY <1>1, <1>3, MemTypes, ConsoleBounds
    <3>2. QED
      BY <1>1, <1>2, <1>4, <3>1 DEF WalkOK
  <2>2. (Walking => walk.at <= walk.size /\ walk.size <= Len(mem.queue))'
    BY <1>1, <1>2, <1>8, <1>11 DEF WalkOK, Walking
  <2>3. (Walking <=> pc \in {"find", "sender", "incoming"})'
    BY <1>2, <1>9, <1>11 DEF Walking
  <2>4. (/\ pc = "incoming" /\ walk.text # None =>
              /\ walk.text = mem.queue[walk.at].text
              /\ ChatIs(walk.chat, mem.queue[walk.at].room)
              /\ MemberIs(walk.sender, mem.queue[walk.at].from)
         /\ pc = "incoming" /\ ~walk.moved => walk.text # None)'
    BY <1>6, <1>8, <1>10, <1>11, <1>12, <2>1
  <2>5. QED
    BY <1>9, <2>2, <2>3, <2>4 DEF WalkOK
<1>16. \A i : ToBeWritten(i) => ToBeWritten(i)'
  BY <1>2, <1>9, <1>11 DEF ToBeWritten
<1>17. WalkLosesNothing'
  BY <1>1, <1>2, <1>8, <1>16
  DEF WalkInv, WalkLosesNothing, Stored, Incomings
<1>18. \A j \in Nat : Passed(j) => Passed(j)'
  BY <1>2, <1>9, <1>11 DEF Passed, Walking
<1>19. \A p \in Writers : Met(p) \subseteq Met(p)'
  <2>1. ASSUME NEW p \in Writers, NEW r \in Rooms, r \in Met(p)
        PROVE  mem'.senders[<<r, p>>] # None
    <3>1. <<r, p>> \in Keys
      BY DEF Keys, Writers
    <3>2. mem.senders[<<r, p>>] # None \/ <<r, p>> = key
      BY <1>4, <2>1 DEF Met
    <3>3. CASE <<r, p>> = key
      BY <1>7, <1>8, <3>3
    <3>4. CASE <<r, p>> # key
      BY <1>8, <3>1, <3>2, <3>4
    <3>5. QED
      BY <3>3, <3>4
  <2>2. QED
    BY <2>1 DEF Met
<1>20. MainFrame /\ MainNext
  BY <1>8, <1>9, <1>11, <1>13, <1>14, <1>15, <1>17, <1>18, <1>19
  DEF MainFrame, MainNext
<1>21. QED
  BY <1>20, MainKeeps

(***************************************************************************)
(* A step of flushIncoming.                                                *)
(***************************************************************************)
LEMMA FlushKeeps ==
  ASSUME ConsoleInv, Flush
  PROVE  ConsoleInv'
<1>1. /\ store' = store /\ nextId' = nextId /\ excused' = excused
      /\ ends' = ends /\ breaks' = breaks
      /\ UNCHANGED <<link, rooms, inbox, author, ends, breaks>>
  BY DEF Flush, worldVars, boundVars
<1>2. WorldInv' /\ LogsKeep
  <2>1. StoreGrows
    BY <1>1, SameStore DEF ConsoleInv
  <2>2. QED
    BY <1>1, <2>1, WorldIdle DEF ConsoleInv
<1>3. CASE FoundChat
  BY <1>1, <1>2, <1>3, FoundChatKeeps
<1>4. CASE AddedSender
  BY <1>1, <1>2, <1>4, AddedSenderKeeps
<1>5. CASE AddedIncoming
  <2>1. pc = "incoming" /\ Written /\ NextItem(mem)
    BY <1>5 DEF AddedIncoming, Returned, Written
  <2>2. Walking /\ ~ToBeWritten(walk.at)
    BY <2>1 DEF ConsoleInv, WalkInv, WalkOK, ToBeWritten, MainInv, WalkTypeOK
  <2>3. QED
    BY <1>1, <1>2, <2>1, <2>2, NextItemKeeps
<1>6. QED
  BY <1>3, <1>4, <1>5 DEF Flush

-----------------------------------------------------------------------------
(* The server.                                                             *)

(***************************************************************************)
(* All in any order: a sequence of a set's elements without a repetition   *)
(* that is as long as the set has each of them.                            *)
(***************************************************************************)
LEMMA AllInOrder ==
  ASSUME NEW S, IsFiniteSet(S), NEW order \in SetToSeqs(S)
  PROVE  /\ order \in Seq(S)
         /\ \A i, j \in DOMAIN order : i # j => order[i] # order[j]
         /\ \A x \in S : \E i \in DOMAIN order : order[i] = x
<1>1. Cardinality(S) \in Nat
  BY FS_CardinalityType
<1>2. PICK n \in Nat : n = Cardinality(S)
  BY <1>1
<1>3. /\ order \in [1..n -> S]
      /\ \A i, j \in 1..n : i # j => order[i] # order[j]
  BY <1>2 DEF SetToSeqs
<1>4. order \in Injection(1..n, S)
  BY <1>3 DEF Injection, IsInjective
<1>5. Cardinality(1..n) = n
  BY FS_Interval
<1>6. order \in Surjection(1..n, S)
  BY <1>2, <1>4, <1>5, FS_Injection
<1>7. \A x \in S : \E i \in 1..n : order[i] = x
  BY <1>6 DEF Surjection
<1>8. order \in Seq(S) /\ DOMAIN order = 1..n
  BY <1>3
<1>9. QED
  BY <1>3, <1>7, <1>8

(***************************************************************************)
(* One sequence after another.                                             *)
(***************************************************************************)
LEMMA OneAfterAnother ==
  ASSUME NEW S, NEW s \in Seq(S), NEW t \in Seq(S)
  PROVE  /\ s \o t \in Seq(S)
         /\ \A i \in DOMAIN s : i \in DOMAIN (s \o t) /\ (s \o t)[i] = s[i]
         /\ \A i \in DOMAIN t :
              Len(s) + i \in DOMAIN (s \o t) /\ (s \o t)[Len(s) + i] = t[i]
         /\ \A j \in DOMAIN (s \o t) :
              \/ j \in DOMAIN s
              \/ \E i \in DOMAIN t : j = Len(s) + i
         /\ DOMAIN (s \o t) \subseteq Nat
         /\ DOMAIN s = 1..Len(s) /\ Len(s) \in Nat /\ DOMAIN t \subseteq Nat \ {0}
<1>1. /\ s \o t \in Seq(S) /\ Len(s \o t) = Len(s) + Len(t)
      /\ Len(s) \in Nat /\ Len(t) \in Nat /\ DOMAIN s = 1..Len(s)
      /\ DOMAIN t = 1..Len(t) /\ DOMAIN (s \o t) = 1..(Len(s) + Len(t))
  OBVIOUS
<1>2. \A i \in DOMAIN s : (s \o t)[i] = s[i]
  BY <1>1
<1>3. \A i \in DOMAIN t : (s \o t)[Len(s) + i] = t[i]
  BY <1>1
<1>4. ASSUME NEW j \in DOMAIN (s \o t)
      PROVE  j \in DOMAIN s \/ \E i \in DOMAIN t : j = Len(s) + i
  <2>1. j \notin DOMAIN s => j - Len(s) \in DOMAIN t /\ j = Len(s) + (j - Len(s))
    BY <1>1
  <2>2. QED
    BY <2>1
<1>5. QED
  BY <1>1, <1>2, <1>3, <1>4

\* u is what room r has for its client: all that is not acknowledged, in order.
IsUnacked(u, r) ==
  /\ u \in Seq(SeqRows)
  /\ DOMAIN u = 1..(Len(rooms[r].log) - rooms[r].cursor)
  /\ \A i \in DOMAIN u :
       /\ u[i].seq = rooms[r].cursor + i /\ u[i].seq \in DOMAIN rooms[r].log
       /\ u[i].from = rooms[r].log[rooms[r].cursor + i].from
       /\ u[i].text = rooms[r].log[rooms[r].cursor + i].text
  /\ u # <<>> <=> rooms[r].cursor < Len(rooms[r].log)

(***************************************************************************)
(* What the server sends on a join is the part of the log from the cursor  *)
(* on.                                                                     *)
(***************************************************************************)
LEMMA UnackedIs ==
  ASSUME WorldTypeOK, LogsOK, NEW r \in Rooms, NEW u, u = Unacked(rooms[r])
  PROVE  IsUnacked(u, r)
<1>1. PICK log, n, c : log = rooms[r].log /\ n = Len(log) /\ c = rooms[r].cursor
  OBVIOUS
<1>2. /\ log \in Seq(LogRows) /\ c \in Nat /\ n \in Nat /\ DOMAIN log = 1..n
      /\ c <= n /\ n = Len(log)
  BY <1>1, RoomTypes DEF LogsOK
<1>3. n - c \in Nat
  BY <1>2
<1>4. u = [i \in 1..(n - c) |-> [from |-> log[c + i].from, text |-> log[c + i].text,
                                 seq |-> c + i]]
  BY <1>1 DEF Unacked, Entry
<1>5. \A i \in 1..(n - c) : c + i \in 1..n
  BY <1>2
<1>6. \A i \in 1..n : log[i] \in LogRows
  BY <1>2
<1>7. \A i \in 1..(n - c) : u[i] \in SeqRows
  BY <1>2, <1>4, <1>5, <1>6 DEF SeqRows, LogRows
<1>8. u \in [1..(n - c) -> SeqRows]
  BY <1>4, <1>7
<1>9. u \in Seq(SeqRows) /\ Len(u) = n - c /\ DOMAIN u = 1..(n - c)
  BY <1>3, <1>8
<1>10. u # <<>> <=> c < n
  BY <1>2, <1>9
<1>11. \A i \in 1..(n - c) :
         /\ u[i].seq = c + i /\ u[i].seq \in 1..n
         /\ u[i].from = log[c + i].from /\ u[i].text = log[c + i].text
  BY <1>4, <1>5
<1>12. QED
  BY <1>1, <1>2, <1>9, <1>10, <1>11 DEF IsUnacked

(***************************************************************************)
(* An event stays a part of its room's log.                                *)
(***************************************************************************)
LEMMA FromLogKept ==
  ASSUME LogsKeep, NEW e, e.room \in Rooms, FromLog(e)
  PROVE  FromLog(e)'
BY DEF LogsKeep, FromLog

(***************************************************************************)
(* The joins are answered with what is not acknowledged, each room's once. *)
(***************************************************************************)
LEMMA JoinsServed ==
  ASSUME StoreInv, WorldInv, NEW asked, asked \subseteq Rooms,
         \A r \in asked : Saved(r), ServeJoins(asked),
         link \in {"connecting", "up"}, link' = "up",
         store' = store, author' = author, ends' = ends, breaks' = breaks
  PROVE  WorldInv' /\ LogsKeep
<1>1. PICK let, owing, n :
        /\ let = {r \in asked : rooms[r].session = "none"}
        /\ owing = {r \in let : Unacked(rooms[r]) # <<>>}
        /\ n = Len(inbox)
  OBVIOUS
<1>2. /\ rooms' = [r \in Rooms |->
                     IF r \in let THEN [rooms[r] EXCEPT !.session = "now"]
                     ELSE rooms[r]]
      /\ \E order \in SetToSeqs(owing) :
           inbox' = inbox \o
             [i \in DOMAIN order |-> [room |-> order[i],
                                     messages |-> Unacked(rooms[order[i]])]]
  BY <1>1 DEF ServeJoins
<1>3. PICK order \in SetToSeqs(owing) :
        inbox' = inbox \o
          [i \in DOMAIN order |-> [room |-> order[i],
                                  messages |-> Unacked(rooms[order[i]])]]
  BY <1>2
<1>4. PICK E : E = [i \in DOMAIN order |-> [room |-> order[i],
                                           messages |-> Unacked(rooms[order[i]])]]
  OBVIOUS
<1>5. owing \subseteq Rooms /\ let \subseteq Rooms /\ owing \subseteq let
  BY <1>1
<1>6. /\ order \in Seq(owing)
      /\ \A i, j \in DOMAIN order : i # j => order[i] # order[j]
      /\ \A r \in owing : \E i \in DOMAIN order : order[i] = r
  BY <1>5, ConsoleBounds, FS_Subset, AllInOrder
<1>7. WorldTypeOK /\ LogsOK /\ InboxOK /\ NoGaps /\ SessionsOK
  BY DEF WorldInv
<1>8. \A r \in Rooms :
        /\ rooms[r].log \in Seq(LogRows) /\ rooms[r].cursor \in Nat
        /\ rooms[r].session \in {"none", "now", "old"}
        /\ Len(rooms[r].log) \in Nat
        /\ DOMAIN rooms[r].log = 1..Len(rooms[r].log)
        /\ rooms[r].cursor <= Len(rooms[r].log)
  BY <1>7, RoomTypes DEF LogsOK
<1>9. \A r \in Rooms :
        /\ rooms'[r].log = rooms[r].log /\ rooms'[r].cursor = rooms[r].cursor
        /\ rooms'[r].session = IF r \in let THEN "now" ELSE rooms[r].session
  BY <1>2, <1>7 DEF WorldTypeOK
<1>10. LogsKeep
  BY <1>9 DEF LogsKeep
<1>11. \A r \in Rooms : Saved(r)' <=> Saved(r)
  BY SameSaved
<1>12. \A i \in DOMAIN order : order[i] \in owing
  BY <1>6
<1>13. DOMAIN E = DOMAIN order /\ \A i \in DOMAIN E :
         /\ E[i].room = order[i] /\ E[i].room \in owing /\ E[i].room \in Rooms
         /\ E[i].messages = Unacked(rooms[order[i]])
  BY <1>4, <1>5, <1>12
<1>14. \A i \in DOMAIN E :
         IsUnacked(E[i].messages, E[i].room) /\ E[i].messages # <<>>
  <2>1. SUFFICES ASSUME NEW i \in DOMAIN E
                 PROVE  IsUnacked(E[i].messages, E[i].room) /\ E[i].messages # <<>>
    OBVIOUS
  <2>2. PICK r, u : r \in Rooms /\ r = E[i].room /\ u = Unacked(rooms[r])
    BY <1>13
  <2>3. E[i].messages = u /\ u # <<>>
    BY <1>1, <1>13, <2>2
  <2>4. IsUnacked(u, r)
    BY <1>7, <2>2, UnackedIs
  <2>5. QED
    BY <2>2, <2>3, <2>4
<1>15. E \in Seq(Events)
  <2>1. \A i \in DOMAIN order : E[i] \in Events
    BY <1>4, <1>5, <1>12, <1>13, <1>14 DEF Events, IsUnacked
  <2>2. DOMAIN order = 1..Len(order) /\ Len(order) \in Nat
    BY <1>6
  <2>3. E \in [1..Len(order) -> Events]
    BY <1>4, <2>1, <2>2
  <2>4. QED
    BY <2>2, <2>3
<1>16. inbox \in Seq(Events) /\ \A j \in DOMAIN inbox : inbox[j].room \in Rooms
  BY <1>7, EventTypes
<1>17. inbox' = inbox \o E
  BY <1>3, <1>4
<1>18. /\ inbox' \in Seq(Events)
       /\ \A i \in DOMAIN inbox : i \in DOMAIN inbox' /\ inbox'[i] = inbox[i]
       /\ \A i \in DOMAIN E : n + i \in DOMAIN inbox' /\ inbox'[n + i] = E[i]
       /\ \A j \in DOMAIN inbox' : \/ j \in DOMAIN inbox
                                   \/ \E i \in DOMAIN E : j = n + i
       /\ DOMAIN inbox' \subseteq Nat /\ DOMAIN inbox = 1..n /\ n \in Nat
       /\ DOMAIN E \subseteq Nat \ {0}
  BY <1>1, <1>15, <1>16, <1>17, OneAfterAnother
<1>19. \A j \in DOMAIN inbox :
         /\ inbox[j].room \notin let /\ rooms[inbox[j].room].session = "now"
         /\ rooms'[inbox[j].room] = rooms[inbox[j].room]
  <2>1. DOMAIN inbox # {} => link = "up"
    <3>1. DOMAIN <<>> = {}
      OBVIOUS
    <3>2. QED
      BY <1>7, <3>1 DEF SessionsOK
  <2>2. QED
    BY <1>1, <1>2, <1>7, <1>16, <2>1 DEF SessionsOK
<1>20. WorldTypeOK'
  <2>1. \A r \in Rooms : rooms'[r] \in
          [log : Seq(LogRows), session : {"none", "now", "old"}, cursor : Nat]
    BY <1>2, <1>7 DEF WorldTypeOK
  <2>2. rooms' \in [Rooms ->
          [log : Seq(LogRows), session : {"none", "now", "old"}, cursor : Nat]]
    BY <1>2, <2>1
  <2>3. QED
    BY <1>7, <1>18, <2>2 DEF WorldTypeOK
<1>21. LogsOK'
  BY <1>7, <1>9 DEF LogsOK, Texts, Writer
<1>22. InboxOK'
  <2>1. \A j \in DOMAIN inbox : FromLog(inbox[j])'
    BY <1>7, <1>10, <1>16, <1>18, FromLogKept DEF InboxOK
  <2>2. ASSUME NEW i \in DOMAIN E
        PROVE  FromLog(inbox[n + i])'
    <3>1. PICK e : e = E[i]
      OBVIOUS
    <3>2. e.room \in Rooms /\ inbox'[n + i] = e
      BY <1>13, <1>18, <2>2, <3>1
    <3>3. PICK r, c : r = e.room /\ r \in Rooms /\ c = rooms[r].cursor /\ c \in Nat
                      /\ rooms'[r].log = rooms[r].log
      BY <1>8, <1>9, <3>2
    <3>4. e.messages # <<>> /\ DOMAIN e.messages \subseteq Int
      BY <1>14, <3>1 DEF IsUnacked
    <3>5. \A k \in DOMAIN e.messages :
            /\ e.messages[k].seq = c + k /\ e.messages[k].seq \in DOMAIN rooms[r].log
            /\ e.messages[k].from = rooms[r].log[c + k].from
            /\ e.messages[k].text = rooms[r].log[c + k].text
      BY <1>14, <3>1, <3>3 DEF IsUnacked
    <3>6. \A k, h \in DOMAIN e.messages :
            k < h => e.messages[k].seq < e.messages[h].seq
      BY <3>3, <3>4, <3>5
    <3>7. FromLog(e)'
      BY <3>3, <3>4, <3>5, <3>6 DEF FromLog
    <3>8. QED
      BY <3>2, <3>7 DEF FromLog
  <2>3. QED
    BY <1>18, <2>1, <2>2 DEF InboxOK
<1>23. /\ \A j \in DOMAIN inbox : Seqs(j)' = Seqs(j)
       /\ \A i \in DOMAIN E :
            Seqs(n + i)' = (rooms[E[i].room].cursor + 1)..Len(rooms[E[i].room].log)
  <2>1. \A j \in DOMAIN inbox : Seqs(j)' = Seqs(j)
    BY <1>18 DEF Seqs
  <2>2. ASSUME NEW i \in DOMAIN E
        PROVE  Seqs(n + i)' = (rooms[E[i].room].cursor + 1)..Len(rooms[E[i].room].log)
    <3>1. PICK r, c, l : /\ r = E[i].room /\ r \in Rooms
                         /\ c = rooms[r].cursor /\ l = Len(rooms[r].log)
                         /\ c \in Nat /\ l \in Nat
      BY <1>8, <1>13
    <3>2. PICK u : u = E[i].messages
      OBVIOUS
    <3>3. Seqs(n + i)' = {u[k].seq : k \in DOMAIN u}
      BY <1>18, <3>2 DEF Seqs
    <3>4. DOMAIN u = 1..(l - c) /\ \A k \in DOMAIN u : u[k].seq = c + k
      BY <1>14, <3>1, <3>2 DEF IsUnacked
    <3>5. /\ \A k \in DOMAIN u : u[k].seq \in (c + 1)..l
          /\ \A x \in (c + 1)..l : \E k \in DOMAIN u : u[k].seq = x
      <4>1. \A k \in 1..(l - c) : c + k \in (c + 1)..l
        BY SMTT(20), <3>1
      <4>2. \A x \in (c + 1)..l : x - c \in 1..(l - c) /\ c + (x - c) = x
        BY <3>1
      <4>3. QED
        BY <3>4, <4>1, <4>2
    <3>6. QED
      BY <3>1, <3>3, <3>5
  <2>3. QED
    BY <2>1, <2>2
<1>24. NoGaps'
  <2>1. ASSUME NEW r \in Rooms, rooms'[r].session = "now",
               NEW k \in (rooms[r].cursor + 1)..Len(rooms[r].log)
        PROVE  \E j \in DOMAIN inbox' : inbox'[j].room = r /\ k \in Seqs(j)'
    <3>1. CASE r \in let
      <4>1. rooms[r].cursor < Len(rooms[r].log)
        BY <1>8, <2>1
      <4>2. r \in owing
        <5>1. PICK u : u = Unacked(rooms[r])
          OBVIOUS
        <5>2. u # <<>>
          BY <1>7, <4>1, <5>1, UnackedIs DEF IsUnacked
        <5>3. QED
          BY <1>1, <3>1, <5>1, <5>2
      <4>3. PICK i \in DOMAIN E : E[i].room = r
        BY <1>6, <1>13, <4>2
      <4>4. n + i \in DOMAIN inbox' /\ inbox'[n + i].room = r /\ k \in Seqs(n + i)'
        BY <1>18, <1>23, <2>1, <4>3
      <4>5. QED
        BY <4>4
    <3>2. CASE r \notin let
      <4>1. rooms[r].session = "now"
        BY <1>9, <2>1, <3>2
      <4>2. PICK j \in DOMAIN inbox : inbox[j].room = r /\ k \in Seqs(j)
        BY <1>7, <2>1, <4>1 DEF NoGaps
      <4>3. QED
        BY <1>18, <1>23, <4>2
    <3>3. QED
      BY <3>1, <3>2
  <2>2. ASSUME NEW j \in DOMAIN inbox'
        PROVE  /\ \A k \in Seqs(j)' : k > rooms'[inbox'[j].room].cursor
               /\ \A i \in DOMAIN inbox' : i < j /\ inbox'[i].room = inbox'[j].room =>
                    \A k \in Seqs(i)', l \in Seqs(j)' : k < l
    <3>1. CASE j \in DOMAIN inbox
      <4>1. \A i \in DOMAIN inbox' : i < j => i \in DOMAIN inbox
        <5>1. \A i \in DOMAIN E : ~(n + i < j)
          BY <1>18, <3>1
        <5>2. QED
          BY <1>18, <5>1
      <4>2. rooms[inbox[j].room].session = "now" /\ inbox[j].room \in Rooms
        BY <1>16, <1>19, <3>1
      <4>3. QED
        BY <1>7, <1>9, <1>18, <1>23, <3>1, <4>1, <4>2 DEF NoGaps
    <3>2. CASE j \notin DOMAIN inbox
      <4>1. PICK i \in DOMAIN E : j = n + i
        BY <1>18, <3>2
      <4>2. inbox'[j] = E[i] /\ E[i].room \in let /\ E[i].room \in Rooms
        BY <1>5, <1>13, <1>18, <4>1
      <4>3. \A k \in Seqs(j)' : k > rooms'[inbox'[j].room].cursor
        BY <1>8, <1>9, <1>23, <4>1, <4>2
      <4>4. \A h \in DOMAIN inbox : inbox[h].room # E[i].room
        BY <1>19, <4>2
      <4>5. \A h \in DOMAIN E : h # i => E[h].room # E[i].room
        BY <1>6, <1>13
      <4>6. \A h \in DOMAIN inbox' : h < j => inbox'[h].room # inbox'[j].room
        <5>1. SUFFICES ASSUME NEW h \in DOMAIN inbox', h < j
                       PROVE  inbox'[h].room # inbox'[j].room
          OBVIOUS
        <5>2. CASE h \in DOMAIN inbox
          BY <1>18, <4>2, <4>4, <5>2
        <5>3. CASE h \notin DOMAIN inbox
          <6>1. PICK g \in DOMAIN E : h = n + g
            BY <1>18, <5>3
          <6>2. g # i /\ inbox'[h] = E[g]
            BY <1>18, <4>1, <5>1, <6>1
          <6>3. QED
            BY <4>2, <4>5, <6>2
        <5>4. QED
          BY <5>2, <5>3
      <4>7. QED
        BY <4>3, <4>6
    <3>3. QED
      BY <3>1, <3>2
  <2>3. \A r \in Rooms : rooms'[r].cursor = rooms[r].cursor
                         /\ rooms'[r].log = rooms[r].log
    BY <1>9
  <2>4. QED
    BY <2>1, <2>2, <2>3 DEF NoGaps
<1>25. SessionsOK'
  <2>1. \A r \in Rooms : rooms'[r].session = "now" => Saved(r)'
    BY <1>1, <1>7, <1>9, <1>11 DEF SessionsOK
  <2>2. ASSUME NEW j \in DOMAIN inbox'
        PROVE  rooms'[inbox'[j].room].session = "now" /\ inbox'[j].room \in Rooms
    <3>1. CASE j \in DOMAIN inbox
      BY <1>16, <1>18, <1>19, <3>1
    <3>2. CASE j \notin DOMAIN inbox
      BY <1>5, <1>9, <1>13, <1>18, <3>2
    <3>3. QED
      BY <3>1, <3>2
  <2>3. QED
    BY <2>1, <2>2 DEF SessionsOK
<1>26. QED
  BY <1>10, <1>20, <1>21, <1>22, <1>24, <1>25 DEF WorldInv

(***************************************************************************)
(* A text that is written is later than all others.                        *)
(***************************************************************************)
LEMMA TextWritten ==
  ASSUME WorldTypeOK, NEW p \in Peers \cup {Me}, author' = Append(author, p),
         NEW n, n = Len(author')
  PROVE  /\ author' \in Seq(Peers \cup {Me}) /\ n \in Nat
         /\ n \in Texts' /\ Writer(n)' = (IF p = Me THEN MyPeer ELSE p)
         /\ \A t \in Texts : t < n /\ t \in Nat
         /\ \A t \in Texts : t \in Texts' /\ author'[t] = author[t]
                             /\ Writer(t)' = Writer(t)
<1>1. author \in Seq(Peers \cup {Me})
  BY DEF WorldTypeOK
<1>2. /\ author' \in Seq(Peers \cup {Me}) /\ Len(author') = Len(author) + 1
      /\ DOMAIN author' = DOMAIN author \cup {Len(author) + 1}
      /\ \A i \in DOMAIN author : author'[i] = author[i]
      /\ author'[Len(author) + 1] = p
  BY <1>1, AppendKeeps
<1>3. Len(author) \in Nat /\ DOMAIN author = 1..Len(author)
  BY <1>1
<1>4. QED
  BY <1>2, <1>3 DEF Texts, Writer

(***************************************************************************)
(* A message that is refused, or that is not posted yet.                   *)
(***************************************************************************)
LEMMA NotPosted ==
  ASSUME StoreInv, WorldInv, NEW p \in Peers \cup {Me},
         author' = Append(author, p), rooms' = rooms, inbox' = inbox,
         store' = store, link' = link, ends' = ends, breaks' = breaks
  PROVE  WorldInv' /\ LogsKeep
<1>1. PICK n : n = Len(author')
  OBVIOUS
<1>2. /\ author' \in Seq(Peers \cup {Me})
      /\ \A t \in Texts : t \in Texts' /\ author'[t] = author[t]
                          /\ Writer(t)' = Writer(t)
  BY <1>1, TextWritten DEF WorldInv
<1>3. WorldTypeOK'
  BY <1>2 DEF WorldInv, WorldTypeOK
<1>4. LogsOK'
  BY <1>2 DEF WorldInv, LogsOK
<1>5. InboxOK' /\ NoGaps'
  BY SMTT(20) DEF WorldInv, InboxOK, FromLog, NoGaps, Seqs
<1>6. SessionsOK'
  BY SameSaved DEF WorldInv, SessionsOK
<1>7. LogsKeep
  BY <1>2 DEF LogsKeep, Texts
<1>8. QED
  BY <1>3, <1>4, <1>5, <1>6, <1>7 DEF WorldInv

(***************************************************************************)
(* A message that is posted comes at the end of its room's log, and at the *)
(* end of what is under way.                                               *)
(***************************************************************************)
LEMMA Posted ==
  ASSUME StoreInv, WorldInv, NEW r \in Rooms, NEW p \in Peers \cup {Me},
         author' = Append(author, p),
         NEW from, from = (IF p = Me THEN MyPeer ELSE p),
         Post(r, from, Len(author')),
         store' = store, link' = link, ends' = ends, breaks' = breaks
  PROVE  WorldInv' /\ LogsKeep
<1>1. PICK n, log, new, row :
        /\ n = Len(author') /\ log = rooms[r].log /\ new = Len(log) + 1
        /\ row = [from |-> from, text |-> n]
  OBVIOUS
<1>2. /\ author' \in Seq(Peers \cup {Me}) /\ n \in Nat
      /\ n \in Texts' /\ Writer(n)' = from
      /\ \A t \in Texts : t < n /\ t \in Nat
      /\ \A t \in Texts : t \in Texts' /\ author'[t] = author[t]
                          /\ Writer(t)' = Writer(t)
  BY <1>1, TextWritten DEF WorldInv
<1>3. WorldTypeOK /\ LogsOK /\ InboxOK /\ NoGaps /\ SessionsOK
  BY DEF WorldInv
<1>4. /\ log \in Seq(LogRows) /\ rooms[r].cursor \in Nat
      /\ rooms[r].session \in {"none", "now", "old"}
      /\ Len(log) \in Nat /\ DOMAIN log = 1..Len(log)
      /\ rooms[r].cursor <= Len(log)
  BY <1>1, <1>3, RoomTypes DEF LogsOK
<1>5. from \in Writers /\ row \in LogRows /\ row.text = n /\ row.from = from
  BY <1>1, <1>2 DEF LogRows, Writers
<1>6. /\ Append(log, row) \in Seq(LogRows)
      /\ Len(Append(log, row)) = new
      /\ DOMAIN Append(log, row) = DOMAIN log \cup {new}
      /\ \A i \in DOMAIN log : Append(log, row)[i] = log[i]
      /\ Append(log, row)[new] = row
      /\ new \notin DOMAIN log /\ new \in Nat
  BY SMTT(20), <1>1, <1>4, <1>5, AppendKeeps
<1>7. PICK room : room = [rooms[r] EXCEPT !.log = Append(log, row)]
  OBVIOUS
<1>8. rooms' = [rooms EXCEPT ![r] = room]
  BY <1>1, <1>7 DEF Post
<1>9. /\ room.log = Append(log, row) /\ room.cursor = rooms[r].cursor
      /\ room.session = rooms[r].session
      /\ room \in [log : Seq(LogRows), session : {"none", "now", "old"},
                   cursor : Nat]
  BY <1>3, <1>6, <1>7 DEF WorldTypeOK
<1>10. /\ rooms'[r] = room
       /\ \A s \in Rooms : s # r => rooms'[s] = rooms[s]
       /\ rooms' \in [Rooms -> [log : Seq(LogRows),
                                session : {"none", "now", "old"}, cursor : Nat]]
  BY <1>3, <1>8, <1>9 DEF WorldTypeOK
<1>11. \A s \in Rooms : /\ rooms'[s].cursor = rooms[s].cursor
                        /\ rooms'[s].session = rooms[s].session
  BY <1>9, <1>10
<1>12. LogsKeep
  <2>1. \A s \in Rooms : \A i \in DOMAIN rooms[s].log :
          i \in DOMAIN rooms'[s].log /\ rooms'[s].log[i] = rooms[s].log[i]
    <3>1. rooms'[r].log = Append(log, row)
      BY <1>9, <1>10
    <3>2. \A i \in DOMAIN log : i \in DOMAIN rooms'[r].log /\ rooms'[r].log[i] = log[i]
      BY <1>6, <3>1
    <3>3. QED
      BY <1>1, <1>10, <3>2
  <2>2. QED
    BY <1>2, <1>11, <2>1 DEF LogsKeep, Texts
<1>13. LogsOK'
  <2>1. SUFFICES ASSUME NEW s \in Rooms
                 PROVE  /\ \A i \in DOMAIN rooms'[s].log :
                             /\ rooms'[s].log[i].text \in Texts'
                             /\ rooms'[s].log[i].from
                                  = Writer(rooms[s].log[i].text)'
                        /\ \A i, j \in DOMAIN rooms'[s].log :
                             i < j => rooms'[s].log[i].text < rooms'[s].log[j].text
                        /\ rooms'[s].cursor <= Len(rooms'[s].log)
    BY DEF LogsOK
  <2>2. CASE s # r
    <3>1. rooms'[s] = rooms[s]
      BY <1>10, <2>2
    <3>2. QED
      BY <1>2, <1>3, <3>1 DEF LogsOK
  <2>3. CASE s = r
    <3>1. rooms'[s].log = Append(log, row) /\ rooms'[s].cursor = rooms[r].cursor
      BY <1>9, <1>10, <2>3
    <3>2. \A i \in DOMAIN log :
            /\ log[i].text \in Texts /\ log[i].from = Writer(log[i].text)
      BY <1>1, <1>3 DEF LogsOK
    <3>3. \A i, j \in DOMAIN log : i < j => log[i].text < log[j].text
      BY <1>1, <1>3 DEF LogsOK
    <3>4. \A i \in DOMAIN log \cup {new} :
            /\ Append(log, row)[i].text \in Texts'
            /\ Append(log, row)[i].from = Writer(Append(log, row)[i].text)'
      <4>1. ASSUME NEW i \in DOMAIN log
            PROVE  /\ Append(log, row)[i].text \in Texts'
                   /\ Append(log, row)[i].from = Writer(Append(log, row)[i].text)'
        <5>1. PICK t : t = log[i].text
          OBVIOUS
        <5>2. t \in Texts /\ log[i].from = Writer(t) /\ Append(log, row)[i] = log[i]
          BY <1>6, <3>2, <5>1
        <5>3. QED
          BY <1>2, <5>1, <5>2
      <4>2. Append(log, row)[new] = row /\ Writer(row.text)' = row.from
        BY <1>2, <1>5, <1>6
      <4>3. QED
        BY <1>2, <1>5, <4>1, <4>2
    <3>5. \A i, j \in DOMAIN log \cup {new} :
            i < j => Append(log, row)[i].text < Append(log, row)[j].text
      <4>1. \A i \in DOMAIN log : log[i].text < n /\ i < new
        BY <1>1, <1>2, <1>4, <3>2
      <4>2. \A j \in DOMAIN log : ~(new < j)
        BY <1>1, <1>4
      <4>3. ~(new < new)
        BY <1>6
      <4>4. QED
        BY <1>5, <1>6, <3>3, <4>1, <4>2, <4>3
    <3>6. rooms[r].cursor <= new
      BY <1>1, <1>4
    <3>7. QED
      BY <1>6, <3>1, <3>4, <3>5, <3>6
  <2>4. QED
    BY <2>2, <2>3
<1>14. /\ inbox \in Seq(Events) /\ Len(inbox) \in Nat
       /\ DOMAIN inbox = 1..Len(inbox)
       /\ \A j \in DOMAIN inbox : inbox[j].room \in Rooms
       /\ \A j \in DOMAIN inbox : Seqs(j) \subseteq DOMAIN rooms[inbox[j].room].log
  BY <1>3, EventTypes, SMTT(20) DEF InboxOK, FromLog, Seqs
<1>15. \A s : Saved(s)' <=> Saved(s)
  BY SameSaved
<1>16. CASE rooms[r].session # "now"
  <2>1. inbox' = inbox
    BY <1>9, <1>1, <1>7, <1>16 DEF Post
  <2>2. WorldTypeOK'
    BY <1>2, <1>3, <1>10, <2>1 DEF WorldTypeOK
  <2>3. InboxOK'
    BY <1>3, <1>12, <1>14, <2>1, FromLogKept DEF InboxOK
  <2>4. \A j \in DOMAIN inbox : Seqs(j)' = Seqs(j)
    BY <2>1 DEF Seqs
  <2>5. \A s \in Rooms : rooms'[s].session = "now" => rooms'[s] = rooms[s]
    BY <1>10, <1>11, <1>16
  <2>6. NoGaps'
    BY <1>3, <1>14, <2>1, <2>4, <2>5, <1>11 DEF NoGaps
  <2>7. SessionsOK'
    BY <1>3, <1>11, <1>14, <1>15, <2>1 DEF SessionsOK
  <2>8. QED
    BY <1>12, <1>13, <2>2, <2>3, <2>6, <2>7 DEF WorldInv
<1>17. CASE rooms[r].session = "now"
  <2>1. PICK e, m : e = [room |-> r, messages |-> <<Entry(room, Len(room.log))>>]
                    /\ m = Len(inbox) + 1
    OBVIOUS
  <2>2. inbox' = Append(inbox, e)
    BY <1>1, <1>7, <1>9, <1>17, <2>1 DEF Post
  <2>3. Entry(room, Len(room.log)) = [from |-> from, text |-> n, seq |-> new]
    BY <1>5, <1>6, <1>9 DEF Entry
  <2>4. /\ e.room = r /\ e.messages = <<[from |-> from, text |-> n, seq |-> new]>>
        /\ e \in Events
    BY <1>2, <1>5, <1>6, <2>1, <2>3 DEF Events, SeqRows
  <2>5. /\ DOMAIN e.messages = {1} /\ e.messages # <<>> /\ e.messages[1].seq = new
        /\ e.messages[1].from = from /\ e.messages[1].text = n
    BY <2>4
  <2>6. /\ inbox' \in Seq(Events)
        /\ DOMAIN inbox' = DOMAIN inbox \cup {m}
        /\ \A i \in DOMAIN inbox : inbox'[i] = inbox[i]
        /\ inbox'[m] = e /\ m \notin DOMAIN inbox
    BY <1>14, <2>1, <2>2, <2>4, AppendKeeps
  <2>7. WorldTypeOK'
    BY <1>2, <1>3, <1>10, <2>6 DEF WorldTypeOK
  <2>8. InboxOK'
    <3>1. \A j \in DOMAIN inbox : FromLog(inbox[j])'
      BY <1>3, <1>12, <1>14, <2>6, FromLogKept DEF InboxOK
    <3>2. FromLog(e)'
      <4>1. rooms'[e.room].log = Append(log, row)
        BY <1>9, <1>10, <2>4
      <4>2. ~(1 < 1)
        OBVIOUS
      <4>3. QED
        BY <1>5, <1>6, <2>5, <4>1, <4>2 DEF FromLog
    <3>3. QED
      BY <2>6, <3>1, <3>2, ZenonT(30) DEF InboxOK, FromLog
  <2>9. /\ \A j \in DOMAIN inbox : Seqs(j)' = Seqs(j)
        /\ Seqs(m)' = {new}
    BY <2>5, <2>6 DEF Seqs
  <2>10. \A j \in DOMAIN inbox : inbox[j].room = r => \A k \in Seqs(j) : k < new
    BY <1>1, <1>4, <1>14
  <2>11. NoGaps'
    <3>1. ASSUME NEW s \in Rooms, rooms'[s].session = "now",
                 NEW k \in (rooms'[s].cursor + 1)..Len(rooms'[s].log)
          PROVE  \E j \in DOMAIN inbox' : inbox'[j].room = s /\ k \in Seqs(j)'
      <4>1. CASE s = r /\ k = new
        BY <2>4, <2>6, <2>9, <4>1
      <4>2. CASE ~(s = r /\ k = new)
        <5>1. k \in (rooms[s].cursor + 1)..Len(rooms[s].log)
          BY <1>1, <1>4, <1>6, <1>9, <1>10, <1>11, <3>1, <4>2
        <5>2. PICK j \in DOMAIN inbox : inbox[j].room = s /\ k \in Seqs(j)
          BY <1>3, <1>11, <3>1, <5>1 DEF NoGaps
        <5>3. QED
          BY <2>6, <2>9, <5>2
      <4>3. QED
        BY <4>1, <4>2
    <3>2. ASSUME NEW j \in DOMAIN inbox', rooms'[inbox'[j].room].session = "now"
          PROVE  /\ \A k \in Seqs(j)' : k > rooms'[inbox'[j].room].cursor
                 /\ \A i \in DOMAIN inbox' : i < j /\ inbox'[i].room = inbox'[j].room =>
                      \A k \in Seqs(i)', l \in Seqs(j)' : k < l
      <4>1. CASE j \in DOMAIN inbox
        <5>1. \A i \in DOMAIN inbox' : i < j => i \in DOMAIN inbox
          BY <1>14, <2>1, <2>6, <4>1
        <5>2. /\ rooms[inbox[j].room].session = "now" /\ inbox[j].room \in Rooms
              /\ inbox'[j] = inbox[j]
              /\ rooms'[inbox[j].room].cursor = rooms[inbox[j].room].cursor
          BY <1>11, <1>14, <2>6, <3>2, <4>1
        <5>3. /\ \A k \in Seqs(j) : k > rooms[inbox[j].room].cursor
              /\ \A i \in DOMAIN inbox : i < j /\ inbox[i].room = inbox[j].room =>
                   \A k \in Seqs(i), l \in Seqs(j) : k < l
          BY <1>3, <4>1, <5>2 DEF NoGaps
        <5>4. QED
          BY <2>6, <2>9, <4>1, <5>1, <5>2, <5>3
      <4>2. CASE j = m
        <5>1. new > rooms[r].cursor
          BY <1>1, <1>4
        <5>2. \A i \in DOMAIN inbox' : i < j => i \in DOMAIN inbox
          BY <1>14, <2>1, <2>6, <4>2
        <5>3. QED
          BY <1>11, <2>4, <2>6, <2>9, <2>10, <4>2, <5>1, <5>2
      <4>3. QED
        BY <2>6, <4>1, <4>2
    <3>3. QED
      BY <3>1, <3>2 DEF NoGaps
  <2>12. SessionsOK'
    <3>1. link = "up" /\ Saved(r)
      BY <1>3, <1>17 DEF SessionsOK
    <3>2. QED
      BY <1>3, <1>11, <1>14, <1>15, <1>17, <2>4, <2>6, <3>1, SMTT(20)
         DEF SessionsOK
  <2>13. QED
    BY <1>12, <1>13, <2>7, <2>8, <2>11, <2>12 DEF WorldInv
<1>18. QED
  BY <1>16, <1>17

(***************************************************************************)
(* Sessions end, and what was under way to them may be lost.               *)
(***************************************************************************)
LEMMA SessionsEnd ==
  ASSUME StoreInv, WorldInv, store' = store, author' = author,
         link' \in {"none", "connecting", "up", "broken"},
         rooms' \in [Rooms -> [log : Seq(LogRows),
                               session : {"none", "now", "old"}, cursor : Nat]],
         \A r \in Rooms :
           /\ rooms'[r].log = rooms[r].log /\ rooms'[r].cursor = rooms[r].cursor
           /\ rooms'[r].session = "now" => rooms[r].session = "now",
         \/ inbox' = inbox
         \/ inbox' = <<>> /\ \A r \in Rooms : rooms'[r].session # "now",
         ends' \in Nat, breaks' \in Nat,
         \A r \in Rooms : rooms'[r].session = "now" => link' = "up",
         link' = "up" =>
           \A j \in DOMAIN inbox' : rooms'[inbox'[j].room].session = "now",
         link' \in {"none", "connecting"} => inbox' = <<>>,
         link' = "broken" => breaks' > 0
  PROVE  WorldInv' /\ LogsKeep
<1>1. WorldTypeOK /\ LogsOK /\ InboxOK /\ NoGaps /\ SessionsOK
  BY DEF WorldInv
<1>2. LogsKeep
  BY DEF LogsKeep
<1>3. inbox \in Seq(Events) /\ \A j \in DOMAIN inbox : inbox[j].room \in Rooms
  BY <1>1, EventTypes
<1>4. inbox' \in Seq(Events) /\ (inbox' = inbox \/ DOMAIN inbox' = {})
  <2>1. <<>> \in Seq(Events) /\ DOMAIN <<>> = {}
    OBVIOUS
  <2>2. QED
    BY <1>3, <2>1
<1>5. WorldTypeOK'
  BY <1>1, <1>4 DEF WorldTypeOK
<1>6. LogsOK'
  BY <1>1 DEF LogsOK, Texts, Writer
<1>7. InboxOK'
  <2>1. CASE inbox' = inbox
    <3>1. \A e : e.room \in Rooms /\ FromLog(e) => FromLog(e)'
      BY <1>2, FromLogKept
    <3>2. \A j \in DOMAIN inbox : FromLog(inbox[j])
      BY <1>1 DEF InboxOK
    <3>3. SUFFICES ASSUME NEW j \in DOMAIN inbox
                   PROVE  FromLog(inbox[j])'
      BY <2>1 DEF InboxOK
    <3>4. PICK e : e = inbox[j]
      OBVIOUS
    <3>5. FromLog(e)'
      BY <1>3, <3>1, <3>2, <3>4
    <3>6. QED
      BY <2>1, <3>4, <3>5 DEF FromLog
  <2>2. CASE inbox' # inbox
    BY <1>4, <2>2 DEF InboxOK
  <2>3. QED
    BY <2>1, <2>2
<1>8. NoGaps'
  <2>1. CASE inbox' = inbox
    <3>1. \A j \in DOMAIN inbox : Seqs(j)' = Seqs(j)
      BY <2>1 DEF Seqs
    <3>2. \A r \in Rooms : rooms'[r].session = "now" =>
            \A k \in (rooms'[r].cursor + 1)..Len(rooms'[r].log) :
              \E j \in DOMAIN inbox : inbox[j].room = r /\ k \in Seqs(j)
      BY <1>1 DEF NoGaps
    <3>3. \A j \in DOMAIN inbox : rooms'[inbox[j].room].session = "now" =>
            /\ \A k \in Seqs(j) : k > rooms'[inbox[j].room].cursor
            /\ \A i \in DOMAIN inbox : i < j /\ inbox[i].room = inbox[j].room =>
                 \A k \in Seqs(i), l \in Seqs(j) : k < l
      <4>1. SUFFICES ASSUME NEW j \in DOMAIN inbox,
                            rooms'[inbox[j].room].session = "now"
                     PROVE  /\ \A k \in Seqs(j) : k > rooms'[inbox[j].room].cursor
                            /\ \A i \in DOMAIN inbox :
                                 i < j /\ inbox[i].room = inbox[j].room =>
                                   \A k \in Seqs(i), l \in Seqs(j) : k < l
        OBVIOUS
      <4>2. /\ rooms[inbox[j].room].session = "now"
            /\ rooms'[inbox[j].room].cursor = rooms[inbox[j].room].cursor
        BY <1>1, <1>3, <4>1
      <4>3. QED
        BY <1>1, <4>1, <4>2 DEF NoGaps
    <3>4. QED
      BY <2>1, <3>1, <3>2, <3>3 DEF NoGaps
  <2>2. CASE inbox' # inbox
    BY <1>4, <2>2 DEF NoGaps
  <2>3. QED
    BY <2>1, <2>2
<1>9. SessionsOK'
  BY <1>1, <1>3, <1>4, SameSaved DEF SessionsOK
<1>10. QED
  BY <1>2, <1>5, <1>6, <1>7, <1>8, <1>9 DEF WorldInv

(***************************************************************************)
(* A lost connection leaves no session in a room.                          *)
(***************************************************************************)
LEMMA OfflineIs ==
  ASSUME WorldTypeOK
  PROVE  /\ Offline \in [Rooms -> [log : Seq(LogRows),
                                   session : {"none", "now", "old"}, cursor : Nat]]
         /\ \A r \in Rooms :
              /\ Offline[r].log = rooms[r].log
              /\ Offline[r].cursor = rooms[r].cursor
              /\ Offline[r].session # "now"
<1>1. \A r \in Rooms : rooms[r] \in
        [log : Seq(LogRows), session : {"none", "now", "old"}, cursor : Nat]
  BY DEF WorldTypeOK
<1>2. QED
  BY <1>1 DEF Offline

(***************************************************************************)
(* The steps of the network and of the peers, which the main thread does   *)
(* not see at once.                                                        *)
(***************************************************************************)
LEMMA OutsideKeeps ==
  ASSUME ConsoleInv, WorldInv', LogsKeep, store' = store, nextId' = nextId,
         pc' = pc, op' = op, mem' = mem, walk' = walk, excused' = excused,
         ends' = ends, breaks' = 0 => breaks = 0,
         link = "none" => link' = "none"
  PROVE  ConsoleInv'
<1>1. /\ StoreInv /\ WorldInv /\ MainInv /\ WalkInv /\ OrderInv /\ FewMembers
      /\ MemTypeOK /\ OpTypeOK /\ WalkTypeOK /\ StoreTypeOK /\ ends \in Nat
  BY DEF ConsoleInv, MainInv, StoreInv, WorldInv, WorldTypeOK
<1>2. StoreInv' /\ StoreGrows /\ Incomings' = Incomings
  BY <1>1, SameStore
<1>3. MainInv'
  BY ZenonT(30), <1>1, SameSaved
  DEF MainInv, MemTypeOK, OpTypeOK, WalkTypeOK, JoinedOK, Written
<1>4. /\ SendersOK' /\ WalkOK' /\ WalkLosesNothing'
      /\ \A j \in Nat : Passed(j) => Passed(j)'
  BY <1>1, <1>2, WalkKept DEF WalkInv, Written
<1>5. QueueKept
  BY <1>2, <1>4 DEF QueueKept
<1>6. QueueOK' /\ NothingSlips' /\ OrderInv'
  BY <1>1, <1>5, KeptQueue DEF WalkInv
<1>7. FewMembers'
  <2>1. \A p \in Writers : MembersOf(p)' = MembersOf(p)
    BY DEF MembersOf
  <2>2. \A p \in Writers : Met(p) \subseteq Met(p)'
    BY MetKept DEF Written
  <2>3. QED
    BY <1>1, <2>1, <2>2, FewKept
<1>8. QED
  BY <1>2, <1>3, <1>4, <1>6, <1>7 DEF ConsoleInv, WalkInv

(***************************************************************************)
(* A lost connection keeps the invariant.                                  *)
(***************************************************************************)
LEMMA BreakKeeps ==
  ASSUME ConsoleInv, Break
  PROVE  ConsoleInv'
<1>1. /\ link' = "broken" /\ breaks' = breaks + 1 /\ rooms' = Offline
      /\ store' = store /\ nextId' = nextId /\ inbox' = inbox
      /\ author' = author /\ excused' = excused /\ ends' = ends
      /\ pc' = pc /\ op' = op /\ mem' = mem /\ walk' = walk
  BY DEF Break, progVars
<1>2. WorldTypeOK /\ breaks \in Nat /\ ends \in Nat
  BY DEF ConsoleInv, WorldInv, WorldTypeOK
<1>3. breaks' \in Nat /\ breaks' > 0
  BY <1>1, <1>2
<1>4. WorldInv' /\ LogsKeep
  BY <1>1, <1>2, <1>3, OfflineIs, SessionsEnd DEF ConsoleInv
<1>5. QED
  <2>1. link = "up"
    BY DEF Break
  <2>2. QED
    BY <1>1, <1>2, <1>3, <1>4, <2>1, OutsideKeeps

(***************************************************************************)
(* So does the server's noticing of it.                                    *)
(***************************************************************************)
LEMMA ServerNoticesKeeps ==
  ASSUME ConsoleInv, ServerNotices
  PROVE  ConsoleInv'
<1>1. /\ rooms' = [r \in Rooms |-> IF rooms[r].session = "old"
                                   THEN [rooms[r] EXCEPT !.session = "none"]
                                   ELSE rooms[r]]
      /\ store' = store /\ nextId' = nextId /\ inbox' = inbox /\ link' = link
      /\ author' = author /\ excused' = excused /\ ends' = ends
      /\ breaks' = breaks
      /\ pc' = pc /\ op' = op /\ mem' = mem /\ walk' = walk
  BY DEF ServerNotices, progVars, boundVars
<1>2. WorldTypeOK /\ breaks \in Nat /\ ends \in Nat /\ SessionsOK
      /\ link \in {"none", "connecting", "up", "broken"}
      /\ \A j \in DOMAIN inbox : inbox[j].room \in Rooms
  BY EventTypes DEF ConsoleInv, WorldInv, WorldTypeOK
<1>3. \A r \in Rooms : rooms[r] \in
        [log : Seq(LogRows), session : {"none", "now", "old"}, cursor : Nat]
  BY <1>2 DEF WorldTypeOK
<1>4. rooms' \in [Rooms -> [log : Seq(LogRows),
                            session : {"none", "now", "old"}, cursor : Nat]]
  BY <1>1, <1>3
<1>5. \A r \in Rooms :
        /\ rooms'[r].log = rooms[r].log /\ rooms'[r].cursor = rooms[r].cursor
        /\ rooms'[r].session = "now" <=> rooms[r].session = "now"
  BY <1>1, <1>3
<1>6. /\ \A r \in Rooms : rooms'[r].session = "now" => link' = "up"
      /\ link' = "up" =>
           \A j \in DOMAIN inbox' : rooms'[inbox'[j].room].session = "now"
      /\ link' \in {"none", "connecting"} => inbox' = <<>>
      /\ link' = "broken" => breaks' > 0
  BY <1>1, <1>2, <1>5 DEF SessionsOK
<1>7. WorldInv' /\ LogsKeep
  BY <1>1, <1>2, <1>4, <1>5, <1>6, SessionsEnd DEF ConsoleInv
<1>8. QED
  BY <1>1, <1>7, OutsideKeeps

(***************************************************************************)
(* So does a peer's message.                                               *)
(***************************************************************************)
LEMMA PeerPostsKeeps ==
  ASSUME ConsoleInv, NEW p \in Peers, NEW r \in Rooms, PeerPosts(p, r)
  PROVE  ConsoleInv'
<1>1. /\ author' = Append(author, p) /\ Post(r, p, Len(author'))
      /\ store' = store /\ nextId' = nextId /\ link' = link
      /\ excused' = excused /\ ends' = ends /\ breaks' = breaks
      /\ pc' = pc /\ op' = op /\ mem' = mem /\ walk' = walk
  BY DEF PeerPosts, progVars, boundVars
<1>2. p # Me
  BY ConsoleBounds
<1>3. WorldInv' /\ LogsKeep
  <2>1. p \in Peers \cup {Me} /\ p = (IF p = Me THEN MyPeer ELSE p)
    BY <1>2
  <2>2. QED
    BY <1>1, <2>1, Posted DEF ConsoleInv
<1>4. QED
  BY <1>1, <1>3, OutsideKeeps

-----------------------------------------------------------------------------
(* The events the main thread pumps.                                       *)

(***************************************************************************)
(* The rest of a sequence.                                                 *)
(***************************************************************************)
LEMMA TailIs ==
  ASSUME NEW S, NEW s \in Seq(S), s # <<>>
  PROVE  /\ Tail(s) \in Seq(S) /\ Head(s) = s[1] /\ 1 \in DOMAIN s
         /\ DOMAIN s \subseteq Nat \ {0} /\ DOMAIN Tail(s) \subseteq Nat \ {0}
         /\ \A i \in DOMAIN Tail(s) : i + 1 \in DOMAIN s /\ Tail(s)[i] = s[i + 1]
         /\ \A j \in DOMAIN s : j # 1 =>
              j > 1 /\ \E i \in DOMAIN Tail(s) : j = i + 1
         /\ DOMAIN s = 1..Len(s) /\ Len(s) \in Nat /\ Len(s) \in DOMAIN s
<1>1. /\ Tail(s) \in Seq(S) /\ Head(s) = s[1] /\ Len(s) \in Nat /\ Len(s) > 0
      /\ DOMAIN s = 1..Len(s) /\ Len(Tail(s)) = Len(s) - 1
      /\ DOMAIN Tail(s) = 1..(Len(s) - 1)
      /\ \A i \in 1..(Len(s) - 1) : Tail(s)[i] = s[i + 1]
  OBVIOUS
<1>2. ASSUME NEW j \in DOMAIN s, j # 1
      PROVE  j > 1 /\ \E i \in DOMAIN Tail(s) : j = i + 1
  <2>1. j - 1 \in DOMAIN Tail(s) /\ j = (j - 1) + 1 /\ j > 1
    BY <1>1, <1>2
  <2>2. QED
    BY <2>1
<1>3. QED
  BY <1>1, <1>2

\* The first event: r is its room, m its last number.
First(e, r, m) ==
  /\ inbox # <<>> /\ e = inbox[1] /\ r = e.room /\ r \in Rooms
  /\ e.messages \in Seq(SeqRows) /\ e.messages # <<>>
  /\ m = e.messages[Len(e.messages)].seq /\ m \in Nat
  /\ Seqs(1) = {e.messages[i].seq : i \in DOMAIN e.messages}
  /\ Max(Seqs(1)) = m /\ m \in Seqs(1) /\ \A k \in Seqs(1) : k <= m /\ k \in Nat
  /\ m \in DOMAIN rooms[r].log

(***************************************************************************)
(* The first event is a part of the log of its room, and its last number is *)
(* the greatest of it.                                                     *)
(***************************************************************************)
LEMMA FirstIs ==
  ASSUME WorldInv, inbox # <<>>, NEW e, NEW r, NEW m, e = Head(inbox), r = e.room,
         m = e.messages[Len(e.messages)].seq
  PROVE  First(e, r, m)
<1>1. WorldTypeOK /\ InboxOK /\ inbox \in Seq(Events)
  BY EventTypes DEF WorldInv
<1>2. Head(inbox) = inbox[1] /\ 1 \in DOMAIN inbox
  BY <1>1, TailIs
<1>3. /\ r \in Rooms /\ e.messages \in Seq(SeqRows)
      /\ \A i \in DOMAIN e.messages : e.messages[i].seq \in Nat
  BY <1>1, <1>2, EventTypes
<1>4. FromLog(inbox[1])
  BY <1>1, <1>2 DEF InboxOK
<1>5. /\ e.messages # <<>>
      /\ \A i \in DOMAIN e.messages : e.messages[i].seq \in DOMAIN rooms[r].log
      /\ \A i, k \in DOMAIN e.messages :
           i < k => e.messages[i].seq < e.messages[k].seq
  BY <1>2, <1>4 DEF FromLog
<1>6. /\ Len(e.messages) \in DOMAIN e.messages
      /\ DOMAIN e.messages = 1..Len(e.messages) /\ Len(e.messages) \in Nat
  BY <1>3, <1>5, TailIs
<1>7. \A i \in DOMAIN e.messages : e.messages[i].seq <= m
  BY <1>3, <1>5, <1>6
<1>8. Seqs(1) = {e.messages[i].seq : i \in DOMAIN e.messages}
  BY <1>2 DEF Seqs
<1>9. /\ m \in Seqs(1) /\ Seqs(1) \subseteq Nat /\ \A k \in Seqs(1) : k <= m
  BY <1>3, <1>6, <1>7, <1>8
<1>10. Max(Seqs(1)) = m
  BY <1>9, MaxOf
<1>11. QED
  BY <1>2, <1>3, <1>5, <1>6, <1>8, <1>9, <1>10 DEF First

(***************************************************************************)
(* To acknowledge the first event skips nothing: what is not acknowledged  *)
(* and not in it comes later.                                              *)
(***************************************************************************)
LEMMA NothingSkipped ==
  ASSUME WorldInv, NEW e, NEW r, NEW m, First(e, r, m), rooms[r].session = "now"
  PROVE  /\ \A k \in Seqs(1) : k > rooms[r].cursor
         /\ \A k \in (rooms[r].cursor + 1)..m : k \in Seqs(1)
<1>1. /\ 1 \in DOMAIN inbox /\ DOMAIN inbox \subseteq Nat \ {0}
      /\ inbox[1].room = r /\ r \in Rooms
      /\ rooms[r].cursor \in Nat /\ m \in Nat /\ m \in Seqs(1)
      /\ m \in 1..Len(rooms[r].log) /\ Len(rooms[r].log) \in Nat
  BY EventTypes, TailIs, RoomTypes DEF First, WorldInv
<1>2. \A k \in Seqs(1) : k > rooms[r].cursor
  BY <1>1 DEF WorldInv, NoGaps
<1>3. ASSUME NEW k \in (rooms[r].cursor + 1)..m
      PROVE  k \in Seqs(1)
  <2>1. k \in (rooms[r].cursor + 1)..Len(rooms[r].log)
    BY <1>1
  <2>2. PICK j \in DOMAIN inbox : inbox[j].room = r /\ k \in Seqs(j)
    BY <1>1, <2>1 DEF WorldInv, NoGaps
  <2>3. j # 1 => m < k
    BY <1>1, <2>2 DEF WorldInv, NoGaps
  <2>4. QED
    BY <1>1, <2>2, <2>3
<1>4. QED
  BY <1>2, <1>3

(***************************************************************************)
(* The network after the first event has been read and acknowledged.       *)
(***************************************************************************)
LEMMA AcknowledgeKeeps ==
  ASSUME StoreInv, WorldInv, NEW e, NEW r, NEW m, First(e, r, m),
         Acknowledge(r, Seqs(1), Tail(inbox)),
         store' = store, author' = author, link' = link, ends' = ends,
         breaks' = breaks
  PROVE  /\ WorldInv'
         /\ \A s \in Rooms : rooms'[s].log = rooms[s].log
         /\ \A s \in Rooms : s # r => rooms'[s].cursor = rooms[s].cursor
         /\ rooms'[r].cursor
              = IF rooms[r].session = "now" THEN m ELSE rooms[r].cursor
         /\ rooms'[r].cursor >= rooms[r].cursor
<1>1. WorldTypeOK /\ LogsOK /\ InboxOK /\ NoGaps /\ SessionsOK
  BY DEF WorldInv
<1>2. /\ inbox \in Seq(Events) /\ inbox # <<>> /\ inbox[1].room = r /\ r \in Rooms
      /\ \A j \in DOMAIN inbox : inbox[j].room \in Rooms
      /\ m \in Nat /\ Max(Seqs(1)) = m /\ m \in Seqs(1)
      /\ m \in 1..Len(rooms[r].log) /\ \A k \in Seqs(1) : k <= m /\ k \in Nat
      /\ \A s \in Rooms :
           rooms[s].cursor \in Nat /\ rooms[s].cursor <= Len(rooms[s].log)
  BY <1>1, EventTypes, RoomTypes DEF First, LogsOK
<1>3. /\ inbox' \in Seq(Events) /\ 1 \in DOMAIN inbox
      /\ DOMAIN inbox \subseteq Nat \ {0} /\ DOMAIN inbox' \subseteq Nat \ {0}
      /\ \A i \in DOMAIN inbox' : i + 1 \in DOMAIN inbox /\ inbox'[i] = inbox[i + 1]
      /\ \A j \in DOMAIN inbox : j # 1 =>
           j > 1 /\ \E i \in DOMAIN inbox' : j = i + 1
  BY <1>2, TailIs DEF Acknowledge
<1>4. link = "up" <=> rooms[r].session = "now"
  BY <1>1, <1>2, <1>3 DEF SessionsOK
<1>5. /\ \A s \in Rooms :
           /\ rooms'[s].log = rooms[s].log /\ rooms'[s].session = rooms[s].session
           /\ s # r => rooms'[s].cursor = rooms[s].cursor
      /\ rooms'[r].cursor = IF rooms[r].session = "now" THEN m ELSE rooms[r].cursor
      /\ rooms' \in [Rooms -> [log : Seq(LogRows),
                               session : {"none", "now", "old"}, cursor : Nat]]
  <2>1. CASE rooms[r].session = "now"
    <3>1. rooms' = [rooms EXCEPT ![r].cursor = m]
      BY <1>2, <1>4, <2>1 DEF Acknowledge
    <3>2. rooms[r] \in
            [log : Seq(LogRows), session : {"none", "now", "old"}, cursor : Nat]
      BY <1>1, <1>2 DEF WorldTypeOK
    <3>3. [rooms[r] EXCEPT !.cursor = m] \in
            [log : Seq(LogRows), session : {"none", "now", "old"}, cursor : Nat]
      BY <1>2, <3>2
    <3>4. rooms' = [rooms EXCEPT ![r] = [rooms[r] EXCEPT !.cursor = m]]
      BY <1>1, <1>2, <3>1 DEF WorldTypeOK
    <3>5. /\ rooms' \in [Rooms -> [log : Seq(LogRows),
                               session : {"none", "now", "old"}, cursor : Nat]]
          /\ rooms'[r] = [rooms[r] EXCEPT !.cursor = m]
          /\ \A s \in Rooms : s # r => rooms'[s] = rooms[s]
      BY <1>1, <1>2, <3>3, <3>4 DEF WorldTypeOK
    <3>6. /\ rooms'[r].log = rooms[r].log /\ rooms'[r].cursor = m
          /\ rooms'[r].session = rooms[r].session
      BY <3>2, <3>5
    <3>7. QED
      BY <2>1, <3>5, <3>6
  <2>2. CASE rooms[r].session # "now"
    <3>1. rooms' = rooms
      BY <2>2 DEF Acknowledge
    <3>2. QED
      BY <1>1, <2>2, <3>1 DEF WorldTypeOK
  <2>3. QED
    BY <2>1, <2>2
<1>6. rooms'[r].cursor >= rooms[r].cursor
  <2>1. CASE rooms[r].session = "now"
    BY <1>2, <1>5, <2>1, NothingSkipped
  <2>2. CASE rooms[r].session # "now"
    BY <1>2, <1>5, <2>2
  <2>3. QED
    BY <2>1, <2>2
<1>7. WorldTypeOK'
  BY <1>1, <1>3, <1>5 DEF WorldTypeOK
<1>8. LogsOK'
  <2>1. \A s \in Rooms : rooms'[s].cursor <= Len(rooms[s].log)
    BY SMTT(20), <1>2, <1>5
  <2>2. \A s \in Rooms : rooms'[s].log = rooms[s].log
    BY <1>5
  <2>3. Texts' = Texts /\ \A n : Writer(n)' = Writer(n)
    BY DEF Texts, Writer
  <2>4. QED
    BY <1>1, <2>1, <2>2, <2>3 DEF LogsOK
<1>9. InboxOK'
  <2>1. SUFFICES ASSUME NEW i \in DOMAIN inbox'
                 PROVE  FromLog(inbox[i])'
    BY DEF InboxOK
  <2>2. PICK f : f = inbox[i + 1]
    OBVIOUS
  <2>3. FromLog(f) /\ f.room \in Rooms
    BY <1>1, <1>2, <1>3, <2>2 DEF InboxOK
  <2>4. FromLog(f)'
    BY <1>5, <2>3 DEF FromLog
  <2>5. QED
    BY <1>3, <2>2, <2>4, ZenonT(30) DEF FromLog
<1>10. \A i \in DOMAIN inbox' : Seqs(i)' = Seqs(i + 1)
  BY <1>3 DEF Seqs
<1>11. NoGaps'
  <2>1. ASSUME NEW s \in Rooms, rooms'[s].session = "now",
               NEW k \in (rooms'[s].cursor + 1)..Len(rooms'[s].log)
        PROVE  \E j \in DOMAIN inbox' : inbox'[j].room = s /\ k \in Seqs(j)'
    <3>1. /\ k \in (rooms[s].cursor + 1)..Len(rooms[s].log)
          /\ rooms[s].session = "now" /\ (s = r => k > m)
      BY <1>2, <1>5, <1>6, <2>1
    <3>2. PICK j \in DOMAIN inbox : inbox[j].room = s /\ k \in Seqs(j)
      BY <1>1, <3>1 DEF NoGaps
    <3>3. j # 1
      BY <1>2, <3>1, <3>2
    <3>4. QED
      BY <1>3, <1>10, <3>2, <3>3
  <2>2. ASSUME NEW j \in DOMAIN inbox', rooms'[inbox'[j].room].session = "now"
        PROVE  /\ \A k \in Seqs(j)' : k > rooms'[inbox'[j].room].cursor
               /\ \A i \in DOMAIN inbox' : i < j /\ inbox'[i].room = inbox'[j].room =>
                    \A k \in Seqs(i)', l \in Seqs(j)' : k < l
    <3>1. PICK h, s : h = j + 1 /\ s = inbox[h].room
      OBVIOUS
    <3>2. /\ h \in DOMAIN inbox /\ inbox'[j] = inbox[h] /\ s \in Rooms
          /\ rooms[s].session = "now" /\ 1 < h
      BY <1>2, <1>3, <1>5, <2>2, <3>1
    <3>3. /\ \A k \in Seqs(h) : k > rooms[s].cursor
          /\ \A i \in DOMAIN inbox : i < h /\ inbox[i].room = s =>
               \A k \in Seqs(i), l \in Seqs(h) : k < l
      BY <1>1, <3>1, <3>2 DEF NoGaps
    <3>4. \A k \in Seqs(h) : k > rooms'[s].cursor
      <4>1. CASE s = r
        BY <1>2, <1>3, <1>5, <3>2, <3>3, <4>1
      <4>2. CASE s # r
        BY <1>5, <3>2, <3>3, <4>2
      <4>3. QED
        BY <4>1, <4>2
    <3>5. \A i \in DOMAIN inbox' : i < j =>
            i + 1 \in DOMAIN inbox /\ i + 1 < h /\ inbox'[i] = inbox[i + 1]
      BY <1>3, <3>1
    <3>6. QED
      BY <1>10, <3>1, <3>2, <3>3, <3>4, <3>5
  <2>3. QED
    BY <2>1, <2>2 DEF NoGaps
<1>12. SessionsOK'
  <2>1. \A j \in DOMAIN inbox' :
          Saved(inbox'[j].room) /\ inbox'[j].room \in Rooms
    BY <1>1, <1>2, <1>3 DEF SessionsOK
  <2>2. link \notin {"none", "connecting"}
    BY <1>1, <1>2 DEF SessionsOK
  <2>3. \A s : Saved(s)' <=> Saved(s)
    BY SameSaved
  <2>4. \A s \in Rooms : rooms'[s].session = "now" => link' = "up" /\ Saved(s)'
    BY <1>1, <1>5, <2>3 DEF SessionsOK
  <2>5. link' = "up" => \A j \in DOMAIN inbox' : rooms'[inbox'[j].room].session = "now"
    <3>1. link = "up" => \A j \in DOMAIN inbox : rooms[inbox[j].room].session = "now"
      BY <1>1 DEF SessionsOK
    <3>2. \A j \in DOMAIN inbox : rooms'[inbox[j].room].session
                                  = rooms[inbox[j].room].session
      BY <1>2, <1>5
    <3>3. QED
      BY <1>3, <3>1, <3>2
  <2>6. QED
    BY <1>1, <2>1, <2>2, <2>3, <2>4, <2>5 DEF SessionsOK
<1>13. QED
  BY <1>5, <1>6, <1>7, <1>8, <1>9, <1>11, <1>12 DEF WorldInv

(***************************************************************************)
(* The messages of an event join the queue.                                *)
(***************************************************************************)
LEMMA OnMessagesKeeps ==
  ASSUME ConsoleInv, Pumping, OnMessages,
         UNCHANGED <<store, nextId, pc, op, author, boundVars>>
  PROVE  ConsoleInv'
<1>1. /\ StoreInv /\ WorldInv /\ MainInv /\ WalkInv /\ OrderInv /\ FewMembers
      /\ MemTypeOK /\ OpTypeOK /\ WalkTypeOK /\ StoreTypeOK /\ ends \in Nat
      /\ WorldTypeOK /\ LogsOK /\ InboxOK /\ SessionsOK
  BY DEF ConsoleInv, MainInv, StoreInv, WorldInv, WorldTypeOK
<1>2. /\ store' = store /\ nextId' = nextId /\ pc' = pc /\ op' = op
      /\ author' = author /\ ends' = ends /\ breaks' = breaks
      /\ link' = link /\ inbox # <<>>
  BY DEF boundVars, OnMessages
<1>3. PICK e, r, m, q, n, items :
        /\ e = Head(inbox) /\ r = e.room /\ m = e.messages[Len(e.messages)].seq
        /\ q = mem.queue /\ n = Len(q)
        /\ items = [i \in DOMAIN e.messages |->
                      [room |-> e.room, from |-> e.messages[i].from,
                       text |-> e.messages[i].text]]
  OBVIOUS
<1>4. First(e, r, m)
  BY <1>1, <1>2, <1>3, FirstIs
<1>5. /\ mem' = [mem EXCEPT !.queue = q \o items]
      /\ Acknowledge(r, Seqs(1), Tail(inbox))
      /\ \/ walk' = walk /\ ~Walking /\ excused' = excused
         \/ walk' = walk /\ Walking /\ excused' = excused \cup TextsOf(items)
         \/ /\ Walking /\ ~walk.moved
            /\ excused' = excused \cup TextsOf(items) \cup Unread
            /\ walk' = [walk EXCEPT !.moved = TRUE]
  <2>1. /\ mem' = [mem EXCEPT !.queue = q \o items]
        /\ Acknowledge(r, {e.messages[i].seq : i \in DOMAIN e.messages},
                       Tail(inbox))
    BY <1>3 DEF OnMessages
  <2>2. \/ walk' = walk /\ ~Walking /\ excused' = excused
        \/ walk' = walk /\ Walking /\ excused' = excused \cup TextsOf(items)
        \/ /\ Walking /\ ~walk.moved
           /\ excused' = excused \cup TextsOf(items) \cup Unread
           /\ walk' = [walk EXCEPT !.moved = TRUE]
    BY <1>3 DEF OnMessages
  <2>3. Seqs(1) = {e.messages[i].seq : i \in DOMAIN e.messages}
    BY <1>4 DEF First
  <2>4. QED
    BY <2>1, <2>2, <2>3
<1>6. /\ WorldInv'
      /\ \A s \in Rooms : rooms'[s].log = rooms[s].log
      /\ \A s \in Rooms : s # r => rooms'[s].cursor = rooms[s].cursor
      /\ rooms'[r].cursor = IF rooms[r].session = "now" THEN m ELSE rooms[r].cursor
      /\ rooms'[r].cursor >= rooms[r].cursor
  BY <1>1, <1>2, <1>4, <1>5, AcknowledgeKeeps
<1>7. /\ r \in Rooms /\ e = inbox[1] /\ 1 \in DOMAIN inbox /\ inbox[1].room = r
      /\ Saved(r) /\ link # "none"
      /\ rooms[r].log \in Seq(LogRows) /\ DOMAIN rooms[r].log \subseteq Nat
      /\ rooms[r].cursor \in Nat /\ m \in Nat
  BY <1>1, <1>2, <1>3, <1>4, EventTypes, TailIs, RoomTypes DEF First, SessionsOK
\* The items.
<1>8. \A i \in DOMAIN e.messages :
        /\ e.messages[i] \in SeqRows /\ e.messages[i].seq \in Nat
        /\ e.messages[i].seq \in DOMAIN rooms[r].log /\ e.messages[i].seq <= m
        /\ e.messages[i].from = rooms[r].log[e.messages[i].seq].from
        /\ e.messages[i].text = rooms[r].log[e.messages[i].seq].text
        /\ e.messages[i].text \in Texts /\ e.messages[i].text \in Nat
        /\ e.messages[i].from = Writer(e.messages[i].text)
        /\ e.messages[i].from \in Writers
        /\ e.messages[i].seq \in Seqs(1)
  <2>1. FromLog(e)
    BY <1>1, <1>7 DEF InboxOK
  <2>2. \A i \in DOMAIN e.messages :
          /\ e.messages[i] \in SeqRows /\ e.messages[i].seq \in Nat
          /\ e.messages[i].text \in Nat /\ e.messages[i].from \in Writers
    BY <1>1, <1>7, EventTypes
  <2>3. \A i \in DOMAIN e.messages :
          /\ e.messages[i].seq \in DOMAIN rooms[r].log
          /\ e.messages[i].from = rooms[r].log[e.messages[i].seq].from
          /\ e.messages[i].text = rooms[r].log[e.messages[i].seq].text
    BY <1>3, <2>1 DEF FromLog
  <2>4. \A k \in DOMAIN rooms[r].log :
          /\ rooms[r].log[k].text \in Texts
          /\ rooms[r].log[k].from = Writer(rooms[r].log[k].text)
    BY <1>1, <1>7 DEF LogsOK
  <2>5. \A i \in DOMAIN e.messages : e.messages[i].seq \in Seqs(1)
    BY <1>4 DEF First
  <2>6. \A k \in Seqs(1) : k <= m
    BY <1>4 DEF First
  <2>7. QED
    BY <2>2, <2>3, <2>4, <2>5, <2>6
<1>9. /\ items \in Seq(Items) /\ DOMAIN items = DOMAIN e.messages
      /\ \A i \in DOMAIN items :
           /\ items[i].room = r /\ items[i].from = e.messages[i].from
           /\ items[i].text = e.messages[i].text
  <2>1. /\ e.messages \in Seq(SeqRows)
        /\ DOMAIN e.messages = 1..Len(e.messages) /\ Len(e.messages) \in Nat
    BY <1>4, TailIs DEF First
  <2>2. DOMAIN items = DOMAIN e.messages
        /\ \A i \in DOMAIN items :
             /\ items[i].room = r /\ items[i].from = e.messages[i].from
             /\ items[i].text = e.messages[i].text
             /\ items[i] \in Items
    BY <1>3, <1>7, <1>8 DEF Items
  <2>3. items \in [1..Len(e.messages) -> Items]
    BY <1>3, <2>1, <2>2
  <2>4. QED
    BY <2>1, <2>2, <2>3
<1>10. /\ q \in Seq(Items) /\ DOMAIN q = 1..n /\ n \in Nat
       /\ \A i \in DOMAIN q : q[i].room \in Rooms /\ q[i].text \in Nat
  BY <1>1, <1>3, MemTypes
<1>11. /\ mem'.queue = q \o items /\ MemTypeOK'
       /\ mem'.senders = mem.senders /\ mem'.joined = mem.joined
       /\ mem'.todo = mem.todo /\ mem'.room = mem.room
  <2>1. q \o items \in Seq(Items)
    BY <1>9, <1>10, OneAfterAnother
  <2>2. QED
    BY <1>1, <1>5, <2>1 DEF MemTypeOK, MemType
<1>12. /\ \A i \in DOMAIN q : i \in DOMAIN mem'.queue /\ mem'.queue[i] = q[i]
       /\ \A i \in DOMAIN items :
            n + i \in DOMAIN mem'.queue /\ mem'.queue[n + i] = items[i]
       /\ \A j \in DOMAIN mem'.queue : \/ j \in DOMAIN q
                                      \/ \E i \in DOMAIN items : j = n + i
       /\ DOMAIN items \subseteq Nat \ {0} /\ Len(mem'.queue) \in Nat
       /\ DOMAIN mem'.queue = 1..Len(mem'.queue) /\ n <= Len(mem'.queue)
  <2>1. /\ \A i \in DOMAIN q : i \in DOMAIN (q \o items) /\ (q \o items)[i] = q[i]
        /\ \A i \in DOMAIN items :
             n + i \in DOMAIN (q \o items) /\ (q \o items)[n + i] = items[i]
        /\ \A j \in DOMAIN (q \o items) : \/ j \in DOMAIN q
                                          \/ \E i \in DOMAIN items : j = n + i
        /\ DOMAIN items \subseteq Nat \ {0}
    <3>1. \A S : q \in Seq(S) /\ items \in Seq(S) =>
            /\ \A i \in DOMAIN q : i \in DOMAIN (q \o items) /\ (q \o items)[i] = q[i]
            /\ \A i \in DOMAIN items :
                 Len(q) + i \in DOMAIN (q \o items)
                 /\ (q \o items)[Len(q) + i] = items[i]
            /\ \A j \in DOMAIN (q \o items) :
                 \/ j \in DOMAIN q
                 \/ \E i \in DOMAIN items : j = Len(q) + i
            /\ DOMAIN items \subseteq Nat \ {0}
      BY OneAfterAnother
    <3>2. Len(q) = n
      BY <1>3
    <3>3. QED
      BY <1>9, <1>10, <3>1, <3>2
  <2>2. /\ Len(q \o items) \in Nat /\ DOMAIN (q \o items) = 1..Len(q \o items)
        /\ n <= Len(q \o items)
    BY <1>3, <1>9, <1>10
  <2>3. QED
    BY <1>11, <2>1, <2>2
<1>13. /\ walk'.at = walk.at /\ walk'.size = walk.size /\ walk'.room = walk.room
       /\ walk'.key = walk.key /\ walk'.chat = walk.chat
       /\ walk'.sender = walk.sender /\ walk'.text = walk.text
       /\ walk.moved => walk'.moved
       /\ WalkTypeOK' /\ excused \subseteq excused'
  BY <1>1, <1>5 DEF WalkTypeOK
<1>14. /\ \A s : Saved(s)' <=> Saved(s)
       /\ \A id, s : ChatIs(id, s)' <=> ChatIs(id, s)
       /\ \A id, name : MemberIs(id, name)' <=> MemberIs(id, name)
       /\ StoreInv' /\ Incomings' = Incomings
  BY <1>1, <1>2, SameSaved, SameStore
<1>15. MainInv'
  <2>1. OpTypeOK'
    BY <1>1, <1>2 DEF OpTypeOK
  <2>2. pc # "off"
    BY <1>1, <1>7 DEF MainInv, JoinedOK
  <2>3. JoinedOK'
    BY <1>1, <1>2, <1>11, <1>14, <2>2 DEF MainInv, JoinedOK, Written
  <2>4. QED
    BY <1>11, <1>13, <2>1, <2>3 DEF MainInv
<1>16. QueueOK'
  <2>1. \A i \in DOMAIN q :
          /\ Saved(q[i].room)' /\ q[i].text \in Texts'
          /\ q[i].from = Writer(q[i].text)'
    BY <1>1, <1>2, <1>3, <1>14 DEF WalkInv, QueueOK, Texts, Writer
  <2>2. \A i \in DOMAIN items :
          /\ Saved(items[i].room)' /\ items[i].text \in Texts'
          /\ items[i].from = Writer(items[i].text)'
    BY <1>2, <1>7, <1>8, <1>9, <1>14, SMTT(20) DEF Texts, Writer
  <2>3. QED
    BY <1>12, <2>1, <2>2 DEF QueueOK, Writer
<1>17. SendersOK'
  BY <1>1, <1>11, <1>14 DEF WalkInv, SendersOK
<1>18. Walking => walk.at \in DOMAIN q /\ walk.size <= n /\ walk.at \in Nat
                  /\ walk.size \in Nat /\ walk.at <= walk.size
  BY <1>1, <1>3, WalkTypes DEF WalkInv
<1>19. WalkOK'
  <2>1. (Walking <=> pc \in {"find", "sender", "incoming"})'
    BY <1>1, <1>2, <1>13 DEF WalkInv, WalkOK, Walking
  <2>2. CASE ~Walking
    BY <1>1, <1>2, <1>13, <2>1, <2>2 DEF WalkInv, WalkOK, Walking
  <2>3. CASE Walking
    <3>1. mem'.queue[walk.at] = mem.queue[walk.at]
      BY <1>3, <1>12, <1>18, <2>3
    <3>2. (Walking => walk.at <= walk.size /\ walk.size <= Len(mem.queue))'
      BY <1>10, <1>12, <1>13, <1>18, <2>3
    <3>3. (pc = "find" /\ ~walk.moved => walk.room = mem.queue[walk.at].room)'
      BY <1>1, <1>2, <1>13, <3>1 DEF WalkInv, WalkOK
    <3>4. (pc = "sender" =>
             /\ walk.key \in Keys /\ mem.senders[walk.key] = None
             /\ ~walk.moved =>
                  /\ ChatIs(walk.chat, mem.queue[walk.at].room)
                  /\ walk.key[2] = mem.queue[walk.at].from
             /\ Written => MemberIs(op.id, walk.key[2]))'
      BY <1>1, <1>2, <1>11, <1>13, <1>14, <3>1 DEF WalkInv, WalkOK, Written
    <3>5. (/\ pc = "incoming" /\ walk.text # None =>
                /\ walk.text = mem.queue[walk.at].text
                /\ ChatIs(walk.chat, mem.queue[walk.at].room)
                /\ MemberIs(walk.sender, mem.queue[walk.at].from)
           /\ pc = "incoming" /\ ~walk.moved => walk.text # None)'
      BY <1>1, <1>2, <1>13, <1>14, <3>1 DEF WalkInv, WalkOK
    <3>6. QED
      BY <2>1, <3>2, <3>3, <3>4, <3>5 DEF WalkOK
  <2>4. QED
    BY <2>2, <2>3
<1>20. WalkLosesNothing'
  <2>1. SUFFICES ASSUME Walking, NEW j \in DOMAIN mem'.queue
                 PROVE  \/ mem'.queue[j].text \in excused'
                        \/ Stored(mem'.queue[j].text)
                        \/ ToBeWritten(j)'
    BY <1>2, <1>13, <1>14 DEF WalkLosesNothing, Walking, Stored
  <2>2. CASE j \notin DOMAIN q
    <3>1. PICK i \in DOMAIN items : j = n + i
      BY <1>12, <2>2
    <3>2. mem'.queue[j].text \in TextsOf(items)
      BY <1>12, <3>1 DEF TextsOf
    <3>3. QED
      BY <1>5, <2>1, <3>2
  <2>3. CASE j \in DOMAIN q
    <3>1. mem'.queue[j] = q[j] /\ j \in Nat
      BY <1>10, <1>12, <2>3
    <3>2. q[j].text \in excused \/ Stored(q[j].text) \/ ToBeWritten(j)
      BY <1>1, <1>3, <2>1, <2>3 DEF WalkInv, WalkLosesNothing
    <3>3. CASE walk' = walk
      <4>1. ToBeWritten(j) => ToBeWritten(j)'
        BY <1>2, <1>3, <3>1, <3>3 DEF ToBeWritten, Written
      <4>2. QED
        BY <1>13, <3>1, <3>2, <4>1
    <3>4. CASE walk' # walk /\ ToBeWritten(j)
      <4>1. ~walk.moved /\ excused' = excused \cup TextsOf(items) \cup Unread
        BY <1>5, <3>4
      <4>2. CASE j = walk.at /\ pc = "incoming"
        <5>1. walk.text = q[j].text /\ ~Written
          <6>1. walk.text = mem.queue[walk.at].text
            BY <1>1, <4>1, <4>2 DEF WalkInv, WalkOK
          <6>2. ~(j > walk.at)
            BY <1>18, <2>1, <4>2
          <6>3. QED
            BY <1>3, <3>4, <4>2, <6>1, <6>2 DEF ToBeWritten
        <5>2. QED
          BY <1>2, <1>13, <3>1, <4>2, <5>1 DEF ToBeWritten, Written
      <4>3. CASE ~(j = walk.at /\ pc = "incoming")
        <5>1. /\ j \in walk.at..walk.size
              /\ pc = "incoming" => j \in (walk.at + 1)..walk.size
          BY <1>1, <1>18, <2>1, <3>1, <3>4, <4>3 DEF ToBeWritten, WalkInv, WalkOK
        <5>2. q[j].text \in Unread
          BY <1>3, <5>1 DEF Unread
        <5>3. QED
          BY <3>1, <4>1, <5>2
      <4>4. QED
        BY <4>2, <4>3
    <3>5. QED
      BY <1>13, <3>1, <3>2, <3>3, <3>4
  <2>4. QED
    BY <2>2, <2>3
<1>21. NothingSlips'
  <2>1. SUFFICES ASSUME NEW s \in Rooms, NEW i \in 1..rooms'[s].cursor
                 PROVE  LET t == rooms[s].log[i].text
                        IN  \/ t \in excused'
                            \/ \E j \in DOMAIN mem'.queue : mem'.queue[j].text = t
                            \/ \E j \in Incomings : store.messages[j].text = t
    BY <1>2, <1>6, <1>14 DEF NothingSlips
  <2>2. CASE i \in 1..rooms[s].cursor
    <3>1. LET t == rooms[s].log[i].text
          IN  \/ t \in excused
              \/ \E j \in DOMAIN q : q[j].text = t
              \/ \E j \in Incomings : store.messages[j].text = t
      BY <1>1, <1>3, <2>2 DEF WalkInv, NothingSlips
    <3>2. QED
      BY <1>12, <1>13, <3>1
  <2>3. CASE i \notin 1..rooms[s].cursor
    <3>1. /\ s = r /\ rooms[r].session = "now"
          /\ i \in (rooms[r].cursor + 1)..m
      <4>1. rooms[s].cursor \in Nat
        BY <1>1, RoomTypes
      <4>2. QED
        BY <1>6, <1>7, <2>1, <2>3, <4>1
    <3>2. i \in Seqs(1)
      BY <1>1, <1>4, <3>1, NothingSkipped
    <3>3. PICK k \in DOMAIN e.messages : e.messages[k].seq = i
      BY <1>4, <3>2 DEF First
    <3>4. mem'.queue[n + k].text = rooms[r].log[i].text /\ n + k \in DOMAIN mem'.queue
      BY <1>8, <1>9, <1>12, <3>3
    <3>5. QED
      BY <3>1, <3>4
  <2>4. QED
    BY <2>2, <2>3
\* The order.
<1>22. \A s \in Rooms : \A t : Acked(s, t) => Acked(s, t)'
  <2>1. SUFFICES ASSUME NEW s \in Rooms, NEW t, Acked(s, t)
                 PROVE  Acked(s, t)'
    OBVIOUS
  <2>2. PICK k \in 1..rooms[s].cursor : rooms[s].log[k].text = t
    BY <2>1 DEF Acked
  <2>3. k \in 1..rooms'[s].cursor
    <3>1. rooms[s].cursor \in Nat
      BY <1>1, RoomTypes
    <3>2. rooms'[s].cursor >= rooms[s].cursor /\ rooms'[s].cursor \in Nat
      <4>1. CASE s = r
        BY <1>6, <1>7, <4>1
      <4>2. CASE s # r
        BY <1>6, <3>1, <4>2
      <4>3. QED
        BY <4>1, <4>2
    <3>3. QED
      BY <3>1, <3>2
  <2>4. QED
    BY <1>6, <2>2, <2>3 DEF Acked
<1>23. breaks = 0 =>
         /\ \A i \in DOMAIN items : Acked(r, items[i].text)'
         /\ \A t, i : Acked(r, t) /\ i \in DOMAIN items => t < items[i].text
         /\ \A i, j \in DOMAIN items : i < j => items[i].text < items[j].text
  <2>1. SUFFICES ASSUME breaks = 0
                 PROVE  /\ \A i \in DOMAIN items : Acked(r, items[i].text)'
                        /\ \A t, i : Acked(r, t) /\ i \in DOMAIN items =>
                             t < items[i].text
                        /\ \A i, j \in DOMAIN items : i < j =>
                             items[i].text < items[j].text
    OBVIOUS
  <2>2. rooms[r].session = "now"
    BY <1>1, <1>2, <1>7, <2>1 DEF SessionsOK, WorldTypeOK
  <2>3. \A k \in Seqs(1) : k > rooms[r].cursor
    BY <1>1, <1>4, <2>2, NothingSkipped
  <2>4. \A i, j \in DOMAIN rooms[r].log :
          i < j => rooms[r].log[i].text < rooms[r].log[j].text
    BY <1>1, <1>7 DEF LogsOK
  <2>5. \A i \in DOMAIN items : Acked(r, items[i].text)'
    <3>1. ASSUME NEW i \in DOMAIN items
          PROVE  Acked(r, items[i].text)'
      <4>1. PICK k, t : k = e.messages[i].seq /\ t = items[i].text
        OBVIOUS
      <4>2. k \in Nat /\ k > rooms[r].cursor /\ k <= m /\ rooms[r].log[k].text = t
        BY <1>8, <1>9, <2>3, <4>1
      <4>3. k \in 1..rooms'[r].cursor /\ rooms'[r].log[k].text = t
        BY <1>6, <1>7, <2>2, <4>2
      <4>4. Acked(r, t)'
        BY <4>3 DEF Acked
      <4>5. QED
        BY <4>1, <4>4
    <3>2. QED
      BY <3>1
  <2>6. ASSUME NEW t, NEW i, Acked(r, t), i \in DOMAIN items
        PROVE  t < items[i].text
    <3>1. PICK k \in 1..rooms[r].cursor : rooms[r].log[k].text = t
      BY <2>6 DEF Acked
    <3>2. k \in DOMAIN rooms[r].log
      BY <1>1, <1>7, <3>1, RoomTypes DEF LogsOK
    <3>3. PICK l : l = e.messages[i].seq
      OBVIOUS
    <3>4. k < l /\ l \in DOMAIN rooms[r].log /\ items[i].text = rooms[r].log[l].text
      BY SMTT(20), <1>7, <1>8, <1>9, <2>3, <2>6, <3>1, <3>3
    <3>5. QED
      BY <2>4, <3>1, <3>2, <3>4
  <2>7. \A i, j \in DOMAIN items : i < j => items[i].text < items[j].text
    <3>1. FromLog(e)
      BY <1>1, <1>7 DEF InboxOK
    <3>2. \A i, j \in DOMAIN items : i < j => e.messages[i].seq < e.messages[j].seq
      BY <1>9, <3>1 DEF FromLog
    <3>3. SUFFICES ASSUME NEW i \in DOMAIN items, NEW j \in DOMAIN items, i < j
                   PROVE  items[i].text < items[j].text
      OBVIOUS
    <3>4. PICK k, l : k = e.messages[i].seq /\ l = e.messages[j].seq
      OBVIOUS
    <3>5. /\ k \in DOMAIN rooms[r].log /\ l \in DOMAIN rooms[r].log /\ k < l
          /\ items[i].text = rooms[r].log[k].text
          /\ items[j].text = rooms[r].log[l].text
      BY <1>8, <1>9, <3>2, <3>3, <3>4
    <3>6. QED
      BY <2>4, <3>5
  <2>8. QED
    BY <2>5, <2>6, <2>7
<1>24. QueueInOrder'
  <2>1. SUFFICES ASSUME breaks = 0
                 PROVE  /\ \A i \in DOMAIN mem'.queue :
                             Acked(mem.queue[i].room, mem.queue[i].text)'
                        /\ \A i, j \in DOMAIN mem'.queue :
                             i < j /\ mem'.queue[i].room = mem'.queue[j].room =>
                               mem'.queue[i].text < mem'.queue[j].text
    BY <1>2 DEF QueueInOrder
  <2>2. \A i \in DOMAIN q : Acked(q[i].room, q[i].text)
    BY <1>1, <1>3, <2>1 DEF OrderInv, QueueInOrder
  <2>3. \A i \in DOMAIN q : Acked(q[i].room, q[i].text)'
    BY <1>10, <1>22, <2>2
  <2>4. \A i \in DOMAIN mem'.queue : Acked(mem.queue[i].room, mem.queue[i].text)'
    <3>1. SUFFICES ASSUME NEW i \in DOMAIN mem'.queue
                   PROVE  Acked(mem.queue[i].room, mem.queue[i].text)'
      OBVIOUS
    <3>2. PICK s, t : s = mem'.queue[i].room /\ t = mem'.queue[i].text
      OBVIOUS
    <3>3. Acked(s, t)'
      <4>1. CASE i \in DOMAIN q
        BY <1>12, <2>3, <3>2, <4>1
      <4>2. CASE i \notin DOMAIN q
        <5>1. PICK h \in DOMAIN items : i = n + h
          BY <1>12, <3>1, <4>2
        <5>2. s = r /\ t = items[h].text
          BY <1>9, <1>12, <3>2, <5>1
        <5>3. QED
          BY <1>23, <2>1, <5>2
      <4>3. QED
        BY <4>1, <4>2
    <3>4. QED
      BY <3>2, <3>3
  <2>5. ASSUME NEW i \in DOMAIN mem'.queue, NEW j \in DOMAIN mem'.queue, i < j,
               mem'.queue[i].room = mem'.queue[j].room
        PROVE  mem'.queue[i].text < mem'.queue[j].text
    <3>1. CASE i \in DOMAIN q /\ j \in DOMAIN q
      <4>1. mem'.queue[i] = mem.queue[i] /\ mem'.queue[j] = mem.queue[j]
        BY <1>3, <1>12, <3>1
      <4>2. QED
        BY <1>1, <1>3, <2>1, <2>5, <3>1, <4>1 DEF OrderInv, QueueInOrder
    <3>2. CASE i \in DOMAIN q /\ j \notin DOMAIN q
      <4>1. PICK h \in DOMAIN items : j = n + h
        BY <1>12, <3>2
      <4>2. mem'.queue[j] = items[h] /\ items[h].room = r /\ mem'.queue[i] = q[i]
        BY <1>9, <1>12, <3>2, <4>1
      <4>3. Acked(r, q[i].text)
        BY <2>2, <2>5, <3>2, <4>2
      <4>4. QED
        BY <1>23, <2>1, <4>2, <4>3
    <3>3. CASE i \notin DOMAIN q
      <4>1. PICK g \in DOMAIN items : i = n + g
        BY <1>12, <3>3
      <4>2. j \notin DOMAIN q
        BY <1>10, <1>12, <2>5, <4>1
      <4>3. PICK h \in DOMAIN items : j = n + h
        BY <1>12, <4>2
      <4>4. g < h /\ mem'.queue[i] = items[g] /\ mem'.queue[j] = items[h]
        BY <1>10, <1>12, <2>5, <4>1, <4>3
      <4>5. QED
        BY <1>23, <2>1, <4>4
    <3>4. QED
      BY <3>1, <3>2, <3>3
  <2>6. QED
    BY <2>4, <2>5
<1>25. StoredOK'
  <2>1. SUFFICES ASSUME NEW i \in Incomings, NEW c, c = store.messages[i].chat,
                        NEW s, s = store.messages[i].sender,
                        NEW t, t = store.messages[i].text
                 PROVE  \E a \in Rooms :
                          /\ ChatIs(c, a) /\ t \in Texts /\ MemberIs(s, Writer(t))
                          /\ breaks = 0 =>
                               /\ Acked(a, t)'
                               /\ \A j \in DOMAIN mem'.queue :
                                    mem'.queue[j].room = a /\ ~Passed(j)' =>
                                      t < mem'.queue[j].text
    <3>1. Texts' = Texts /\ \A x : Writer(x)' = Writer(x)
      BY <1>2 DEF Texts, Writer
    <3>2. \A x, y : MemberIs(x, Writer(y))' <=> MemberIs(x, Writer(y))
      BY <1>2, <3>1 DEF MemberIs, HasMember
    <3>3. QED
      BY <1>2, <1>14, <3>1, <3>2 DEF StoredOK
  <2>2. PICK a \in Rooms :
          /\ ChatIs(c, a) /\ t \in Texts /\ MemberIs(s, Writer(t))
          /\ breaks = 0 =>
               /\ Acked(a, t)
               /\ \A j \in DOMAIN q : q[j].room = a /\ ~Passed(j) => t < q[j].text
    BY <1>1, <1>3, <2>1 DEF OrderInv, StoredOK
  <2>3. \A j : Passed(j) => Passed(j)'
    BY <1>2, <1>13 DEF Passed, Walking, Written
  <2>4. ASSUME breaks = 0, NEW j \in DOMAIN mem'.queue, mem'.queue[j].room = a,
               ~Passed(j)'
        PROVE  t < mem'.queue[j].text
    <3>1. CASE j \in DOMAIN q
      BY <1>12, <2>2, <2>3, <2>4, <3>1
    <3>2. CASE j \notin DOMAIN q
      <4>1. PICK h \in DOMAIN items : j = n + h
        BY <1>12, <2>4, <3>2
      <4>2. mem'.queue[j] = items[h] /\ a = r
        BY <1>9, <1>12, <2>4, <4>1
      <4>3. QED
        BY <1>23, <2>2, <2>4, <4>2
    <3>3. QED
      BY <3>1, <3>2
  <2>5. QED
    BY <1>22, <2>2, <2>4
<1>26. StoredInSequence'
  BY <1>1, <1>2, <1>14 DEF OrderInv, StoredInSequence, RoomOf
<1>27. FewMembers'
  <2>1. \A p \in Writers : MembersOf(p)' = MembersOf(p)
    BY <1>2 DEF MembersOf
  <2>2. \A p \in Writers : Met(p) \subseteq Met(p)'
    BY <1>2, <1>11, <1>13, MetKept DEF Written
  <2>3. QED
    BY <1>1, <1>2, <2>1, <2>2, FewKept
<1>28. QED
  BY <1>6, <1>14, <1>15, <1>16, <1>17, <1>19, <1>20, <1>21, <1>24, <1>25, <1>26,
     <1>27
  DEF ConsoleInv, WalkInv, OrderInv

(***************************************************************************)
(* Connected: the rooms of the controller are joined again.                *)
(***************************************************************************)
LEMMA OnConnectedKeeps ==
  ASSUME ConsoleInv, OnConnected,
         UNCHANGED <<store, nextId, pc, op, author, boundVars>>
  PROVE  ConsoleInv'
<1>1. /\ StoreInv /\ WorldInv /\ MainInv /\ WalkInv /\ MemTypeOK /\ OpTypeOK
      /\ WalkTypeOK /\ JoinedOK
  BY DEF ConsoleInv, MainInv
<1>2. /\ store' = store /\ nextId' = nextId /\ pc' = pc /\ op' = op
      /\ author' = author /\ ends' = ends /\ breaks' = breaks
      /\ walk' = walk /\ excused' = excused
      /\ link = "connecting" /\ link' = "up"
      /\ mem' = [mem EXCEPT !.connected = TRUE] /\ ServeJoins(mem.joined)
  BY DEF boundVars, OnConnected
<1>3. WorldInv' /\ LogsKeep
  <2>1. mem.joined \subseteq Rooms /\ \A r \in mem.joined : Saved(r)
    BY <1>1, MemTypes DEF JoinedOK
  <2>2. QED
    BY <1>1, <1>2, <2>1, JoinsServed
<1>4. /\ MemTypeOK' /\ mem'.queue = mem.queue /\ mem'.senders = mem.senders
      /\ mem'.joined = mem.joined /\ mem'.todo = mem.todo /\ mem'.room = mem.room
  BY <1>1, <1>2 DEF MemTypeOK, MemType
<1>5. JoinedOK'
  BY <1>1, <1>2, <1>4, SameSaved DEF JoinedOK, Written
<1>6. OpTypeOK' /\ WalkTypeOK'
  BY <1>1, <1>2 DEF OpTypeOK, WalkTypeOK
<1>7. StoreGrows
  BY <1>1, <1>2, SameStore
<1>8. /\ SendersOK' /\ WalkOK' /\ WalkLosesNothing'
      /\ \A j \in Nat : Passed(j) => Passed(j)'
  BY <1>1, <1>2, <1>4, <1>7, WalkKept DEF WalkInv, Written
<1>9. \A p \in Writers : Met(p) \subseteq Met(p)'
  BY <1>2, <1>4, MetKept DEF Written
<1>10. MainFrame /\ MainNext
  BY <1>2, <1>4, <1>5, <1>6, <1>8, <1>9 DEF MainFrame, MainNext
<1>11. QED
  BY <1>3, <1>10, MainKeeps

(***************************************************************************)
(* The loss of a connection is noticed, with what was under way.           *)
(***************************************************************************)
LEMMA OnDisconnectedKeeps ==
  ASSUME ConsoleInv, OnDisconnected,
         UNCHANGED <<store, nextId, pc, op, author, boundVars>>
  PROVE  ConsoleInv'
<1>1. /\ store' = store /\ nextId' = nextId /\ pc' = pc /\ op' = op
      /\ author' = author /\ ends' = ends /\ breaks' = breaks
      /\ walk' = walk /\ excused' = excused /\ mem' = mem /\ rooms' = rooms
      /\ link = "broken" /\ link' = "connecting" /\ inbox' = <<>>
  BY DEF boundVars, OnDisconnected
<1>2. /\ StoreInv /\ WorldInv /\ ends \in Nat /\ breaks \in Nat
      /\ rooms \in [Rooms -> [log : Seq(LogRows),
                              session : {"none", "now", "old"}, cursor : Nat]]
  BY DEF ConsoleInv, WorldInv, WorldTypeOK
<1>3. \A r \in Rooms : rooms[r].session # "now"
  BY <1>1, <1>2 DEF WorldInv, SessionsOK
<1>4. WorldInv' /\ LogsKeep
  BY <1>1, <1>2, <1>3, SessionsEnd
<1>5. QED
  BY <1>1, <1>4, OutsideKeeps

(***************************************************************************)
(* What the main thread pumps.                                             *)
(***************************************************************************)
LEMMA PumpKeeps ==
  ASSUME ConsoleInv, Pump
  PROVE  ConsoleInv'
BY OnMessagesKeeps, OnConnectedKeeps, OnDisconnectedKeeps DEF Pump

-----------------------------------------------------------------------------
(* The program ends and starts again.                                      *)

(***************************************************************************)
(* What a new program has in memory.                                       *)
(***************************************************************************)
LEMMA EmptyMemIs ==
  /\ EmptyMem \in MemType /\ EmptyMem.queue = <<>> /\ EmptyMem.todo = <<>>
  /\ EmptyMem.joined = {} /\ \A k \in Keys : EmptyMem.senders[k] = None
<1>1. <<>> \in Seq(ChatRows) /\ <<>> \in Seq(Items)
  OBVIOUS
<1>2. QED
  BY <1>1 DEF EmptyMem, MemType, Id

(***************************************************************************)
(* The program ends: what is in incomingQueue is excused.                  *)
(***************************************************************************)
LEMMA EndKeeps ==
  ASSUME ConsoleInv, End
  PROVE  ConsoleInv'
<1>1. /\ ends' = ends + 1 /\ excused' = excused \cup TextsOf(mem.queue)
      /\ mem' = EmptyMem /\ walk' = NoWalk /\ Goto("off")
      /\ link' = "none" /\ rooms' = Offline /\ inbox' = <<>>
      /\ store' = store /\ nextId' = nextId /\ author' = author
      /\ breaks' = breaks
  BY DEF End
<1>2. /\ StoreInv /\ WorldInv /\ MainInv /\ WalkInv /\ OrderInv /\ FewMembers
      /\ StoreTypeOK /\ WorldTypeOK /\ ends \in Nat /\ breaks \in Nat
  BY DEF ConsoleInv, StoreInv, WorldInv, WorldTypeOK
<1>3. WorldInv' /\ LogsKeep
  BY <1>1, <1>2, OfflineIs, SessionsEnd
<1>4. StoreInv' /\ StoreGrows /\ Incomings' = Incomings
  BY <1>1, <1>2, SameStore
<1>5. pc' = "off" /\ OpTypeOK' /\ ~Written'
  BY <1>1, Goes
<1>6. /\ MemTypeOK' /\ mem'.queue = <<>> /\ mem'.todo = <<>> /\ mem'.joined = {}
      /\ \A k \in Keys : mem'.senders[k] = None
      /\ DOMAIN mem'.queue = {} /\ DOMAIN mem'.todo = {}
  <2>1. DOMAIN <<>> = {}
    OBVIOUS
  <2>2. QED
    BY <1>1, <2>1, EmptyMemIs DEF MemTypeOK
<1>7. WalkTypeOK' /\ ~Walking'
  BY <1>1 DEF NoWalk, WalkTypeOK, Id, Walking
<1>8. MainInv'
  BY <1>1, <1>5, <1>6, <1>7 DEF MainInv, JoinedOK
<1>9. QueueOK' /\ SendersOK' /\ WalkOK' /\ WalkLosesNothing'
  BY <1>5, <1>6, <1>7 DEF QueueOK, SendersOK, WalkOK, WalkLosesNothing
<1>10. NothingSlips'
  <2>1. ASSUME NEW r \in Rooms, NEW i \in 1..rooms'[r].cursor
        PROVE  LET n == rooms'[r].log[i].text
               IN  n \in excused' \/ \E j \in Incomings : store.messages[j].text = n
    <3>1. i \in 1..rooms[r].cursor /\ rooms'[r].log[i] = rooms[r].log[i]
      <4>1. rooms[r].cursor \in Nat /\ rooms[r].cursor <= Len(rooms[r].log)
        BY <1>2, RoomTypes DEF WorldInv, LogsOK
      <4>2. i \in DOMAIN rooms[r].log
        BY <1>2, <1>3, <2>1, <4>1, RoomTypes DEF LogsKeep
      <4>3. QED
        BY <1>3, <2>1, <4>2 DEF LogsKeep
    <3>2. QED
      BY <1>1, <1>2, <3>1 DEF WalkInv, NothingSlips, TextsOf
  <2>2. QED
    BY <1>1, <1>4, <2>1 DEF NothingSlips
<1>11. StoredOK'
  <2>1. \A r \in Rooms : \A n : Acked(r, n) => Acked(r, n)'
    BY <1>2, <1>3, AckedKept
  <2>2. /\ \A id, r : ChatIs(id, r)' <=> ChatIs(id, r)
        /\ \A id, n : MemberIs(id, Writer(n))' <=> MemberIs(id, Writer(n))
    BY <1>1, SameSaved DEF MemberIs, HasMember, Writer
  <2>3. QED
    BY <1>1, <1>2, <1>4, <1>6, <2>1, <2>2 DEF OrderInv, StoredOK, Texts
<1>12. QueueInOrder' /\ StoredInSequence'
  BY <1>1, <1>2, <1>4, <1>6 DEF QueueInOrder, OrderInv, StoredInSequence, RoomOf
<1>13. FewMembers'
  <2>1. SUFFICES ASSUME NEW p \in Writers
                 PROVE  Cardinality(MembersOf(p))
                          <= (ends + 1) * Cardinality(Rooms) + Cardinality(Met(p)')
    BY <1>1 DEF FewMembers, MembersOf
  <2>2. Met(p)' = {}
    <3>1. \A r \in Rooms : <<r, p>> \in Keys
      BY <2>1 DEF Keys, Writers
    <3>2. QED
      BY <1>5, <1>6, <3>1 DEF Met
  <2>3. Cardinality(Met(p)') = 0
    BY <2>2, FS_EmptySet
  <2>4. PICK b, c, n : /\ b = Cardinality(MembersOf(p)) /\ c = Cardinality(Met(p))
                       /\ n = Cardinality(Rooms)
    OBVIOUS
  <2>5. b \in Nat /\ c \in Nat /\ n \in Nat /\ c <= n /\ b <= ends * n + c
    BY <1>2, <2>1, <2>4, FewFinite DEF FewMembers
  <2>6. (ends + 1) * n = ends * n + n /\ ends * n \in Nat
    BY <1>2, <2>5
  <2>7. QED
    BY <2>3, <2>4, <2>5, <2>6
<1>14. QED
  BY <1>3, <1>4, <1>8, <1>9, <1>10, <1>11, <1>12, <1>13
  DEF ConsoleInv, WalkInv, OrderInv

(***************************************************************************)
(* It starts with nothing in memory.                                       *)
(***************************************************************************)
LEMMA StartKeeps ==
  ASSUME ConsoleInv, Start
  PROVE  ConsoleInv'
<1>1. PICK given \in BOOLEAN : mem' = [EmptyMem EXCEPT !.given = given]
  BY DEF Start
<1>2. /\ pc = "off" /\ link' = "connecting" /\ Goto("connect")
      /\ store' = store /\ nextId' = nextId /\ walk' = walk
      /\ rooms' = rooms /\ inbox' = inbox /\ author' = author
      /\ excused' = excused /\ ends' = ends /\ breaks' = breaks
  BY DEF Start, worldVars, boundVars
<1>3. /\ StoreInv /\ WorldInv /\ WorldTypeOK /\ MainInv /\ WalkInv /\ WalkTypeOK
      /\ mem = EmptyMem /\ link = "none"
  BY <1>2 DEF ConsoleInv, WorldInv, MainInv, JoinedOK
<1>4. WorldInv' /\ LogsKeep
  <2>1. /\ inbox = <<>> /\ DOMAIN <<>> = {}
        /\ \A r \in Rooms : rooms[r].session # "now"
    BY <1>3 DEF WorldInv, SessionsOK
  <2>2. /\ ends \in Nat /\ breaks \in Nat
        /\ rooms \in [Rooms -> [log : Seq(LogRows),
                                session : {"none", "now", "old"}, cursor : Nat]]
    BY <1>3 DEF WorldTypeOK
  <2>3. QED
    BY <1>2, <1>3, <2>1, <2>2, SessionsEnd
<1>5. pc' = "connect" /\ OpTypeOK' /\ ~Written'
  BY <1>2, Goes
<1>6. /\ MemTypeOK' /\ mem'.queue = mem.queue /\ mem'.senders = mem.senders
      /\ mem'.todo = <<>> /\ mem'.joined = {} /\ DOMAIN mem'.todo = {}
  <2>1. DOMAIN <<>> = {}
    OBVIOUS
  <2>2. QED
    BY <1>1, <1>3, <2>1, EmptyMemIs DEF MemTypeOK, MemType
<1>7. JoinedOK' /\ WalkTypeOK'
  BY <1>2, <1>3, <1>5, <1>6 DEF JoinedOK, WalkTypeOK
<1>8. NotWalking /\ NotWalking'
  BY <1>2, <1>3, <1>5 DEF WalkInv, WalkOK, NotWalking, Walking
<1>9. StoreGrows
  BY <1>2, <1>3, SameStore
<1>10. /\ SendersOK' /\ WalkOK' /\ WalkLosesNothing'
       /\ \A j \in Nat : Passed(j) => Passed(j)'
  BY <1>3, <1>6, <1>8, <1>9, NoWalkKept DEF WalkInv
<1>11. \A p \in Writers : Met(p) \subseteq Met(p)'
  BY <1>2, <1>6, MetKept
<1>12. MainFrame /\ MainNext
  BY <1>2, <1>5, <1>6, <1>7, <1>10, <1>11 DEF MainFrame, MainNext
<1>13. QED
  BY <1>4, <1>12, MainKeeps

-----------------------------------------------------------------------------
(* The main thread outside a walk.                                         *)

\* main()'s state m has the queue and the members there were, and the rooms
\* it knows are in the database.
FromMem(m) ==
  /\ m \in MemType /\ m.queue = mem.queue /\ m.senders = mem.senders
  /\ \A r \in m.joined : Saved(r)
  /\ \A i \in DOMAIN m.todo : Saved(m.todo[i].room)

\* A place outside a walk, with what main()'s state is there.
MayBeAt(place, m) ==
  /\ place \notin {"find", "sender", "incoming", "off"}
  /\ place \in {"rejoin", "rejoin self"} => m.todo # <<>>
  /\ place \in {"rejoin self", "join self", "send self", "settle to send",
                "text", "outgoing"} => m.room \in Rooms /\ Saved(m.room)
  /\ place = "chat" => m.room \in Rooms

\* A step of the main thread outside a walk.
MainAlone ==
  /\ ConsoleInv /\ NotWalking
  /\ store' = store /\ nextId' = nextId /\ excused' = excused
  /\ ends' = ends /\ breaks' = breaks
  /\ WorldInv' /\ LogsKeep

(***************************************************************************)
(* Where the main thread is says whether it walks.                         *)
(***************************************************************************)
LEMMA NoWalkAt ==
  ASSUME ConsoleInv, pc \notin {"find", "sender", "incoming"}
  PROVE  /\ NotWalking
         /\ FromMem(mem) /\ mem \in MemType /\ JoinedOK /\ StoreInv /\ WorldInv
BY DEF ConsoleInv, WalkInv, WalkOK, NotWalking, FromMem, MainInv, JoinedOK, MemTypeOK

(***************************************************************************)
(* It goes on to flushIncoming.                                            *)
(***************************************************************************)
LEMMA ThenFlush ==
  ASSUME MainAlone, NEW m, FromMem(m), FlushIncoming(m)
  PROVE  ConsoleInv'
<1>1. /\ StoreInv /\ SendersOK /\ StoreGrows
  BY SameStore DEF MainAlone, ConsoleInv, WalkInv
<1>2. /\ mem' = m /\ MemTypeOK' /\ OpTypeOK' /\ WalkTypeOK'
      /\ pc' \in {"menu", "find"} /\ ~Written'
      /\ SendersOK' /\ WalkOK' /\ WalkLosesNothing'
      /\ \A j \in Nat : Passed(j) => Passed(j)'
  BY <1>1, WalkStarts DEF MainAlone, FromMem
<1>3. JoinedOK'
  BY <1>2, SameSaved DEF MainAlone, FromMem, JoinedOK
<1>4. \A p \in Writers : Met(p) \subseteq Met(p)'
  BY <1>2, MetKept DEF MainAlone, FromMem, NotWalking
<1>5. MainFrame /\ MainNext
  BY <1>2, <1>3, <1>4 DEF MainFrame, MainNext, MainAlone, FromMem
<1>6. QED
  BY <1>5, MainKeeps DEF MainAlone

(***************************************************************************)
(* It goes on to another place outside a walk.                             *)
(***************************************************************************)
LEMMA ThenPlace ==
  ASSUME MainAlone, NEW m, FromMem(m), mem' = m, walk' = walk,
         NEW place, Await(place) \/ Goto(place), MayBeAt(place, m)
  PROVE  ConsoleInv'
<1>1. StoreInv /\ SendersOK /\ StoreGrows /\ WalkTypeOK
  BY SameStore DEF MainAlone, ConsoleInv, WalkInv, MainInv
<1>2. pc' = place /\ OpTypeOK' /\ ~Written'
  BY Awaits, Goes
<1>3. MemTypeOK' /\ WalkTypeOK'
  BY <1>1 DEF FromMem, MemTypeOK, WalkTypeOK
<1>4. NotWalking'
  BY <1>2 DEF MainAlone, NotWalking, Walking, MayBeAt
<1>5. /\ SendersOK' /\ WalkOK' /\ WalkLosesNothing'
      /\ \A j \in Nat : Passed(j) => Passed(j)'
  BY <1>1, <1>4, NoWalkKept DEF MainAlone, FromMem
<1>6. JoinedOK'
  BY <1>2, SameSaved DEF MainAlone, FromMem, JoinedOK, MayBeAt
<1>7. \A p \in Writers : Met(p) \subseteq Met(p)'
  BY MetKept DEF MainAlone, FromMem, NotWalking
<1>8. MainFrame /\ MainNext
  BY <1>2, <1>3, <1>5, <1>6, <1>7 DEF MainFrame, MainNext, MainAlone, FromMem
<1>9. QED
  BY <1>8, MainKeeps DEF MainAlone

(***************************************************************************)
(* The saved chats are joined again one after another.                     *)
(***************************************************************************)
LEMMA ThenRejoin ==
  ASSUME MainAlone, NEW m, FromMem(m), m.todo # <<>>, AfterRejoin(m), walk' = walk
  PROVE  ConsoleInv'
<1>1. PICK n : n = [m EXCEPT !.todo = Tail(@), !.room = None]
  OBVIOUS
<1>2. /\ mem' = n /\ Goto(IF Len(m.todo) = 1 THEN "settle" ELSE "rejoin")
      /\ n = [m EXCEPT !.todo = Tail(m.todo), !.room = None]
  BY <1>1 DEF AfterRejoin
<1>3. m.todo \in Seq(ChatRows) /\ Len(m.todo) \in Nat
  BY DEF FromMem, MemType
<1>4. /\ Tail(m.todo) \in Seq(ChatRows) /\ Len(Tail(m.todo)) = Len(m.todo) - 1
      /\ \A i \in DOMAIN Tail(m.todo) :
           i + 1 \in DOMAIN m.todo /\ Tail(m.todo)[i] = m.todo[i + 1]
  BY <1>3, TailIs
<1>5. /\ n \in MemType /\ n.queue = m.queue /\ n.senders = m.senders
      /\ n.joined = m.joined /\ n.todo = Tail(m.todo)
  BY <1>2, <1>4 DEF FromMem, MemType
<1>6. FromMem(n)
  BY <1>4, <1>5 DEF FromMem
<1>7. CASE Len(m.todo) = 1
  <2>1. PICK place : place = "settle"
    OBVIOUS
  <2>2. Goto(place) /\ MayBeAt(place, n)
    BY <1>2, <1>7, <2>1 DEF MayBeAt
  <2>3. QED
    BY <1>2, <1>6, <2>2, ThenPlace
<1>8. CASE Len(m.todo) # 1
  <2>1. n.todo # <<>>
    <3>1. Len(m.todo) \in 1..Len(m.todo)
      BY <1>3, TailIs
    <3>2. Len(n.todo) # 0
      BY <1>3, <1>4, <1>5, <1>8, <3>1
    <3>3. Len(<<>>) = 0
      OBVIOUS
    <3>4. QED
      BY <3>2, <3>3
  <2>2. PICK place : place = "rejoin"
    OBVIOUS
  <2>3. Goto(place) /\ MayBeAt(place, n)
    BY <1>2, <1>8, <2>1, <2>2 DEF MayBeAt
  <2>4. QED
    BY <1>2, <1>6, <2>3, ThenPlace
<1>9. QED
  BY <1>7, <1>8

(***************************************************************************)
(* joinChat: the server lets the session in, or is not there.              *)
(***************************************************************************)
LEMMA ChatJoined ==
  ASSUME StoreInv, WorldInv, NEW r \in Rooms, Saved(r), JoinChat(r),
         store' = store, link' = link, author' = author, ends' = ends,
         breaks' = breaks
  PROVE  WorldInv' /\ LogsKeep
<1>1. CASE link = "up"
  BY <1>1, JoinsServed DEF JoinChat
<1>2. CASE link # "up"
  BY <1>2, SameStore, WorldIdle DEF JoinChat, worldVars, StoreGrows
<1>3. QED
  BY <1>1, <1>2

\* What the steps of MainStep and Choose leave alone.
MainBounds ==
  /\ store' = store /\ nextId' = nextId /\ author' = author
  /\ excused' = excused /\ ends' = ends /\ breaks' = breaks /\ link' = link

(***************************************************************************)
(* A step that does not reach the server.                                  *)
(***************************************************************************)
LEMMA AloneAt ==
  ASSUME ConsoleInv, MainBounds, UNCHANGED worldVars,
         pc \notin {"find", "sender", "incoming"}
  PROVE  /\ MainAlone /\ FromMem(mem) /\ mem \in MemType /\ JoinedOK
         /\ StoreInv /\ WorldInv
<1>1. /\ NotWalking /\ FromMem(mem) /\ mem \in MemType /\ JoinedOK
      /\ StoreInv /\ WorldInv
  BY NoWalkAt
<1>2. StoreGrows
  BY <1>1, SameStore DEF MainBounds
<1>3. WorldInv' /\ LogsKeep
  BY <1>1, <1>2, WorldIdle DEF MainBounds, worldVars
<1>4. QED
  BY <1>1, <1>3 DEF MainAlone, MainBounds

(***************************************************************************)
(* A step that joins a room.                                               *)
(***************************************************************************)
LEMMA JoiningAt ==
  ASSUME ConsoleInv, MainBounds, NEW r \in Rooms, Saved(r), JoinChat(r),
         pc \notin {"find", "sender", "incoming"}
  PROVE  /\ MainAlone /\ FromMem(mem) /\ mem \in MemType /\ JoinedOK
         /\ StoreInv /\ WorldInv
<1>1. /\ NotWalking /\ FromMem(mem) /\ mem \in MemType /\ JoinedOK
      /\ StoreInv /\ WorldInv
  BY NoWalkAt
<1>2. WorldInv' /\ LogsKeep
  BY <1>1, ChatJoined DEF MainBounds
<1>3. QED
  BY <1>1, <1>2 DEF MainAlone, MainBounds

(***************************************************************************)
(* The rooms of the saved chats are saved.                                 *)
(***************************************************************************)
LEMMA ChatsSaved ==
  ASSUME StoreTypeOK, NEW i \in DOMAIN store.chats
  PROVE  /\ store.chats[i].room \in Rooms /\ store.chats[i].id \in Nat
         /\ Saved(store.chats[i].room)
<1>1. store.chats[i].room \in Rooms /\ store.chats[i].id \in Nat
  BY RowTypes
<1>2. i \in ChatsOf(store.chats[i].room)
  BY DEF ChatsOf, GetAllChats
<1>3. QED
  BY <1>1, <1>2 DEF Saved

(***************************************************************************)
(* EndOfConnect.                                                           *)
(***************************************************************************)
LEMMA EndOfConnectKeeps ==
  ASSUME ConsoleInv, MainBounds, EndOfConnect
  PROVE  ConsoleInv'
<1>1. pc = "connect" /\ UNCHANGED worldVars
  BY DEF EndOfConnect
<1>2. /\ MainAlone /\ FromMem(mem) /\ mem \in MemType
  BY <1>1, AloneAt
<1>3. CASE mem.connected /\ mem.given
  <2>1. PICK place : place = "saved"
    OBVIOUS
  <2>2. Await(place) /\ mem' = mem /\ walk' = walk
    BY <1>3, <2>1 DEF EndOfConnect
  <2>3. MayBeAt(place, mem)
    BY <2>1 DEF MayBeAt
  <2>4. QED
    BY <1>2, <2>2, <2>3, ThenPlace
<1>4. CASE ~(mem.connected /\ mem.given)
  <2>1. PICK m : m = [mem EXCEPT !.given = FALSE]
    OBVIOUS
  <2>2. FromMem(m)
    BY <1>2, <2>1 DEF FromMem, MemType
  <2>3. FlushIncoming(m)
    BY <1>4, <2>1 DEF EndOfConnect
  <2>4. QED
    BY <1>2, <2>2, <2>3, ThenFlush
<1>5. QED
  BY <1>3, <1>4

(***************************************************************************)
(* ReadSaved.                                                              *)
(***************************************************************************)
LEMMA ReadSavedKeeps ==
  ASSUME ConsoleInv, MainBounds, ReadSaved
  PROVE  ConsoleInv'
<1>1. pc = "saved" /\ UNCHANGED worldVars
  BY DEF ReadSaved, Returned
<1>2. /\ MainAlone /\ FromMem(mem) /\ mem \in MemType /\ StoreTypeOK
  BY <1>1, AloneAt DEF StoreInv
<1>3. PICK m : m = [mem EXCEPT !.todo = GetAllChats(store), !.given = FALSE]
  OBVIOUS
<1>4. IF m.todo = <<>> THEN FlushIncoming(m)
      ELSE mem' = m /\ Goto("rejoin") /\ UNCHANGED walk
  BY <1>3 DEF ReadSaved
<1>5. FromMem(m)
  <2>1. /\ store.chats \in Seq(ChatRows)
        /\ \A i \in DOMAIN store.chats : Saved(store.chats[i].room)
    BY <1>2, StoreTypes, ChatsSaved
  <2>2. /\ m \in MemType /\ m.queue = mem.queue /\ m.senders = mem.senders
        /\ m.joined = mem.joined /\ m.todo = store.chats
    BY <1>2, <1>3, <2>1 DEF MemType, GetAllChats
  <2>3. QED
    BY <1>2, <2>1, <2>2 DEF FromMem
<1>6. CASE m.todo = <<>>
  BY <1>2, <1>4, <1>5, <1>6, ThenFlush
<1>7. CASE m.todo # <<>>
  <2>1. PICK place : place = "rejoin"
    OBVIOUS
  <2>2. Goto(place) /\ mem' = m /\ walk' = walk
    BY <1>4, <1>7, <2>1
  <2>3. MayBeAt(place, m)
    BY <1>7, <2>1 DEF MayBeAt
  <2>4. QED
    BY <1>2, <1>5, <2>2, <2>3, ThenPlace
<1>8. QED
  BY <1>6, <1>7

(***************************************************************************)
(* RejoinNext.                                                             *)
(***************************************************************************)
LEMMA RejoinNextKeeps ==
  ASSUME ConsoleInv, MainBounds, RejoinNext
  PROVE  ConsoleInv'
<1>1. pc = "rejoin"
  BY DEF RejoinNext
<1>2. FromMem(mem) /\ mem \in MemType /\ JoinedOK
  BY <1>1, NoWalkAt
<1>3. PICK r : r = Head(mem.todo).room
  OBVIOUS
<1>4. PICK m : m = [mem EXCEPT !.joined = @ \cup {r}, !.room = r]
  OBVIOUS
<1>5. /\ JoinChat(r) /\ walk' = walk
      /\ IF mem.self[r] = None THEN mem' = m /\ Await("rejoin self")
         ELSE AfterRejoin(m)
  BY <1>3, <1>4 DEF RejoinNext
<1>6. mem.todo # <<>> /\ r \in Rooms /\ Saved(r)
  <2>1. mem.todo # <<>> /\ mem.todo \in Seq(ChatRows)
    BY <1>1, <1>2 DEF JoinedOK, MemType
  <2>2. Head(mem.todo) = mem.todo[1] /\ 1 \in DOMAIN mem.todo
    BY <2>1, TailIs
  <2>3. QED
    BY <1>2, <1>3, <2>1, <2>2, MemTypes DEF FromMem, MemTypeOK
<1>7. MainAlone
  BY <1>1, <1>5, <1>6, JoiningAt
<1>8. FromMem(m) /\ m.todo # <<>> /\ m.room = r
  BY <1>2, <1>4, <1>6 DEF FromMem, MemType
<1>9. CASE mem.self[r] = None
  <2>1. PICK place : place = "rejoin self"
    OBVIOUS
  <2>2. MayBeAt(place, m)
    BY <1>6, <1>8, <2>1 DEF MayBeAt
  <2>3. QED
    BY <1>5, <1>7, <1>8, <1>9, <2>1, <2>2, ThenPlace
<1>10. CASE mem.self[r] # None
  BY <1>5, <1>7, <1>8, <1>10, ThenRejoin
<1>11. QED
  BY <1>9, <1>10

(***************************************************************************)
(* The id that run_and_wait returns is an id.                              *)
(***************************************************************************)
LEMMA ReturnedId ==
  ASSUME ConsoleInv
  PROVE  op.id \in Id
BY DEF ConsoleInv, MainInv, OpTypeOK

(***************************************************************************)
(* RejoinedSelf.                                                           *)
(***************************************************************************)
LEMMA RejoinedSelfKeeps ==
  ASSUME ConsoleInv, MainBounds, RejoinedSelf
  PROVE  ConsoleInv'
<1>1. pc = "rejoin self" /\ UNCHANGED worldVars /\ walk' = walk
  BY DEF RejoinedSelf, Returned
<1>2. MainAlone /\ FromMem(mem) /\ mem \in MemType /\ JoinedOK
  BY <1>1, AloneAt
<1>3. PICK m : m = [mem EXCEPT !.self[mem.room] = op.id]
  OBVIOUS
<1>4. AfterRejoin(m)
  BY <1>3 DEF RejoinedSelf
<1>5. mem.todo # <<>> /\ mem.room \in Rooms
  BY <1>1, <1>2 DEF JoinedOK
<1>6. FromMem(m) /\ m.todo # <<>>
  BY <1>2, <1>3, <1>5, ReturnedId DEF FromMem, MemType
<1>7. QED
  BY <1>1, <1>2, <1>4, <1>6, ThenRejoin

(***************************************************************************)
(* The user's own member has been added to a room, which is joined.        *)
(***************************************************************************)
LEMMA SelfAdded ==
  ASSUME ConsoleInv, pc \in {"join self", "send self"}, NEW m,
         \/ m = [mem EXCEPT !.self[mem.room] = op.id,
                            !.joined = @ \cup {mem.room}]
         \/ m = [mem EXCEPT !.self[mem.room] = op.id,
                            !.joined = @ \cup {mem.room}, !.room = None]
  PROVE  FromMem(m) /\ mem.room \in Rooms /\ Saved(mem.room)
<1>1. FromMem(mem) /\ mem \in MemType /\ JoinedOK
  BY NoWalkAt
<1>2. mem.room \in Rooms /\ Saved(mem.room)
  BY <1>1 DEF JoinedOK
<1>3. PICK r, self : r = mem.room /\ self = [mem.self EXCEPT ![r] = op.id]
  OBVIOUS
<1>4. self \in [Rooms -> Id]
  BY <1>1, <1>3, ReturnedId DEF MemType
<1>5. \/ m = [mem EXCEPT !.self = self, !.joined = mem.joined \cup {r}]
      \/ m = [mem EXCEPT !.self = self, !.joined = mem.joined \cup {r},
                         !.room = None]
  BY <1>3
<1>6. /\ m \in MemType /\ m.queue = mem.queue /\ m.senders = mem.senders
      /\ m.joined = mem.joined \cup {r} /\ m.todo = mem.todo
  <2>1. r \in Rooms
    BY <1>2, <1>3
  <2>2. CASE m = [mem EXCEPT !.self = self, !.joined = mem.joined \cup {r}]
    BY <1>1, <1>4, <2>1, <2>2 DEF MemType
  <2>3. CASE m = [mem EXCEPT !.self = self, !.joined = mem.joined \cup {r},
                             !.room = None]
    BY <1>1, <1>4, <2>1, <2>3 DEF MemType
  <2>4. QED
    BY <1>5, <2>2, <2>3
<1>7. FromMem(m)
  BY <1>1, <1>2, <1>3, <1>6 DEF FromMem
<1>8. QED
  BY <1>2, <1>7

(***************************************************************************)
(* AddedSelf.                                                              *)
(***************************************************************************)
LEMMA AddedSelfKeeps ==
  ASSUME ConsoleInv, MainBounds, AddedSelf
  PROVE  ConsoleInv'
<1>1. /\ pc = "join self" /\ JoinChat(mem.room) /\ Goto("settle") /\ walk' = walk
      /\ mem' = [mem EXCEPT !.self[mem.room] = op.id,
                            !.joined = @ \cup {mem.room}, !.room = None]
  BY DEF AddedSelf, Returned
<1>2. PICK m : m = mem'
  OBVIOUS
<1>3. FromMem(m) /\ mem.room \in Rooms /\ Saved(mem.room)
  BY <1>1, <1>2, SelfAdded
<1>4. MainAlone
  BY <1>1, <1>3, JoiningAt
<1>5. PICK place : place = "settle"
  OBVIOUS
<1>6. MayBeAt(place, m)
  BY <1>5 DEF MayBeAt
<1>7. QED
  BY <1>1, <1>2, <1>3, <1>4, <1>5, <1>6, ThenPlace

(***************************************************************************)
(* AddedSelfToSend.                                                        *)
(***************************************************************************)
LEMMA AddedSelfToSendKeeps ==
  ASSUME ConsoleInv, MainBounds, AddedSelfToSend
  PROVE  ConsoleInv'
<1>1. /\ pc = "send self" /\ JoinChat(mem.room) /\ Goto("settle to send")
      /\ walk' = walk
      /\ mem' = [mem EXCEPT !.self[mem.room] = op.id,
                            !.joined = @ \cup {mem.room}]
  BY DEF AddedSelfToSend, Returned
<1>2. PICK m : m = mem'
  OBVIOUS
<1>3. FromMem(m) /\ mem.room \in Rooms /\ Saved(mem.room)
  BY <1>1, <1>2, SelfAdded
<1>4. MainAlone
  BY <1>1, <1>3, JoiningAt
<1>5. m.room = mem.room
  <2>1. mem \in MemType
    BY <1>1, NoWalkAt
  <2>2. QED
    BY <1>1, <1>2, <2>1 DEF MemType
<1>6. PICK place : place = "settle to send"
  OBVIOUS
<1>7. MayBeAt(place, m)
  BY <1>3, <1>5, <1>6 DEF MayBeAt
<1>8. QED
  BY <1>1, <1>2, <1>3, <1>4, <1>6, <1>7, ThenPlace

(***************************************************************************)
(* SelectChat.                                                             *)
(***************************************************************************)
LEMMA SelectChatKeeps ==
  ASSUME ConsoleInv, MainBounds, SelectChat
  PROVE  ConsoleInv'
<1>1. pc = "select" /\ walk' = walk
  BY DEF SelectChat
<1>2. FromMem(mem) /\ mem \in MemType /\ StoreTypeOK
  BY <1>1, NoWalkAt DEF StoreInv
<1>3. PICK i, r, m :
        /\ i \in DOMAIN store.chats
        /\ r = store.chats[i].room
        /\ m = [mem EXCEPT !.room = r, !.chat = store.chats[i].id]
        /\ IF r \in mem.joined
           THEN mem' = m /\ Goto("text") /\ UNCHANGED worldVars
           ELSE IF mem.self[r] = None
           THEN mem' = m /\ Await("send self") /\ UNCHANGED worldVars
           ELSE /\ mem' = [m EXCEPT !.joined = @ \cup {r}]
                /\ JoinChat(r) /\ Goto("settle to send")
  BY DEF SelectChat
<1>4. r \in Rooms /\ store.chats[i].id \in Nat /\ Saved(r)
  BY <1>2, <1>3, ChatsSaved
<1>5. FromMem(m) /\ m.room = r /\ m \in MemType
  BY <1>2, <1>3, <1>4 DEF FromMem, MemType, Id
<1>6. CASE r \in mem.joined
  <2>1. MainAlone
    BY <1>1, <1>3, <1>6, AloneAt
  <2>2. PICK place : place = "text"
    OBVIOUS
  <2>3. MayBeAt(place, m)
    BY <1>4, <1>5, <2>2 DEF MayBeAt
  <2>4. QED
    BY <1>1, <1>3, <1>5, <1>6, <2>1, <2>2, <2>3, ThenPlace
<1>7. CASE r \notin mem.joined /\ mem.self[r] = None
  <2>1. MainAlone
    BY <1>1, <1>3, <1>7, AloneAt
  <2>2. PICK place : place = "send self"
    OBVIOUS
  <2>3. MayBeAt(place, m)
    BY <1>4, <1>5, <2>2 DEF MayBeAt
  <2>4. QED
    BY <1>1, <1>3, <1>5, <1>7, <2>1, <2>2, <2>3, ThenPlace
<1>8. CASE r \notin mem.joined /\ mem.self[r] # None
  <2>1. MainAlone
    BY <1>1, <1>3, <1>4, <1>8, JoiningAt
  <2>2. PICK n : n = [m EXCEPT !.joined = @ \cup {r}]
    OBVIOUS
  <2>3. FromMem(n) /\ n.room = r
    BY <1>4, <1>5, <2>2 DEF FromMem, MemType
  <2>4. PICK place : place = "settle to send"
    OBVIOUS
  <2>5. MayBeAt(place, n)
    BY <1>4, <2>3, <2>4 DEF MayBeAt
  <2>6. QED
    BY <1>1, <1>3, <1>8, <2>1, <2>2, <2>3, <2>4, <2>5, ThenPlace
<1>9. QED
  BY <1>6, <1>7, <1>8

(***************************************************************************)
(* AddedOutgoing.                                                          *)
(***************************************************************************)
LEMMA AddedOutgoingKeeps ==
  ASSUME ConsoleInv, MainBounds, AddedOutgoing
  PROVE  ConsoleInv'
<1>1. pc = "outgoing" /\ UNCHANGED worldVars
  BY DEF AddedOutgoing, Returned
<1>2. MainAlone /\ FromMem(mem) /\ mem \in MemType
  BY <1>1, AloneAt
<1>3. PICK m : m = [mem EXCEPT !.room = None, !.chat = None, !.text = None]
  OBVIOUS
<1>4. FromMem(m) /\ FlushIncoming(m)
  BY <1>2, <1>3 DEF FromMem, MemType, Id, AddedOutgoing
<1>5. QED
  BY <1>2, <1>4, ThenFlush

(***************************************************************************)
(* The steps of MainStep that change no state of main().                   *)
(***************************************************************************)
LEMMA PlainKeeps ==
  ASSUME ConsoleInv, MainBounds,
         AddedChat \/ Settled \/ ListedChats \/ SettledToSend \/ Look \/ ChooseSend
  PROVE  ConsoleInv'
<1>1. /\ pc \in {"chat", "settle", "list", "settle to send", "menu"}
      /\ UNCHANGED worldVars
  BY DEF AddedChat, Settled, ListedChats, SettledToSend, Look, ChooseSend, Returned
<1>2. MainAlone /\ FromMem(mem) /\ JoinedOK
  BY <1>1, AloneAt
<1>3. CASE FlushIncoming(mem)
  BY <1>2, <1>3, ThenFlush
<1>4. CASE mem' = mem /\ walk' = walk /\ (Goto("select") \/ Await("list"))
  <2>1. PICK place \in {"select", "list"} : Goto(place) \/ Await(place)
    BY <1>4
  <2>2. MayBeAt(place, mem)
    BY <2>1 DEF MayBeAt
  <2>3. QED
    BY <1>2, <1>4, <2>1, <2>2, ThenPlace
<1>5. CASE AddedChat
  <2>1. /\ pc = "chat" /\ Await("join self") /\ mem' = mem /\ walk' = walk
        /\ op.coroutine = "done"
    BY <1>5 DEF AddedChat, Returned
  <2>2. mem.room \in Rooms /\ Saved(mem.room)
    BY <1>2, <2>1 DEF JoinedOK, Written
  <2>3. PICK place : place = "join self"
    OBVIOUS
  <2>4. MayBeAt(place, mem)
    BY <2>2, <2>3 DEF MayBeAt
  <2>5. QED
    BY <1>2, <2>1, <2>3, <2>4, ThenPlace
<1>6. CASE SettledToSend
  <2>1. pc = "settle to send" /\ Goto("text") /\ mem' = mem /\ walk' = walk
    BY <1>6 DEF SettledToSend
  <2>2. mem.room \in Rooms /\ Saved(mem.room)
    BY <1>2, <2>1 DEF JoinedOK
  <2>3. PICK place : place = "text"
    OBVIOUS
  <2>4. MayBeAt(place, mem)
    BY <2>2, <2>3 DEF MayBeAt
  <2>5. QED
    BY <1>2, <2>1, <2>3, <2>4, ThenPlace
<1>7. QED
  BY <1>3, <1>4, <1>5, <1>6 DEF Settled, ListedChats, Look, ChooseSend

(***************************************************************************)
(* ChooseJoin.                                                             *)
(***************************************************************************)
LEMMA ChooseJoinKeeps ==
  ASSUME ConsoleInv, MainBounds, ChooseJoin
  PROVE  ConsoleInv'
<1>1. pc = "menu" /\ UNCHANGED worldVars /\ Await("chat") /\ walk' = walk
  BY DEF ChooseJoin
<1>2. MainAlone /\ FromMem(mem) /\ mem \in MemType
  BY <1>1, AloneAt
<1>3. PICK r, m : r \in Rooms /\ mem' = m /\ m = [mem EXCEPT !.room = r]
  BY DEF ChooseJoin
<1>4. FromMem(m) /\ m.room = r
  BY <1>2, <1>3 DEF FromMem, MemType
<1>5. PICK place : place = "chat"
  OBVIOUS
<1>6. MayBeAt(place, m)
  BY <1>3, <1>4, <1>5 DEF MayBeAt
<1>7. QED
  BY <1>1, <1>2, <1>3, <1>4, <1>5, <1>6, ThenPlace

(***************************************************************************)
(* The steps of the main thread between pumps.                             *)
(***************************************************************************)
LEMMA MainStepKeeps ==
  ASSUME ConsoleInv, MainStep
  PROVE  ConsoleInv'
<1>1. MainBounds
  BY DEF MainStep, MainBounds, boundVars, EndOfConnect, ReadSaved, RejoinNext,
         RejoinedSelf, AddedChat, AddedSelf, Settled, ListedChats, SelectChat,
         AddedSelfToSend, SettledToSend, AddedOutgoing
<1>2. QED
  BY <1>1, EndOfConnectKeeps, ReadSavedKeeps, RejoinNextKeeps, RejoinedSelfKeeps,
     AddedSelfKeeps, AddedSelfToSendKeeps, SelectChatKeeps, AddedOutgoingKeeps,
     PlainKeeps
  DEF MainStep

(***************************************************************************)
(* The choices at the menu.                                                *)
(***************************************************************************)
LEMMA ChooseKeeps ==
  ASSUME ConsoleInv, Choose
  PROVE  ConsoleInv'
<1>1. MainBounds
  BY DEF Choose, MainBounds, Look, ChooseJoin, ChooseSend
<1>2. QED
  BY <1>1, PlainKeeps, ChooseJoinKeeps DEF Choose

(***************************************************************************)
(* A message is sent, or refused.                                          *)
(***************************************************************************)
LEMMA SendKeeps ==
  ASSUME ConsoleInv, Send
  PROVE  ConsoleInv'
<1>1. /\ pc = "text" /\ author' = Append(author, Me) /\ Await("outgoing")
      /\ IF link = "up" /\ rooms[mem.room].session = "now"
         THEN Post(mem.room, MyPeer, Len(author'))
         ELSE UNCHANGED worldVars
      /\ walk' = walk /\ link' = link /\ store' = store /\ nextId' = nextId
      /\ excused' = excused /\ ends' = ends /\ breaks' = breaks
  BY DEF Send, SendMessage, boundVars
<1>2. /\ NotWalking /\ FromMem(mem) /\ mem \in MemType /\ JoinedOK
      /\ StoreInv /\ WorldInv /\ mem.room \in Rooms /\ Saved(mem.room)
  BY <1>1, NoWalkAt DEF JoinedOK
<1>3. WorldInv' /\ LogsKeep
  <2>1. Me \in Peers \cup {Me} /\ MyPeer = (IF Me = Me THEN MyPeer ELSE Me)
    OBVIOUS
  <2>2. CASE link = "up" /\ rooms[mem.room].session = "now"
    BY <1>1, <1>2, <2>1, <2>2, Posted
  <2>3. CASE ~(link = "up" /\ rooms[mem.room].session = "now")
    BY <1>1, <1>2, <2>1, <2>3, NotPosted DEF worldVars
  <2>4. QED
    BY <2>2, <2>3
<1>4. MainAlone
  BY <1>1, <1>2, <1>3 DEF MainAlone
<1>5. PICK n, m : n = Len(author') /\ m = [mem EXCEPT !.text = n] /\ mem' = m
  BY DEF Send, SendMessage
<1>6. n \in Nat
  BY <1>1, <1>2, <1>5, TextWritten DEF WorldInv
<1>7. FromMem(m) /\ m.room = mem.room
  BY <1>2, <1>5, <1>6 DEF FromMem, MemType, Id
<1>8. PICK place : place = "outgoing"
  OBVIOUS
<1>9. MayBeAt(place, m)
  BY <1>2, <1>7, <1>8 DEF MayBeAt
<1>10. QED
  BY <1>1, <1>4, <1>5, <1>7, <1>8, <1>9, ThenPlace

-----------------------------------------------------------------------------
(* The invariant of the specification.                                     *)

(***************************************************************************)
(* It holds at the start.                                                  *)
(***************************************************************************)
LEMMA InitInv ==
  ASSUME Init
  PROVE  ConsoleInv
<1>1. /\ store = EmptyStore /\ nextId = 1 /\ pc = "off" /\ op = NoOp
      /\ mem = EmptyMem /\ walk = NoWalk /\ link = "none"
      /\ rooms = [r \in Rooms |-> EmptyRoom] /\ inbox = <<>> /\ author = <<>>
      /\ excused = {} /\ ends = 0 /\ breaks = 0
  BY DEF Init
<1>2. \A S : <<>> \in Seq(S) /\ DOMAIN <<>> = {} /\ Len(<<>>) = 0
  OBVIOUS
<1>3. StoreInv
  BY <1>1, <1>2 DEF EmptyStore, StoreInv, StoreTypeOK, IdsFresh
<1>4. DOMAIN store.messages = {} /\ DOMAIN store.members = {}
  BY <1>1, <1>2 DEF EmptyStore
<1>5. /\ \A r \in Rooms : rooms[r].log = <<>> /\ rooms[r].session = "none"
                          /\ rooms[r].cursor = 0
      /\ rooms \in [Rooms -> [log : Seq(LogRows),
                              session : {"none", "now", "old"}, cursor : Nat]]
  BY <1>1, <1>2 DEF EmptyRoom
<1>6. WorldTypeOK
  <2>1. <<>> \in Seq(Events) /\ <<>> \in Seq(Peers \cup {Me})
    BY <1>2
  <2>2. QED
    BY <1>1, <1>5, <2>1 DEF WorldTypeOK
<1>7. LogsOK /\ InboxOK /\ NoGaps /\ SessionsOK
  BY <1>1, <1>2, <1>5 DEF LogsOK, InboxOK, NoGaps, SessionsOK
<1>8. /\ mem \in MemType /\ DOMAIN mem.queue = {} /\ DOMAIN mem.todo = {}
      /\ mem.joined = {} /\ \A k \in Keys : mem.senders[k] = None
  BY <1>1, <1>2, EmptyMemIs
<1>9. OpTypeOK /\ WalkTypeOK /\ ~Walking
  BY <1>1 DEF NoOp, NoWalk, OpTypeOK, WalkTypeOK, Walking, Id
<1>10. MainInv
  BY <1>1, <1>8, <1>9 DEF MainInv, MemTypeOK, JoinedOK
<1>11. /\ QueueOK /\ SendersOK /\ WalkOK /\ WalkLosesNothing /\ NothingSlips
  BY <1>1, <1>5, <1>8, <1>9
  DEF QueueOK, SendersOK, WalkOK, WalkLosesNothing, NothingSlips
<1>12. Incomings = {}
  BY <1>4 DEF Incomings
<1>13. OrderInv
  BY <1>8, <1>12 DEF OrderInv, StoredOK, QueueInOrder, StoredInSequence
<1>14. FewMembers
  <2>1. SUFFICES ASSUME NEW p \in Writers
                 PROVE  Cardinality(MembersOf(p))
                          <= ends * Cardinality(Rooms) + Cardinality(Met(p))
    BY DEF FewMembers
  <2>2. Cardinality(MembersOf(p)) = 0
    BY <1>4, FS_EmptySet DEF MembersOf
  <2>3. Cardinality(Met(p)) \in Nat /\ Cardinality(Rooms) \in Nat
    BY <1>3, FewFinite DEF StoreInv
  <2>4. ends * Cardinality(Rooms) = 0
    BY <1>1, <2>3
  <2>5. QED
    BY <2>2, <2>3, <2>4
<1>15. QED
  BY <1>3, <1>6, <1>7, <1>10, <1>11, <1>13, <1>14 DEF ConsoleInv, WorldInv, WalkInv

(***************************************************************************)
(* Both threads keep it.                                                   *)
(***************************************************************************)
LEMMA HandlersKeep ==
  ASSUME ConsoleInv, RunOne \/ RunOther
  PROVE  ConsoleInv'
<1>1. CASE RunOne
  BY <1>1, HandlerStep DEF RunOne
<1>2. CASE RunOther
  <2>1. PICK main : main = op.main
    OBVIOUS
  <2>2. main \in {"none", "run_one", "loop"}
    BY <2>1 DEF ConsoleInv, MainInv, OpTypeOK
  <2>3. QED
    BY <1>2, <2>1, <2>2, HandlerStep DEF RunOther
<1>3. QED
  BY <1>1, <1>2

(***************************************************************************)
(* A step that changes nothing keeps it.                                   *)
(***************************************************************************)
LEMMA StutterKeeps ==
  ASSUME ConsoleInv, UNCHANGED vars
  PROVE  ConsoleInv'
<1>1. /\ store' = store /\ nextId' = nextId /\ pc' = pc /\ op' = op /\ mem' = mem
      /\ walk' = walk /\ link' = link /\ rooms' = rooms /\ inbox' = inbox
      /\ author' = author /\ excused' = excused /\ ends' = ends
      /\ breaks' = breaks
  BY DEF vars, progVars, worldVars, boundVars
<1>2. StoreInv /\ WorldInv
  BY DEF ConsoleInv
<1>3. StoreGrows
  BY <1>1, <1>2, SameStore
<1>4. WorldInv' /\ LogsKeep
  BY <1>1, <1>2, <1>3, WorldIdle
<1>5. QED
  BY <1>1, <1>4, OutsideKeeps

(***************************************************************************)
(* Every step keeps it.                                                    *)
(***************************************************************************)
LEMMA NextKeeps ==
  ASSUME ConsoleInv, [Next]_vars
  PROVE  ConsoleInv'
<1>1. CASE Next
  BY <1>1, StartKeeps, MainStepKeeps, ChooseKeeps, SendKeeps, FlushKeeps,
     PumpKeeps, HandlersKeep, EndKeeps, BreakKeeps, ServerNoticesKeeps,
     PeerPostsKeeps
  DEF Next
<1>2. CASE UNCHANGED vars
  BY <1>2, StutterKeeps
<1>3. QED
  BY <1>1, <1>2

(***************************************************************************)
(* ConsoleInv is an invariant of the console program: the types, what the  *)
(* server has sent and the program has acknowledged, what the walk of the  *)
(* queue holds while the database is waited for.                           *)
(***************************************************************************)
THEOREM ConsoleInvariant == Spec => []ConsoleInv
<1>1. Init => ConsoleInv
  BY InitInv
<1>2. ConsoleInv /\ [Next]_vars => ConsoleInv'
  BY NextKeeps
<1>3. QED
  BY <1>1, <1>2, PTL DEF Spec

(***************************************************************************)
(* What the program has acknowledged to the server is in the database or in *)
(* incomingQueue, but for what came during a walk or was in the queue when *)
(* the program ended.                                                      *)
(***************************************************************************)
THEOREM AcknowledgedIsKept == Spec => []NothingSlips
<1>1. ConsoleInv => NothingSlips
  BY DEF ConsoleInv, WalkInv
<1>2. QED
  BY <1>1, ConsoleInvariant, PTL

(***************************************************************************)
(* What is written to a room is stored in that order, and once, however    *)
(* often the program ends and starts again, while no connection is lost.   *)
(***************************************************************************)
THEOREM StoredInOrderOnce == Spec => []StoredInSequence
<1>1. ConsoleInv => StoredInSequence
  BY DEF ConsoleInv, OrderInv
<1>2. QED
  BY <1>1, ConsoleInvariant, PTL

(***************************************************************************)
(* A member that has been found has the name its id is known by.           *)
(***************************************************************************)
LEMMA NameFound ==
  ASSUME NEW id, NEW name, MemberIs(id, name)
  PROVE  GetMemberById(store, id).name = name
BY RowFound DEF MemberIs, HasMember, GetMemberById

(***************************************************************************)
(* A message with a text is stored under a member with the peer id it came *)
(* from; a run of the program adds a peer at most once for each room.      *)
(***************************************************************************)
THEOREM StoredUnderSender == Spec => []SendersKnown
<1>1. ConsoleInv => SendersKnown
  <2>1. SUFFICES ASSUME ConsoleInv
                 PROVE  SendersKnown
    OBVIOUS
  <2>2. StoredOK /\ FewMembers /\ StoreTypeOK /\ ends \in Nat
    BY <2>1 DEF ConsoleInv, OrderInv, StoreInv, WorldInv, WorldTypeOK
  <2>3. ASSUME NEW i \in Incomings
        PROVE  GetMemberById(store, store.messages[i].sender).name
                 = Writer(store.messages[i].text)
    BY <2>2, NameFound DEF StoredOK
  <2>4. ASSUME NEW p \in Writers
        PROVE  Cardinality(MembersOf(p)) <= (ends + 1) * Cardinality(Rooms)
    <3>1. PICK b, c, n : /\ b = Cardinality(MembersOf(p))
                         /\ c = Cardinality(Met(p)) /\ n = Cardinality(Rooms)
      OBVIOUS
    <3>2. b \in Nat /\ c \in Nat /\ n \in Nat /\ c <= n /\ b <= ends * n + c
      BY <2>2, <2>4, <3>1, FewFinite DEF FewMembers
    <3>3. (ends + 1) * n = ends * n + n /\ ends * n \in Nat
      BY <2>2, <3>2
    <3>4. QED
      BY <3>1, <3>2, <3>3
  <2>5. QED
    BY <2>3, <2>4 DEF SendersKnown, Writer, Writers, MembersOf
<1>2. QED
  BY <1>1, ConsoleInvariant, PTL

=============================================================================

-------------------------- MODULE ClientBridgeProofs --------------------------
(***************************************************************************)
(* Proofs about ClientBridge, for any numbers of rooms, peers, texts and   *)
(* breaks: what is sent is stored first and sent once (SentIsStored), and  *)
(* what is stored is stored under its writer (RightSender).                *)
(*                                                                         *)
(* The coroutines are a queue, and what one has read when it is suspended  *)
(* may be old when it is resumed: the invariants say what of it still holds *)
(* (FoundInv), and which coroutine comes first (FirstInv).                 *)
(***************************************************************************)
EXTENDS ClientBridge, FiniteSetTheorems, WellFoundedInduction, TLAPS

-----------------------------------------------------------------------------
(* The invariant: types.                                                   *)

\* An id, or that there is none.
Ids == Nat \cup {None}
\* Whom a message is from: a peer, or an id of this client.
Origins == Peers \cup Nat
\* The names of members.
Names == [user : Origins \cup {Me}] \cup [peer : Origins]

\* The rows of the four tables.
ChatRows == [id : Nat, room : Rooms]
MemberRows == [id : Nat, name : Names]
RelationRows == [chat : Nat, member : Nat]
MessageRows == [id : Nat, chat : Nat, sender : Nat, text : Nat,
                direction : {"incoming", "outgoing"}]

\* The coroutines.  found has the members read so far, or the id of one.
Found == Seq(MemberRows) \cup Seq(Nat)
SendTasks ==
  [op : {"send"}, at : {"start", "chat", "relations", "lookup", "message"},
   chat : Nat, room : Rooms \cup {None}, text : Nat,
   left : Seq(RelationRows), found : Found]
IncomingTasks ==
  [op : {"incoming"},
   at : {"start", "chats", "relations", "lookup", "member", "relation",
         "message"},
   room : Rooms, from : Origins, name : Names \cup {None}, text : Nat,
   chat : Ids, left : Seq(RelationRows), found : Found]
JoinedTasks ==
  [op : {"joined"}, at : {"start", "chats", "new chat", "member"},
   room : Rooms, chat : Ids]
JoiningTasks ==
  [op : {"joined"}, at : {"relation"}, room : Rooms, chat : Nat, member : Nat]
LeaveTasks == [op : {"leave"}, at : {"start", "chat"}, chat : Nat]
RemoveTasks == [op : {"remove"}, at : {"start", "remove"}, chat : Nat]

Tasks == SendTasks \cup IncomingTasks \cup JoinedTasks \cup JoiningTasks
         \cup LeaveTasks \cup RemoveTasks

\* What the Qt thread has to do.
Sends == [type : {"send"}, text : Nat, room : Rooms]
Leaves == [type : {"leave"}, chat : Nat, room : Rooms]
Openings == [type : {"opened"}, peer : Peers]
Directs == [type : {"direct"}, peer : Peers, text : Nat]
Events == Sends \cup Leaves \cup Openings \cup Directs

\* What the server has and sends.
LogRows == [from : Origins, text : Nat]
SeqRows == [from : Origins, text : Nat, seq : Nat]
RoomStates ==
  {room \in [log : Seq(LogRows), mine : Ids, session : {"none", "now", "old"},
             cursor : Nat, here : SUBSET Peers, left : BOOLEAN,
             removed : BOOLEAN] :
     room.session # "none" => room.mine # None}
Rising(s) == \A i, j \in DOMAIN s : i < j => s[i].seq < s[j].seq
JoinedMsgs == [type : {"joined"}, room : Rooms, me : Nat, here : SUBSET Peers]
PeerMsgs == [type : {"peer joined", "peer left"}, room : Rooms, peer : Peers]
GroupMsgs ==
  [type : {"group"}, room : Rooms, from : Origins, text : Nat, seq : Nat]
BufferedMsgs ==
  [type : {"buffered"}, room : Rooms, messages : {s \in Seq(SeqRows) : Rising(s)}]
ErrorMsgs == [type : {"error"}]
Msgs == JoinedMsgs \cup PeerMsgs \cup GroupMsgs \cup BufferedMsgs \cup ErrorMsgs

StoreTypeOK ==
  /\ nextId \in Nat
  /\ store \in [chats : Seq(ChatRows), members : Seq(MemberRows),
                relations : Seq(RelationRows), messages : Seq(MessageRows)]

ClientTypeOK ==
  /\ pending \in Rooms \cup {None}
  /\ myPeer \in [Rooms -> Ids]
  /\ peerToRoom \in [Peers -> Rooms \cup {None}]
  /\ names \subseteq Rooms \X Peers
  /\ queued \in [Peers -> Seq(Nat)]

WorldTypeOK ==
  /\ link \in {"closed", "connecting", "up", "broken"}
  /\ rooms \in [Rooms -> RoomStates]
  /\ inbox \in Seq(Msgs)
  /\ author \in Seq(Peers \cup {Me})
  /\ wire \in [Rooms \cup Peers -> Seq(Nat)]
  /\ breaks \in Nat

\* What a coroutine has read: some relations of its chat are left to look up,
\* and it has found those members.
Idle(t) == t.left = <<>> /\ t.found = <<>>
Looking(t) ==
  /\ t.left # <<>> /\ t.found \in Seq(MemberRows)
  /\ \A i \in DOMAIN t.found : \E k \in DOMAIN store.members :
       store.members[k] = t.found[i]
One(t) == t.left = <<>> /\ \E id \in Nat : t.found = <<id>>

TaskShape(t) ==
  /\ t.op = "send" =>
       /\ t.at \in {"relations", "lookup", "message"} => t.room \in Rooms
       /\ t.at \in {"start", "chat", "relations"} => Idle(t)
       /\ t.at = "lookup" => Looking(t)
       /\ t.at = "message" => One(t)
  /\ t.op = "incoming" =>
       /\ t.at \notin {"start", "chats"} => t.chat \in Nat
       /\ t.at \in {"start", "chats", "relations", "member"} => Idle(t)
       /\ t.at = "lookup" => Looking(t)
       /\ t.at \in {"relation", "message"} => One(t)
       /\ t.at \in {"member", "relation"} => t.name \in Names
  /\ t.op = "joined" /\ t.at \in {"member", "relation"} => t.chat \in Nat

ShapedTasks == {t \in Tasks : TaskShape(t)}

QueuesOK == tasks \in Seq(ShapedTasks) /\ events \in Seq(Events)

\* The next uuid is a new one, and ids are primary keys.
IdsFresh ==
  /\ \A i \in DOMAIN store.chats : store.chats[i].id < nextId
  /\ \A i \in DOMAIN store.members : store.members[i].id < nextId
  /\ \A i \in DOMAIN store.messages : store.messages[i].id < nextId
  /\ \A i \in DOMAIN store.relations : store.relations[i].chat < nextId
  /\ \A i, j \in DOMAIN store.members :
       store.members[i].id = store.members[j].id => i = j

TypeInv ==
  /\ StoreTypeOK /\ ClientTypeOK /\ WorldTypeOK /\ QueuesOK
  /\ IdsFresh

-----------------------------------------------------------------------------
(* The invariant: what the user sends.                                     *)

\* The user's texts among the coroutines, and those the Qt thread is to send.
TaskTexts(q) == {q[i].text : i \in {k \in DOMAIN q : q[k].op = "send"}}
EventTexts(q) == {q[i].text : i \in {k \in DOMAIN q : q[k].type = "send"}}

\* No text is there twice.
OnceAsTask(q) ==
  \A i, j \in DOMAIN q :
    q[i].op = "send" /\ q[j].op = "send" /\ q[i].text = q[j].text => i = j
OnceAsEvent(q) ==
  \A i, j \in DOMAIN q :
    q[i].type = "send" /\ q[j].type = "send" /\ q[i].text = q[j].text => i = j

OnWire(n) == \E x \in Rooms \cup Peers : \E i \in DOMAIN wire[x] : wire[x][i] = n
InQueue(n) == \E p \in Peers : \E i \in DOMAIN queued[p] : queued[p][i] = n
IsStored(n) ==
  n \in lost \/ \E j \in Outgoings : store.messages[j].text = n

\* A text is a coroutine, or an event, or handed over or queued; and stored
\* before it is an event, to be lost only with its chat.
SendInv ==
  /\ OnceAsTask(tasks) /\ OnceAsEvent(events)
  /\ \A n \in TaskTexts(tasks) :
       /\ n \in DOMAIN author /\ n \notin EventTexts(events)
       /\ ~OnWire(n) /\ ~InQueue(n)
  /\ \A n \in EventTexts(events) :
       n \in DOMAIN author /\ IsStored(n) /\ ~OnWire(n) /\ ~InQueue(n)
  /\ \A n : OnWire(n) \/ InQueue(n) => n \in DOMAIN author /\ IsStored(n)
  /\ \A x \in Rooms \cup Peers : NoRepeats(wire[x])
  /\ \A p \in Peers :
       /\ NoRepeats(queued[p])
       /\ \A i \in DOMAIN wire[p] : \A j \in DOMAIN queued[p] :
            wire[p][i] # queued[p][j]

-----------------------------------------------------------------------------
(* The invariant: who wrote what is heard.  What it says of the server's   *)
(* rooms rs, the client's ids mp, the authors au and an inbox q is said of *)
(* any of them: a step changes several.                                    *)

\* The user's texts are the user's, and a peer's channel brings the peer's.
WrittenEvents(au) ==
  {e \in Events : e.type = "direct" =>
                    e.text \in DOMAIN au /\ au[e.text] = e.peer}
TextsInv ==
  /\ \A n \in TaskTexts(tasks) \cup EventTexts(events) : author[n] = Me
  /\ events \in Seq(WrittenEvents(author))

\* As the server has it: under its peer, or under the user's present id unless
\* the client has forgotten one.
Signed(rs, au, r, from, n) ==
  /\ n \in DOMAIN au
  /\ au[n] # Me => au[n] = from
  /\ au[n] = Me => \/ rs[r].removed
                   \/ rs[r].mine # None /\ from = rs[r].mine

\* The client knows its id in the room, or will before message i.
KnowsId(rs, mp, q, r, i) ==
  \/ rs[r].removed
  \/ /\ rs[r].mine # None
     /\ \/ mp[r] = rs[r].mine
        \/ \E k \in DOMAIN q : k < i /\ q[k].type = "joined" /\ q[k].room = r
KnowsEnd(rs, mp, q, r) == KnowsId(rs, mp, q, r, Len(q) + 1)

MessageInv(rs, au, m) ==
  /\ m.type = "joined" => rs[m.room].removed \/ rs[m.room].mine = m.me
  /\ m.type = "group" => Signed(rs, au, m.room, m.from, m.text)
  /\ m.type = "buffered" =>
       \A k \in DOMAIN m.messages :
         Signed(rs, au, m.room, m.messages[k].from, m.messages[k].text)

QueueInv(rs, mp, au, q) ==
  \A i \in DOMAIN q :
    /\ MessageInv(rs, au, q[i])
    /\ q[i].type \in {"group", "buffered"} => KnowsId(rs, mp, q, q[i].room, i)

LogsInv(rs, au) ==
  \A r \in Rooms : \A i \in DOMAIN rs[r].log :
    Signed(rs, au, r, rs[r].log[i].from, rs[r].log[i].text)

SessionsInv(rs, mp, q, socket) ==
  \A r \in Rooms :
    rs[r].session = "now" => socket = "up" /\ KnowsEnd(rs, mp, q, r)

ServerInv ==
  /\ LogsInv(rooms, author) /\ QueueInv(rooms, myPeer, author, inbox)
  /\ SessionsInv(rooms, myPeer, inbox, link)

\* As the client has it.
WrittenBy(rs, au, from, n) ==
  /\ n \in DOMAIN au
  /\ au[n] # Me => au[n] = from
  /\ au[n] = Me => \E r \in Rooms : rs[r].removed

HeardTasks(rs, au) ==
  {t \in Tasks : t.op = "incoming" => WrittenBy(rs, au, t.from, t.text)}
HeardInv == tasks \in Seq(HeardTasks(rooms, author))

WriterInv == TextsInv /\ ServerInv /\ HeardInv

-----------------------------------------------------------------------------
(* The invariant: which member it is stored under.                         *)

IsNamed(id, name) ==
  \E i \in DOMAIN store.members :
    store.members[i].id = id /\ store.members[i].name = name
IsUser(id) == IsNamed(id, [user |-> Me])
NamesOf(from) == {[user |-> from], [peer |-> from]}
IsSender(id, from) == \E name \in NamesOf(from) : IsNamed(id, name)

\* The first member of a chat, which a message of the user's is stored under.
FirstRow(i) ==
  \A j \in DOMAIN store.relations :
    store.relations[j].chat = store.relations[i].chat => i <= j
RowsInv ==
  \A i \in DOMAIN store.relations :
    FirstRow(i) => IsUser(store.relations[i].member)

HasRow(c) == \E i \in DOMAIN store.relations : store.relations[i].chat = c

\* A chat that was removed does not come back: its id is not given again.
Gone(c) == c \in Nat /\ c < nextId /\ ~HasChat(store, c)

\* The user is the first member of a chat, or nobody will ever be.
Headed(c) == HasRow(c) \/ Gone(c)

\* What a coroutine has found.
FoundInv(t) ==
  /\ t.op = "joined" /\ t.at \in {"member", "relation"} => t.chat < nextId
  /\ t.op = "joined" /\ t.at = "relation" => IsUser(t.member)
  /\ t.op = "send" /\ t.at = "lookup" =>
       IF t.found = <<>> THEN IsUser(Head(t.left).member)
       ELSE t.found[1].name = [user |-> Me]
  /\ t.op = "send" /\ t.at = "message" => IsUser(t.found[1])
  /\ t.op = "incoming" /\ t.at = "lookup" => Headed(t.chat)
  /\ t.op = "incoming" /\ t.at \in {"member", "relation"} =>
       t.name \in NamesOf(t.from)
  /\ t.op = "incoming" /\ t.at \in {"relation", "message"} =>
       IsSender(t.found[1], t.from)
FoundTasks == {t \in Tasks : FoundInv(t)}

\* The user becomes the first member of a chat.  A coroutine of "joined" makes
\* the user one, and that of a message may make its sender one; in how many
\* turns at the least.
Joins(t, c) == t.op = "joined" /\ t.at \in {"member", "relation"} /\ t.chat = c
Adds(t) == t.op = "incoming" /\ t.at \in {"relations", "member", "relation"}
Turns(t) ==
  IF t.at = "relations" THEN 3 ELSE IF t.at = "member" THEN 2 ELSE 1

\* The queue is first in, first out: of two with as many turns to go, the one
\* that is before the other now has its last turn first.
ComesFirst(q, c, i) ==
  \E j \in DOMAIN q :
    /\ Joins(q[j], c)
    /\ Turns(q[j]) < Turns(q[i]) \/ (Turns(q[j]) = Turns(q[i]) /\ j < i)
FirstInv ==
  /\ \A i \in DOMAIN tasks : Adds(tasks[i]) =>
       Headed(tasks[i].chat) \/ ComesFirst(tasks, tasks[i].chat, i)
  /\ \A k \in DOMAIN store.chats :
       \/ Headed(store.chats[k].id)
       \/ \E j \in DOMAIN tasks : Joins(tasks[j], store.chats[k].id)

MessagesInv ==
  \A i \in DOMAIN store.messages :
    LET m == store.messages[i]
    IN  /\ m.direction = "outgoing" => IsUser(m.sender)
        /\ m.direction = "incoming" =>
             \E from \in Origins :
               WrittenBy(rooms, author, from, m.text) /\ IsSender(m.sender, from)

MemberInv ==
  RowsInv /\ FirstInv /\ MessagesInv /\ tasks \in Seq(FoundTasks)
-----------------------------------------------------------------------------
(* Sequences.                                                              *)

(***************************************************************************)
(* The end of a queue, and what is left of it.                             *)
(***************************************************************************)
LEMMA AppendIs ==
  ASSUME NEW S, NEW q \in Seq(S), NEW x \in S
  PROVE  /\ Append(q, x) \in Seq(S)
         /\ Len(Append(q, x)) = Len(q) + 1
         /\ DOMAIN Append(q, x) = DOMAIN q \cup {Len(q) + 1}
         /\ DOMAIN q = 1..Len(q) /\ Len(q) \in Nat
         /\ \A i \in DOMAIN q : Append(q, x)[i] = q[i]
         /\ Append(q, x)[Len(q) + 1] = x
OBVIOUS

\* The queue without its head.
LEMMA TailIs ==
  ASSUME NEW S, NEW q \in Seq(S), q # <<>>
  PROVE  /\ Tail(q) \in Seq(S)
         /\ Head(q) \in S /\ Head(q) = q[1] /\ 1 \in DOMAIN q
         /\ Len(q) \in Nat /\ Len(q) > 0 /\ DOMAIN q = 1..Len(q)
         /\ Len(Tail(q)) = Len(q) - 1
         /\ DOMAIN Tail(q) = 1..(Len(q) - 1)
         /\ \A i \in DOMAIN Tail(q) :
              /\ i + 1 \in DOMAIN q /\ Tail(q)[i] = q[i + 1]
OBVIOUS

(***************************************************************************)
(* A queue whose head is taken and something put to its end.               *)
(***************************************************************************)
LEMMA RotateIs ==
  ASSUME NEW S, NEW q \in Seq(S), q # <<>>, NEW x \in S
  PROVE  /\ Append(Tail(q), x) \in Seq(S)
         /\ Len(Append(Tail(q), x)) = Len(q)
         /\ DOMAIN Append(Tail(q), x) = 1..Len(q)
         /\ \A i \in 1..(Len(q) - 1) :
              Append(Tail(q), x)[i] = q[i + 1] /\ i + 1 \in DOMAIN q
         /\ Append(Tail(q), x)[Len(q)] = x
<1> DEFINE t == Tail(q)
<1>1. /\ t \in Seq(S) /\ Len(t) = Len(q) - 1 /\ Len(q) \in Nat /\ Len(q) > 0
      /\ DOMAIN t = 1..(Len(q) - 1)
      /\ \A i \in DOMAIN t : i + 1 \in DOMAIN q /\ t[i] = q[i + 1]
  BY TailIs
<1> HIDE DEF t
<1>2. /\ Append(t, x) \in Seq(S) /\ Len(Append(t, x)) = Len(q)
      /\ DOMAIN Append(t, x) = 1..Len(q)
      /\ \A i \in DOMAIN t : Append(t, x)[i] = t[i]
      /\ Append(t, x)[Len(q)] = x
  BY <1>1, AppendIs
<1>3. QED
  BY <1>1, <1>2 DEF t

\* Two queues, one after the other.
LEMMA ConcatIs ==
  ASSUME NEW S, NEW q \in Seq(S), NEW r \in Seq(S)
  PROVE  /\ q \o r \in Seq(S)
         /\ Len(q) \in Nat /\ Len(r) \in Nat /\ Len(q \o r) = Len(q) + Len(r)
         /\ DOMAIN q = 1..Len(q) /\ DOMAIN r = 1..Len(r)
         /\ DOMAIN (q \o r) = 1..(Len(q) + Len(r))
         /\ \A i \in DOMAIN q : (q \o r)[i] = q[i]
         /\ \A i \in DOMAIN r : (q \o r)[Len(q) + i] = r[i]
OBVIOUS

\* A sequence over a set is one over any larger set.
LEMMA SeqWider ==
  ASSUME NEW A, NEW B, \A x \in A : x \in B, NEW q \in Seq(A)
  PROVE  q \in Seq(B)
OBVIOUS

\* A function on 1..n is a sequence of length n.
LEMMA FunctionIsSeq ==
  ASSUME NEW S, NEW n \in Nat, NEW f \in [1..n -> S]
  PROVE  f \in Seq(S) /\ Len(f) = n
OBVIOUS

\* The empty sequence is one over any set.
LEMMA EmptyIs == DOMAIN <<>> = {} /\ \A S : <<>> \in Seq(S)
OBVIOUS

-----------------------------------------------------------------------------
(* Numbers.                                                                *)

\* Every set of numbers that is not empty has a least one.
LEMMA NatLess == IsWellFoundedOn({x \in Nat \X Nat : x[1] < x[2]}, Nat)
BY NatLessThanWellFounded DEF OpToRel

(***************************************************************************)
(* A set of numbers has a least one; one that has a bound, a greatest one. *)
(***************************************************************************)
LEMMA MinOf ==
  ASSUME NEW S, S \subseteq Nat, S # {}
  PROVE  Min(S) \in S /\ \A y \in S : Min(S) <= y
<1>1. \E x \in S : \A y \in S : ~(<<y, x>> \in {z \in Nat \X Nat : z[1] < z[2]})
  <2>1. PICK e : e \in S
    OBVIOUS
  <2>2. QED
    BY <2>1, NatLess, WFMin, Zenon
<1>2. PICK x \in S : \A y \in S : ~(<<y, x>> \in {z \in Nat \X Nat : z[1] < z[2]})
  BY <1>1
<1>3. \A y \in S : ~(y < x)
  BY <1>2
<1>4. \E z \in S : \A y \in S : z <= y
  BY <1>3
<1>5. QED
  BY <1>4 DEF Min

\* The greatest of some numbers up to n.
LEMMA MaxOf ==
  ASSUME NEW S, NEW n \in Nat, S \subseteq 0..n, S # {}
  PROVE  Max(S) \in S /\ \A y \in S : y <= Max(S)
<1> DEFINE D == {d \in 0..n : n - d \in S}
<1>1. D \subseteq Nat /\ D # {}
  <2>1. PICK e : e \in S
    OBVIOUS
  <2>2. n - e \in D
    BY <2>1
  <2>3. QED
    BY <2>2
<1>2. Min(D) \in D /\ \A y \in D : Min(D) <= y
  BY <1>1, MinOf
<1>3. PICK d \in D : \A y \in D : d <= y
  BY <1>2
<1>4. n - d \in S /\ \A y \in S : y <= n - d
  <2>1. ASSUME NEW y \in S
        PROVE  y <= n - d
    <3>1. n - y \in D
      BY <2>1
    <3>2. d <= n - y /\ d \in Nat /\ y \in Nat
      BY <1>3, <2>1, <3>1
    <3>3. QED
      BY <3>2
  <2>2. QED
    BY <1>3, <2>1
<1>5. \E x \in S : \A y \in S : x >= y
  BY <1>4
<1>6. Max(S) \in S /\ \A y \in S : Max(S) >= y
  BY <1>5 DEF Max
<1>7. QED
  BY <1>6

-----------------------------------------------------------------------------
(* The tables.                                                             *)

\* Members are only added, and ids only taken.
StoreGrows ==
  /\ nextId <= nextId'
  /\ \A i \in DOMAIN store.members :
       i \in DOMAIN store'.members /\ store'.members[i] = store.members[i]

StoreKept == StoreTypeOK' /\ IdsFresh' /\ StoreGrows

\* The tables, column by column.
LEMMA StoreTypes ==
  ASSUME StoreTypeOK
  PROVE  /\ nextId \in Nat
         /\ store.chats \in Seq(ChatRows) /\ store.members \in Seq(MemberRows)
         /\ store.relations \in Seq(RelationRows)
         /\ store.messages \in Seq(MessageRows)
         /\ store = [chats |-> store.chats, members |-> store.members,
                     relations |-> store.relations, messages |-> store.messages]
         /\ \A i \in DOMAIN store.chats :
              store.chats[i].id \in Nat /\ store.chats[i].room \in Rooms
         /\ \A i \in DOMAIN store.members :
              store.members[i].id \in Nat /\ store.members[i].name \in Names
         /\ \A i \in DOMAIN store.relations :
              /\ store.relations[i].chat \in Nat
              /\ store.relations[i].member \in Nat
         /\ \A i \in DOMAIN store.messages : store.messages[i] \in MessageRows
         /\ \A i \in DOMAIN store.messages : store.messages[i].id \in Nat
<1>1. nextId \in Nat
      /\ store \in [chats : Seq(ChatRows), members : Seq(MemberRows),
                    relations : Seq(RelationRows), messages : Seq(MessageRows)]
  BY DEF StoreTypeOK
<1>2. /\ store.chats \in Seq(ChatRows) /\ store.members \in Seq(MemberRows)
      /\ store.relations \in Seq(RelationRows)
      /\ store.messages \in Seq(MessageRows)
      /\ store = [chats |-> store.chats, members |-> store.members,
                  relations |-> store.relations, messages |-> store.messages]
  BY <1>1
<1>3. \A i \in DOMAIN store.chats : store.chats[i] \in ChatRows
  BY <1>2
<1>4. \A i \in DOMAIN store.members : store.members[i] \in MemberRows
  BY <1>2
<1>5. \A i \in DOMAIN store.relations : store.relations[i] \in RelationRows
  BY <1>2
<1>6. \A i \in DOMAIN store.messages : store.messages[i] \in MessageRows
  BY <1>2
<1>7. \A i \in DOMAIN store.messages : store.messages[i].id \in Nat
  BY <1>6 DEF MessageRows
<1>8. QED
  BY <1>1, <1>2, <1>3, <1>4, <1>5, <1>6, <1>7 DEF ChatRows, MemberRows, RelationRows

\* A step that leaves the tables keeps their types.
LEMMA SameStore ==
  ASSUME TypeInv, store' = store, nextId' \in Nat, nextId <= nextId'
  PROVE  StoreKept
<1>1. StoreTypeOK'
  BY DEF TypeInv, StoreTypeOK
<1>2. nextId \in Nat
  BY StoreTypes DEF TypeInv
<1>3. StoreGrows
  BY <1>2 DEF StoreGrows
<1>4. \A id \in Nat : id < nextId => id < nextId'
  BY <1>2
<1>5. /\ IdsFresh
      /\ \A i \in DOMAIN store.chats : store.chats[i].id \in Nat
      /\ \A i \in DOMAIN store.members : store.members[i].id \in Nat
      /\ \A i \in DOMAIN store.messages : store.messages[i].id \in Nat
      /\ \A i \in DOMAIN store.relations : store.relations[i].chat \in Nat
  BY StoreTypes DEF TypeInv
<1>6. IdsFresh'
  BY <1>4, <1>5 DEF IdsFresh
<1>7. QED
  BY <1>1, <1>3, <1>6 DEF StoreKept

(***************************************************************************)
(* A coroutine can go on with what it has read as rows are added.          *)
(***************************************************************************)
LEMMA ShapeKept ==
  ASSUME StoreGrows, NEW t, TaskShape(t)
  PROVE  TaskShape(t)'
<1>1. Looking(t) => Looking(t)'
  <2> SUFFICES ASSUME Looking(t)
               PROVE  Looking(t)'
    OBVIOUS
  <2>1. ASSUME NEW i \in DOMAIN t.found
        PROVE  \E k \in DOMAIN store'.members : store'.members[k] = t.found[i]
    BY DEF Looking, StoreGrows
  <2>2. QED
    BY <2>1 DEF Looking
<1>2. QED
  BY <1>1 DEF TaskShape, Idle, One

\* The coroutines that stay in the queue can still go on.
LEMMA TasksKept ==
  ASSUME TypeInv, StoreGrows
  PROVE  tasks \in Seq(ShapedTasks')
<1>1. \A t \in ShapedTasks : t \in ShapedTasks'
  <2>1. ASSUME NEW t \in ShapedTasks
        PROVE  t \in ShapedTasks'
    <3>1. TaskShape(t)'
      BY <2>1, ShapeKept DEF ShapedTasks
    <3>2. QED
      BY <3>1 DEF ShapedTasks
  <2>2. QED
    BY <2>1
<1>2. QED
  BY <1>1, SeqWider DEF TypeInv, QueuesOK

(***************************************************************************)
(* The queue of coroutines after a step: one or more are spawned, or the   *)
(* one at its head ends, or goes to its end as t.                          *)
(***************************************************************************)
Spawns(s) == s \in Seq(ShapedTasks') /\ tasks' = tasks \o s
SpawnsOne(t) == t \in ShapedTasks' /\ tasks' = Append(tasks, t)
Ends == tasks' = Tail(tasks)
GoesOn(t) == t \in ShapedTasks' /\ tasks' = Append(Tail(tasks), t)

\* The new queue is one of coroutines that can go on.
LEMMA TasksAfter ==
  ASSUME TypeInv, StoreGrows,
         \/ tasks' = tasks
         \/ \E t : SpawnsOne(t)
         \/ \E s : Spawns(s)
         \/ tasks # <<>> /\ Ends
         \/ tasks # <<>> /\ \E t : GoesOn(t)
  PROVE  tasks' \in Seq(ShapedTasks')
<1>1. tasks \in Seq(ShapedTasks')
  BY TasksKept
<1>2. CASE tasks' = tasks
  BY <1>1, <1>2
<1>3. CASE \E t : SpawnsOne(t)
  BY <1>1, <1>3, AppendIs DEF SpawnsOne
<1>4. CASE \E s : Spawns(s)
  BY <1>1, <1>4, ConcatIs DEF Spawns
<1>5. CASE tasks # <<>> /\ Ends
  BY <1>1, <1>5, TailIs DEF Ends
<1>6. CASE tasks # <<>> /\ \E t : GoesOn(t)
  BY <1>1, <1>6, RotateIs DEF GoesOn
<1>7. QED
  BY <1>2, <1>3, <1>4, <1>5, <1>6

(***************************************************************************)
(* A new id is the id of no row of these tables.                           *)
(***************************************************************************)
LEMMA NextIsNew ==
  ASSUME TypeInv
  PROVE  /\ ~HasChat(store, nextId) /\ ~HasMember(store, nextId)
         /\ ~HasMessage(store, nextId)
<1>1. /\ nextId \in Nat
      /\ \A i \in DOMAIN store.chats :
           store.chats[i].id \in Nat /\ store.chats[i].id < nextId
      /\ \A i \in DOMAIN store.members :
           store.members[i].id \in Nat /\ store.members[i].id < nextId
      /\ \A i \in DOMAIN store.messages :
           store.messages[i].id \in Nat /\ store.messages[i].id < nextId
  BY StoreTypes DEF TypeInv, IdsFresh
<1>2. ~(nextId < nextId)
  BY <1>1
<1>3. /\ \A i \in DOMAIN store.chats : store.chats[i].id # nextId
      /\ \A i \in DOMAIN store.members : store.members[i].id # nextId
      /\ \A i \in DOMAIN store.messages : store.messages[i].id # nextId
  BY <1>1, <1>2
<1>4. QED
  BY <1>3 DEF HasChat, HasMember, HasMessage, Has

\* Table t is s and the row of a new id.
Added(s, t, row) ==
  /\ DOMAIN t = DOMAIN s \cup {Len(s) + 1} /\ Len(s) + 1 \notin DOMAIN s
  /\ Len(s) \in Nat
  /\ \A i \in DOMAIN s : i < Len(s) + 1 /\ t[i] = s[i]
  /\ t[Len(s) + 1] = row

\* An appended row is added.
LEMMA RowAdded ==
  ASSUME NEW S, NEW s \in Seq(S), NEW row \in S
  PROVE  Append(s, row) \in Seq(S) /\ Added(s, Append(s, row), row)
BY DEF Added

\* AddChat keeps the types and adds the chat's row (ChatRepository).
LEMMA ChatAdded ==
  ASSUME TypeInv, NEW room \in Rooms, nextId' = nextId + 1,
         store' = AddChat(store, [id |-> nextId, room |-> room])
  PROVE  /\ StoreKept
         /\ Added(store.chats, store'.chats, [id |-> nextId, room |-> room])
         /\ store'.members = store.members
         /\ store'.relations = store.relations
         /\ store'.messages = store.messages
<1> DEFINE row == [id |-> nextId, room |-> room]
<1>1. StoreTypeOK /\ nextId \in Nat /\ row \in ChatRows /\ row.id = nextId
      /\ ~HasChat(store, row.id)
  BY StoreTypes, NextIsNew DEF TypeInv, ChatRows
<1>2. store' = [store EXCEPT !.chats = Append(@, row)]
  BY <1>1 DEF AddChat
<1>3. /\ store'.chats = Append(store.chats, row)
      /\ store'.members = store.members
      /\ store'.relations = store.relations
      /\ store'.messages = store.messages
      /\ store' = [chats |-> Append(store.chats, row),
                   members |-> store.members, relations |-> store.relations,
                   messages |-> store.messages]
  BY <1>1, <1>2, StoreTypes
<1>4. store'.chats \in Seq(ChatRows) /\ Added(store.chats, store'.chats, row)
  BY <1>1, <1>3, RowAdded, StoreTypes
<1>5. StoreTypeOK'
  BY <1>1, <1>3, <1>4, StoreTypes DEF StoreTypeOK
<1>6. StoreGrows
  BY <1>1, <1>3 DEF StoreGrows
<1>7. \A i \in DOMAIN store'.chats : store'.chats[i].id < nextId'
  <2>1. \A i \in DOMAIN store.chats :
          store.chats[i].id \in Nat /\ store.chats[i].id < nextId
    BY StoreTypes DEF TypeInv, IdsFresh
  <2>2. \A i \in DOMAIN store.chats : store.chats[i].id < nextId + 1
    BY <2>1, <1>1
  <2>3. QED
    BY <2>2, <1>1, <1>4 DEF Added
<1>8. \A n \in Nat : n < nextId => n < nextId'
  BY <1>1
<1>9. IdsFresh'
  BY <1>3, <1>7, <1>8, StoreTypes DEF TypeInv, IdsFresh
<1>10. QED
  BY <1>3, <1>4, <1>5, <1>6, <1>9 DEF StoreKept

\* AddMember keeps the types and adds the member's row (MemberRepository).
LEMMA MemberAdded ==
  ASSUME TypeInv, NEW name \in Names, nextId' = nextId + 1,
         store' = AddMember(store, [id |-> nextId, name |-> name])
  PROVE  /\ StoreKept
         /\ Added(store.members, store'.members, [id |-> nextId, name |-> name])
         /\ store'.chats = store.chats
         /\ store'.relations = store.relations
         /\ store'.messages = store.messages
<1> DEFINE row == [id |-> nextId, name |-> name]
<1>1. StoreTypeOK /\ nextId \in Nat /\ row \in MemberRows /\ row.id = nextId
      /\ ~HasMember(store, row.id)
  BY StoreTypes, NextIsNew DEF TypeInv, MemberRows
<1>2. store' = [store EXCEPT !.members = Append(@, row)]
  BY <1>1 DEF AddMember
<1>3. /\ store'.members = Append(store.members, row)
      /\ store'.chats = store.chats
      /\ store'.relations = store.relations
      /\ store'.messages = store.messages
      /\ store' = [chats |-> store.chats,
                   members |-> Append(store.members, row),
                   relations |-> store.relations, messages |-> store.messages]
  BY <1>1, <1>2, StoreTypes
<1>4. /\ store'.members \in Seq(MemberRows)
      /\ Added(store.members, store'.members, row)
  BY <1>1, <1>3, RowAdded, StoreTypes
<1>5. StoreTypeOK'
  BY <1>1, <1>3, <1>4, StoreTypes DEF StoreTypeOK
<1>6. StoreGrows
  BY <1>1, <1>3, <1>4 DEF StoreGrows, Added
<1>7. \A i \in DOMAIN store.members :
        store.members[i].id \in Nat /\ store.members[i].id < nextId
  BY StoreTypes DEF TypeInv, IdsFresh
<1>8. \A i \in DOMAIN store'.members : store'.members[i].id < nextId'
  <2>2. \A i \in DOMAIN store.members : store.members[i].id < nextId + 1
    BY <1>7, <1>1
  <2>3. QED
    BY <2>2, <1>1, <1>4 DEF Added
<1>9. ASSUME NEW i \in DOMAIN store'.members, NEW j \in DOMAIN store'.members,
             store'.members[i].id = store'.members[j].id
      PROVE  i = j
  <2>1. CASE i \in DOMAIN store.members /\ j \in DOMAIN store.members
    BY <2>1, <1>9, <1>4 DEF TypeInv, IdsFresh, Added
  <2>2. ASSUME NEW k \in DOMAIN store.members
        PROVE  store'.members[k].id # nextId
    BY <2>2, <1>1, <1>4, <1>7 DEF Added
  <2>3. QED
    BY <1>1, <1>4, <1>9, <2>1, <2>2 DEF Added
<1>10. \A n \in Nat : n < nextId => n < nextId'
  BY <1>1
<1>11. IdsFresh'
  BY <1>3, <1>8, <1>9, <1>10, StoreTypes DEF TypeInv, IdsFresh
<1>12. QED
  BY <1>3, <1>4, <1>5, <1>6, <1>11 DEF StoreKept

\* AddMessage keeps the types and adds the message's row if it may.
LEMMA MessageAdded ==
  ASSUME TypeInv, NEW row \in MessageRows, row.id = nextId,
         nextId' = nextId + 1, store' = AddMessage(store, row)
  PROVE  /\ StoreKept
         /\ IF MayAddMessage(store, row)
            THEN Added(store.messages, store'.messages, row)
            ELSE store'.messages = store.messages
         /\ store'.chats = store.chats /\ store'.members = store.members
         /\ store'.relations = store.relations
<1>1. StoreTypeOK /\ nextId \in Nat /\ nextId' \in Nat /\ nextId <= nextId'
  BY StoreTypes DEF TypeInv
<1>2. CASE ~MayAddMessage(store, row)
  <2>1. store' = store
    BY <1>2 DEF AddMessage
  <2>2. QED
    BY <1>1, <1>2, <2>1, SameStore
<1>3. CASE MayAddMessage(store, row)
  <2>2. store' = [store EXCEPT !.messages = Append(@, row)]
    BY <1>3 DEF AddMessage
  <2>3. /\ store'.messages = Append(store.messages, row)
        /\ store'.chats = store.chats
        /\ store'.members = store.members
        /\ store'.relations = store.relations
        /\ store' = [chats |-> store.chats, members |-> store.members,
                     relations |-> store.relations,
                     messages |-> Append(store.messages, row)]
    BY <1>1, <2>2, StoreTypes
  <2>4. /\ store'.messages \in Seq(MessageRows)
        /\ Added(store.messages, store'.messages, row)
    BY <1>1, <2>3, RowAdded, StoreTypes
  <2>5. StoreTypeOK'
    BY <1>1, <2>3, <2>4, StoreTypes DEF StoreTypeOK
  <2>6. StoreGrows
    BY <1>1, <2>3 DEF StoreGrows
  <2>7. \A i \in DOMAIN store'.messages : store'.messages[i].id < nextId'
    <3>1. \A i \in DOMAIN store.messages :
            store.messages[i].id \in Nat /\ store.messages[i].id < nextId
      BY StoreTypes DEF TypeInv, IdsFresh
    <3>2. \A i \in DOMAIN store.messages : store.messages[i].id < nextId + 1
      BY <3>1, <1>1
    <3>3. QED
      BY <3>2, <1>1, <2>4 DEF Added
  <2>8. \A n \in Nat : n < nextId => n < nextId'
    BY <1>1
  <2>9. IdsFresh'
    BY <2>3, <2>7, <2>8, StoreTypes DEF TypeInv, IdsFresh
  <2>10. QED
    BY <1>3, <2>3, <2>4, <2>5, <2>6, <2>9 DEF StoreKept
<1>4. QED
  BY <1>2, <1>3

\* AddMemberToChat keeps the types and adds the relation's row if it may.
LEMMA RelationAdded ==
  ASSUME TypeInv, NEW chat \in Nat, NEW member \in Nat, nextId' = nextId,
         store' = AddMemberToChat(store, chat, member)
  PROVE  /\ StoreKept
         /\ \/ /\ HasRelation(store, chat, member)
                  \/ ~HasBoth(store, chat, member)
               /\ store' = store
            \/ /\ HasChat(store, chat)
               /\ Added(store.relations, store'.relations,
                        [chat |-> chat, member |-> member])
         /\ store'.chats = store.chats /\ store'.members = store.members
         /\ store'.messages = store.messages
<1>1. StoreTypeOK /\ nextId \in Nat
  BY StoreTypes DEF TypeInv
<1>2. CASE HasRelation(store, chat, member) \/ ~HasBoth(store, chat, member)
  <2>1. store' = store
    BY <1>2 DEF AddMemberToChat
  <2>2. QED
    BY <1>1, <1>2, <2>1, SameStore
<1>3. CASE ~HasRelation(store, chat, member) /\ HasBoth(store, chat, member)
  <2> DEFINE row == [chat |-> chat, member |-> member]
  <2>1. row \in RelationRows /\ row.chat = chat
    BY DEF RelationRows
  <2>2. store' = [store EXCEPT !.relations = Append(@, row)]
    BY <1>3 DEF AddMemberToChat
  <2>3. /\ store'.relations = Append(store.relations, row)
        /\ store'.chats = store.chats
        /\ store'.members = store.members
        /\ store'.messages = store.messages
        /\ store' = [chats |-> store.chats, members |-> store.members,
                     relations |-> Append(store.relations, row),
                     messages |-> store.messages]
    BY <1>1, <2>2, StoreTypes
  <2>4. /\ store'.relations \in Seq(RelationRows)
        /\ Added(store.relations, store'.relations, row)
    BY <1>1, <2>1, <2>3, RowAdded, StoreTypes
  <2>5. StoreTypeOK'
    BY <1>1, <2>3, <2>4, StoreTypes DEF StoreTypeOK
  <2>6. StoreGrows
    BY <1>1, <2>3 DEF StoreGrows
  <2>7. HasChat(store, chat)
    BY <1>3 DEF HasBoth
  <2>8. chat < nextId
    BY <2>7 DEF HasChat, Has, TypeInv, IdsFresh
  <2>9. \A i \in DOMAIN store'.relations : store'.relations[i].chat < nextId'
    BY <2>1, <2>4, <2>8 DEF Added, TypeInv, IdsFresh
  <2>10. IdsFresh'
    BY <2>3, <2>9 DEF TypeInv, IdsFresh
  <2>11. QED
    BY <2>3, <2>4, <2>5, <2>6, <2>7, <2>10 DEF StoreKept
<1>4. QED
  BY <1>2, <1>3

(***************************************************************************)
(* Table t has the rows of s at these places, in their order: its i-th is  *)
(* that at at[i].                                                          *)
(***************************************************************************)
Follows(s, places, t, at) ==
  /\ at \in [DOMAIN t -> places]
  /\ \A i \in DOMAIN t : t[i] = s[at[i]]
  /\ \A j \in places : \E i \in DOMAIN t : at[i] = j
  /\ \A i, j \in DOMAIN t : i < j => at[i] < at[j]

\* How many of these places are up to one: each is the n-th for one n.
LEMMA NthIs ==
  ASSUME NEW m \in Nat, NEW places, places \subseteq 1..m
  PROVE  /\ Cardinality(places) \in Nat
         /\ \A n \in 1..Cardinality(places) :
              /\ Nth(places, n) \in places
              /\ Cardinality({j \in places : j <= Nth(places, n)}) = n
         /\ \A i \in places :
              /\ Cardinality({j \in places : j <= i}) \in 1..Cardinality(places)
              /\ Nth(places, Cardinality({j \in places : j <= i})) = i
<1> DEFINE upto(i) == {j \in places : j <= i}
           N == Cardinality(places)
<1>1. IsFiniteSet(places) /\ N \in Nat
  <2>1. IsFiniteSet(1..m)
    BY FS_Interval
  <2>2. IsFiniteSet(places)
    BY <2>1, FS_Subset
  <2>3. QED
    BY <2>2, FS_CardinalityType
<1>2. ASSUME NEW i \in places
      PROVE  IsFiniteSet(upto(i)) /\ Cardinality(upto(i)) \in 1..N
  <2>1. upto(i) \subseteq places /\ i \in upto(i)
    OBVIOUS
  <2>2. /\ IsFiniteSet(upto(i)) /\ Cardinality(upto(i)) <= N
        /\ Cardinality(upto(i)) \in Nat /\ Cardinality(upto(i)) # 0
    <3>1. IsFiniteSet(upto(i)) /\ Cardinality(upto(i)) <= N
      BY <1>1, <2>1, FS_Subset
    <3>2. Cardinality(upto(i)) \in Nat
      BY <3>1, FS_CardinalityType
    <3>3. Cardinality(upto(i)) # 0
      BY <2>1, <3>1, FS_EmptySet
    <3>4. QED
      BY <3>1, <3>2, <3>3
  <2>3. QED
    BY <1>1, <2>2
<1>3. ASSUME NEW i \in places, NEW k \in places, i < k
      PROVE  Cardinality(upto(i)) < Cardinality(upto(k))
  <2>1. upto(i) \subseteq upto(k) /\ k \in upto(k) /\ k \notin upto(i)
    <3>1. i \in Nat /\ k \in Nat /\ k <= k /\ ~(k <= i)
      BY <1>3
    <3>2. \A j \in places : j <= i => j <= k
      <4>1. \A j \in places : j \in Nat
        OBVIOUS
      <4>2. QED
        BY <1>3, <3>1, <4>1
    <3>3. QED
      BY <3>1, <3>2
  <2>2. upto(i) # upto(k)
    BY <2>1
  <2>3. IsFiniteSet(upto(k))
    BY <1>2
  <2>4. /\ Cardinality(upto(i)) <= Cardinality(upto(k))
        /\ Cardinality(upto(i)) = Cardinality(upto(k)) => upto(i) = upto(k)
    BY <2>1, <2>3, FS_Subset
  <2>5. Cardinality(upto(i)) \in Nat /\ Cardinality(upto(k)) \in Nat
    BY <1>1, <1>2
  <2>6. QED
    BY <2>2, <2>4, <2>5
<1> DEFINE count == [i \in places |-> Cardinality(upto(i))]
<1>4. count \in Injection(places, 1..N)
  <2>1. count \in [places -> 1..N]
    BY <1>2
  <2>2. ASSUME NEW i \in places, NEW k \in places, count[i] = count[k]
        PROVE  i = k
    <3>1. /\ i < k => count[i] < count[k]
          /\ k < i => count[k] < count[i]
      BY <1>3
    <3>2. count[i] \in Nat /\ i \in Nat /\ k \in Nat
      BY <2>1
    <3>3. QED
      BY <2>2, <3>1, <3>2
  <2>3. QED
    BY <2>1, <2>2 DEF Injection, IsInjective
<1>5. count \in Surjection(places, 1..N)
  <2>1. IsFiniteSet(1..N) /\ Cardinality(1..N) = N
    BY <1>1, FS_Interval
  <2>2. QED
    BY <1>1, <1>4, <2>1, FS_Injection
<1>6. ASSUME NEW n \in 1..N
      PROVE  Nth(places, n) \in places /\ Cardinality(upto(Nth(places, n))) = n
  <2>1. \E i \in places : count[i] = n
    BY <1>5, <1>6 DEF Surjection
  <2>2. \E i \in places : Cardinality(upto(i)) = n
    BY <2>1
  <2>3. QED
    BY <2>2 DEF Nth
<1>7. ASSUME NEW i \in places
      PROVE  Nth(places, Cardinality(upto(i))) = i
  <2>1. PICK n \in 1..N : n = Cardinality(upto(i))
    BY <1>2
  <2>2. PICK k \in places : k = Nth(places, n)
    BY <1>6
  <2>3. count[k] = count[i]
    BY <1>6, <2>1, <2>2
  <2>4. QED
    BY <1>4, <2>1, <2>2, <2>3 DEF Injection, IsInjective
<1>8. QED
  BY <1>1, <1>2, <1>6, <1>7

\* What a table keeps are its rows at these places.
LEMMA KeepIs ==
  ASSUME NEW S, NEW s \in Seq(S), NEW places, places \subseteq DOMAIN s
  PROVE  /\ Keep(s, places) \in Seq(S)
         /\ \E at : Follows(s, places, Keep(s, places), at)
<1> DEFINE upto(i) == {j \in places : j <= i}
           N == Cardinality(places)
           at == [n \in 1..N |-> Nth(places, n)]
           t == Keep(s, places)
<1>1. places \subseteq 1..Len(s) /\ Len(s) \in Nat
  OBVIOUS
<1>2. /\ N \in Nat
      /\ \A n \in 1..N :
           Nth(places, n) \in places /\ Cardinality(upto(Nth(places, n))) = n
      /\ \A i \in places :
           Cardinality(upto(i)) \in 1..N /\ Nth(places, Cardinality(upto(i))) = i
  BY <1>1, NthIs
<1>3. at \in [1..N -> places]
  BY <1>2
<1>4. t = [n \in 1..N |-> s[at[n]]]
  BY DEF Keep
<1>5. \A i \in places : s[i] \in S
  OBVIOUS
<1>6. \A j \in places : \E n \in 1..N : at[n] = j
  BY <1>2
<1>7. ASSUME NEW n \in 1..N, NEW m \in 1..N, n < m
      PROVE  at[n] < at[m]
  <2>1. /\ at[n] \in places /\ at[m] \in places
        /\ Cardinality(upto(at[n])) = n /\ Cardinality(upto(at[m])) = m
    BY <1>2
  <2>2. CASE at[m] <= at[n]
    <3>1. upto(at[m]) \subseteq upto(at[n])
      BY <1>1, <2>1, <2>2
    <3>2. IsFiniteSet(upto(at[n]))
      <4>1. IsFiniteSet(1..Len(s))
        BY <1>1, FS_Interval
      <4>2. upto(at[n]) \subseteq 1..Len(s)
        BY <1>1
      <4>3. QED
        BY <4>1, <4>2, FS_Subset
    <3>3. Cardinality(upto(at[m])) <= Cardinality(upto(at[n]))
      BY <3>1, <3>2, FS_Subset
    <3>4. QED
      BY <1>2, <1>7, <2>1, <3>3
  <2>3. QED
    BY <1>1, <2>1, <2>2
<1> HIDE DEF at, N
<1>8. t \in [1..N -> S]
  BY <1>3, <1>4, <1>5
<1>9. t \in Seq(S) /\ DOMAIN t = 1..N
  BY <1>2, <1>8, FunctionIsSeq
<1>10. Follows(s, places, t, at)
  BY <1>3, <1>4, <1>6, <1>7, <1>9 DEF Follows
<1>11. QED
  BY <1>9, <1>10

\* What follows a table are rows of it.
RowsOf(s, t) == \A i \in DOMAIN t : \E j \in DOMAIN s : t[i] = s[j]

\* The rows that are not of this id, or of this chat, stay, and no others.
LEMMA RestIs ==
  ASSUME NEW S, NEW s \in Seq(S), NEW places, places \subseteq DOMAIN s
  PROVE  /\ Keep(s, places) \in Seq(S) /\ RowsOf(s, Keep(s, places))
         /\ \A i \in DOMAIN Keep(s, places) :
              \E j \in places : Keep(s, places)[i] = s[j]
         /\ \A j \in places :
              \E i \in DOMAIN Keep(s, places) : Keep(s, places)[i] = s[j]
<1>1. PICK at : Follows(s, places, Keep(s, places), at)
  BY KeepIs
<1>2. PICK t : t = Keep(s, places)
  OBVIOUS
<1>3. t \in Seq(S) /\ Follows(s, places, t, at)
  BY <1>1, <1>2, KeepIs
<1>4. /\ \A i \in DOMAIN t : at[i] \in places /\ t[i] = s[at[i]]
      /\ \A j \in places : \E i \in DOMAIN t : at[i] = j
  BY <1>3 DEF Follows
<1>5. QED
  BY <1>2, <1>3, <1>4 DEF RowsOf

\* RemoveChat keeps the types; the chat and what refers to it are gone.
LEMMA ChatRemoved ==
  ASSUME TypeInv, NEW id, nextId' = nextId, store' = RemoveChat(store, id)
  PROVE  /\ StoreKept
         /\ RowsOf(store.chats, store'.chats)
         /\ \A i \in DOMAIN store'.chats : store'.chats[i].id # id
         /\ store'.members = store.members
         /\ store'.relations = NotOfChat(store.relations, id)
         /\ store'.messages = NotOfChat(store.messages, id)
         /\ RowsOf(store.relations, store'.relations)
         /\ RowsOf(store.messages, store'.messages)
         /\ \A j \in DOMAIN store.relations : store.relations[j].chat # id =>
              \E i \in DOMAIN store'.relations :
                store'.relations[i] = store.relations[j]
         /\ \A j \in DOMAIN store.messages : store.messages[j].chat # id =>
              \E i \in DOMAIN store'.messages :
                store'.messages[i] = store.messages[j]
<1>1. StoreTypeOK /\ nextId \in Nat
  BY StoreTypes DEF TypeInv
<1>2. /\ store'.chats = Without(store.chats, id)
      /\ store'.members = store.members
      /\ store'.relations = NotOfChat(store.relations, id)
      /\ store'.messages = NotOfChat(store.messages, id)
      /\ store' = [chats |-> store'.chats, members |-> store.members,
                   relations |-> store'.relations,
                   messages |-> store'.messages]
  BY <1>1, StoreTypes DEF RemoveChat
<1> DEFINE others == {i \in DOMAIN store.chats : store.chats[i].id # id}
           heard == DOMAIN store.messages \ OfChat(store.messages, id)
           known == DOMAIN store.relations \ OfChat(store.relations, id)
<1>3. /\ others \subseteq DOMAIN store.chats
      /\ heard \subseteq DOMAIN store.messages
      /\ known \subseteq DOMAIN store.relations
      /\ \A j \in others : store.chats[j].id # id
      /\ \A j \in DOMAIN store.messages :
           store.messages[j].chat # id => j \in heard
      /\ \A j \in DOMAIN store.relations :
           store.relations[j].chat # id => j \in known
  BY DEF OfChat
<1>4. /\ store'.chats = Keep(store.chats, others)
      /\ store'.relations = Keep(store.relations, known)
      /\ store'.messages = Keep(store.messages, heard)
  BY <1>2 DEF Without, NotOfChat
<1> HIDE DEF others, heard, known
<1>5. /\ store'.chats \in Seq(ChatRows) /\ RowsOf(store.chats, store'.chats)
      /\ \A i \in DOMAIN store'.chats : store'.chats[i].id # id
  BY <1>1, <1>3, <1>4, RestIs, StoreTypes
<1>6. /\ store'.relations \in Seq(RelationRows)
      /\ RowsOf(store.relations, store'.relations)
      /\ \A j \in known : \E i \in DOMAIN store'.relations :
           store'.relations[i] = store.relations[j]
  BY <1>1, <1>3, <1>4, RestIs, StoreTypes
<1>7. /\ store'.messages \in Seq(MessageRows)
      /\ RowsOf(store.messages, store'.messages)
      /\ \A j \in heard : \E i \in DOMAIN store'.messages :
           store'.messages[i] = store.messages[j]
  BY <1>1, <1>3, <1>4, RestIs, StoreTypes
<1>8. StoreTypeOK'
  BY <1>1, <1>2, <1>5, <1>6, <1>7, StoreTypes DEF StoreTypeOK
<1>9. StoreGrows
  BY <1>1, <1>2 DEF StoreGrows
<1>10. IdsFresh'
  BY <1>2, <1>5, <1>6, <1>7 DEF TypeInv, IdsFresh, RowsOf
<1>11. QED
  BY <1>2, <1>3, <1>5, <1>6, <1>7, <1>8, <1>9, <1>10 DEF StoreKept

-----------------------------------------------------------------------------
(* The io thread keeps the types.                                          *)

\* What a turn of the io thread leaves of them.
IoKept == StoreKept /\ tasks' \in Seq(ShapedTasks') /\ events' \in Seq(Events)

\* The coroutine at the head of the queue, by where it is.
LEMMA TaskTypes ==
  ASSUME TypeInv, tasks # <<>>
  PROVE  /\ task \in Tasks /\ TaskShape(task) /\ task = tasks[1]
         /\ 1 \in DOMAIN tasks
         /\ task.op = "send" => task \in SendTasks
         /\ task.op = "incoming" => task \in IncomingTasks
         /\ task.op = "joined" => task \in JoinedTasks \cup JoiningTasks
         /\ task.op = "leave" => task \in LeaveTasks
         /\ task.op = "remove" => task \in RemoveTasks
         /\ task.op \in {"send", "incoming", "joined", "leave", "remove"}
<1>1. task \in ShapedTasks /\ task = tasks[1] /\ 1 \in DOMAIN tasks
  BY TailIs DEF TypeInv, QueuesOK, task
<1>2. task \in Tasks /\ TaskShape(task)
  BY <1>1 DEF ShapedTasks
<1>3. QED
  BY <1>1, <1>2 DEF Tasks, SendTasks, IncomingTasks, JoinedTasks, JoiningTasks,
     LeaveTasks, RemoveTasks

\* Which coroutines are suspended where.
LEMMA TaskAt ==
  ASSUME TypeInv, tasks # <<>>
  PROVE  /\ task.at = "chat" => task.op \in {"send", "leave"}
         /\ task.at = "chats" => task.op \in {"incoming", "joined"}
         /\ task.at \in {"relations", "lookup", "message"} =>
              task.op \in {"send", "incoming"}
         /\ task.at \in {"chats", "new chat", "member"} /\ task.op = "joined" =>
              task \in JoinedTasks
         /\ task.at = "new chat" => task.op = "joined"
         /\ task.at \in {"member", "relation"} =>
              task.op \in {"incoming", "joined"}
         /\ task.at = "relation" /\ task.op = "joined" => task \in JoiningTasks
         /\ task.at = "remove" => task.op = "remove"
         /\ task.at = "start" /\ task.op = "joined" => task \in JoinedTasks
BY TaskTypes DEF SendTasks, IncomingTasks, JoinedTasks, JoiningTasks,
   LeaveTasks, RemoveTasks

(***************************************************************************)
(* It goes on if what it has read holds of the database.                   *)
(***************************************************************************)
LEMMA GoesOnTo ==
  ASSUME StoreGrows, NEW t \in Tasks, TaskShape(t), Suspend(t)
  PROVE  GoesOn(t)
BY ShapeKept DEF ShapedTasks, GoesOn, Suspend

\* What a turn of the io thread has to leave for the types to be kept.
LEMMA IoStep ==
  ASSUME TypeInv, tasks # <<>>, StoreKept, events' \in Seq(Events),
         Ends \/ \E t : GoesOn(t)
  PROVE  IoKept
BY TasksAfter DEF IoKept, StoreKept

\* A turn that writes nothing leaves the tables.
LEMMA SameStoreIo ==
  ASSUME TypeInv, UNCHANGED <<store, nextId>>
  PROVE  StoreKept /\ StoreGrows
<1>1. nextId' \in Nat /\ nextId <= nextId' /\ store' = store
  BY StoreTypes DEF TypeInv
<1>2. QED
  BY <1>1, SameStore DEF StoreKept

\* A coroutine that starts keeps the types.
LEMMA BeginTypes ==
  ASSUME TypeInv, tasks # <<>>, Begin
  PROVE  IoKept
<1> DEFINE place == CASE task.op \in {"incoming", "joined"} -> "chats"
                      [] task.op \in {"send", "leave"} -> "chat"
                      [] task.op = "remove" -> "remove"
<1>1. PICK t : t = [task EXCEPT !.at = place]
  OBVIOUS
<1>2. StoreKept /\ StoreGrows /\ events' \in Seq(Events) /\ Suspend(t)
      /\ task.at = "start"
  BY <1>1, SameStoreIo DEF Begin, Goto, TypeInv, QueuesOK
<1>3. t \in Tasks /\ TaskShape(t)
  <2>1. CASE task.op = "send"
    <3>1. task \in SendTasks /\ TaskShape(task)
      BY <2>1, TaskTypes
    <3>2. t = [task EXCEPT !.at = "chat"]
      BY <1>1, <2>1
    <3>3. QED
      BY <1>2, <2>1, <3>1, <3>2 DEF SendTasks, Tasks, TaskShape, Idle
  <2>2. CASE task.op = "incoming"
    <3>1. task \in IncomingTasks /\ TaskShape(task)
      BY <2>2, TaskTypes
    <3>2. t = [task EXCEPT !.at = "chats"]
      BY <1>1, <2>2
    <3>3. QED
      BY <1>2, <2>2, <3>1, <3>2 DEF IncomingTasks, Tasks, TaskShape, Idle
  <2>3. CASE task.op = "joined"
    <3>1. task \in JoinedTasks /\ TaskShape(task)
      BY <1>2, <2>3, TaskTypes, TaskAt
    <3>2. t = [task EXCEPT !.at = "chats"]
      BY <1>1, <2>3
    <3>3. QED
      BY <1>2, <2>3, <3>1, <3>2 DEF JoinedTasks, Tasks, TaskShape
  <2>4. CASE task.op = "leave"
    <3>1. task \in LeaveTasks
      BY <2>4, TaskTypes
    <3>2. t = [task EXCEPT !.at = "chat"]
      BY <1>1, <2>4
    <3>3. QED
      BY <3>1, <3>2 DEF LeaveTasks, Tasks, TaskShape
  <2>5. CASE task.op = "remove"
    <3>1. task \in RemoveTasks
      BY <2>5, TaskTypes
    <3>2. t = [task EXCEPT !.at = "remove"]
      BY <1>1, <2>5
    <3>3. QED
      BY <3>1, <3>2 DEF RemoveTasks, Tasks, TaskShape
  <2>6. QED
    BY <2>1, <2>2, <2>3, <2>4, <2>5, TaskTypes
<1>4. QED
  BY <1>2, <1>3, GoesOnTo, IoStep

(***************************************************************************)
(* The chat that is found is one of the room.                              *)
(***************************************************************************)
LEMMA ChatFound ==
  ASSUME TypeInv, NEW r, ChatsOf(store, r) # {}
  PROVE  /\ Min(ChatsOf(store, r)) \in DOMAIN store.chats
         /\ store.chats[Min(ChatsOf(store, r))].room = r
         /\ store.chats[Min(ChatsOf(store, r))].id \in Nat
<1>1. store.chats \in Seq(ChatRows)
  BY StoreTypes DEF TypeInv
<1>2. ChatsOf(store, r) \subseteq Nat
  BY <1>1 DEF ChatsOf, GetAllChats
<1>3. Min(ChatsOf(store, r)) \in ChatsOf(store, r)
  BY <1>2, MinOf
<1>4. QED
  BY <1>3, StoreTypes DEF ChatsOf, GetAllChats, TypeInv

\* A look-up of the chats of a room keeps the types.
LEMMA FindRoomTypes ==
  ASSUME TypeInv, tasks # <<>>, FindRoom
  PROVE  IoKept
<1>1. StoreKept /\ StoreGrows /\ events' \in Seq(Events) /\ task.at = "chats"
  BY SameStoreIo DEF FindRoom, TypeInv, QueuesOK
<1>2. PICK chat : chat = store.chats[Min(ChatsOf(store, task.room))].id
  OBVIOUS
<1>3. CASE ChatsOf(store, task.room) # {} /\ task.op = "incoming"
           /\ Suspend([task EXCEPT !.at = "relations", !.chat = chat])
  <2>1. PICK t : t = [task EXCEPT !.at = "relations", !.chat = chat]
    OBVIOUS
  <2>2. chat \in Nat /\ task \in IncomingTasks /\ TaskShape(task)
    BY <1>2, <1>3, ChatFound, TaskTypes
  <2>3. t \in Tasks /\ TaskShape(t)
    BY <1>1, <1>3, <2>1, <2>2 DEF IncomingTasks, Tasks, TaskShape, Idle, Ids
  <2>4. QED
    BY <1>1, <1>3, <2>1, <2>3, GoesOnTo, IoStep
<1>4. CASE Finish
  BY <1>1, <1>4, IoStep DEF Finish, Ends
<1>5. CASE ChatsOf(store, task.room) # {} /\ task.op = "joined"
           /\ Suspend([task EXCEPT !.at = "member", !.chat = chat])
  <2>1. PICK t : t = [task EXCEPT !.at = "member", !.chat = chat]
    OBVIOUS
  <2>2. chat \in Nat /\ task \in JoinedTasks
    BY <1>1, <1>2, <1>5, ChatFound, TaskAt
  <2>3. t \in Tasks /\ TaskShape(t)
    BY <1>5, <2>1, <2>2 DEF JoinedTasks, Tasks, TaskShape, Ids
  <2>4. QED
    BY <1>1, <1>5, <2>1, <2>3, GoesOnTo, IoStep
<1>6. CASE task.op = "joined" /\ Goto("new chat")
  <2>1. PICK t : t = [task EXCEPT !.at = "new chat"]
    OBVIOUS
  <2>2. task \in JoinedTasks
    BY <1>1, <1>6, TaskAt
  <2>3. t \in Tasks /\ TaskShape(t)
    BY <1>6, <2>1, <2>2 DEF JoinedTasks, Tasks, TaskShape
  <2>4. QED
    BY <1>1, <1>6, <2>1, <2>3, GoesOnTo, IoStep DEF Goto
<1>7. QED
  BY <1>2, <1>3, <1>4, <1>5, <1>6 DEF FindRoom

\* A row that is there is found by its id.
LEMMA RowFound ==
  ASSUME NEW S, NEW s \in Seq(S), NEW id
  PROVE  /\ Has(s, id) => \E i \in DOMAIN s : s[i].id = id /\ ById(s, id) = <<s[i]>>
         /\ ~Has(s, id) => ById(s, id) = <<>>
BY DEF Has, ById

\* A chat that is there is found by its id.
LEMMA ChatOf ==
  ASSUME TypeInv, NEW id, HasChat(store, id)
  PROVE  \E i \in DOMAIN store.chats :
           store.chats[i].id = id /\ GetChatById(store, id) = store.chats[i]
<1>1. \E i \in DOMAIN store.chats :
        store.chats[i].id = id /\ ById(store.chats, id) = <<store.chats[i]>>
  BY StoreTypes, RowFound DEF TypeInv, HasChat
<1>2. \A x : Head(<<x>>) = x
  OBVIOUS
<1>3. QED
  BY <1>1, <1>2 DEF GetChatById

\* A look-up of a chat by its id keeps the types.
LEMMA FindChatTypes ==
  ASSUME TypeInv, tasks # <<>>, FindChat
  PROVE  IoKept
<1>1. StoreKept /\ StoreGrows /\ task.at = "chat" /\ events \in Seq(Events)
  BY SameStoreIo DEF FindChat, TypeInv, QueuesOK
<1>2. CASE ~HasChat(store, task.chat) /\ Finish /\ UNCHANGED events
  BY <1>1, <1>2, IoStep DEF Finish, Ends
<1>3. CASE HasChat(store, task.chat)
  <2>1. PICK room : room = GetChatById(store, task.chat).room
    OBVIOUS
  <2>2. room \in Rooms
    BY <1>3, <2>1, ChatOf, StoreTypes DEF TypeInv
  <2>3. CASE task.op = "send" /\ UNCHANGED events
             /\ Suspend([task EXCEPT !.at = "relations", !.room = room])
    <3>1. PICK t : t = [task EXCEPT !.at = "relations", !.room = room]
      OBVIOUS
    <3>2. task \in SendTasks /\ TaskShape(task)
      BY <2>3, TaskTypes
    <3>3. t \in Tasks /\ TaskShape(t)
      BY <1>1, <2>2, <2>3, <3>1, <3>2 DEF SendTasks, Tasks, TaskShape, Idle
    <3>4. QED
      BY <1>1, <2>3, <3>1, <3>3, GoesOnTo, IoStep
  <2>4. CASE task.op = "leave" /\ Finish
             /\ events' = Append(events, [type |-> "leave", chat |-> task.chat,
                                          room |-> room])
    <3>1. task \in LeaveTasks
      BY <2>4, TaskTypes
    <3>2. [type |-> "leave", chat |-> task.chat, room |-> room] \in Events
      BY <2>2, <3>1 DEF LeaveTasks, Leaves, Events
    <3>3. events' \in Seq(Events)
      BY <1>1, <2>4, <3>2, AppendIs
    <3>4. QED
      BY <1>1, <2>4, <3>3, IoStep DEF Finish, Ends
  <2>5. QED
    BY <1>2, <1>3, <2>1, <2>3, <2>4 DEF FindChat
<1>4. QED
  BY <1>2, <1>3 DEF FindChat

(***************************************************************************)
(* Once the members are known, whether there are any or not.               *)
(***************************************************************************)
LEMMA ResolvedTypes ==
  ASSUME TypeInv, tasks # <<>>, task.at \in {"relations", "lookup"},
         UNCHANGED <<store, nextId, events>>,
         NEW members \in Seq(MemberRows), Resolved(members)
  PROVE  IoKept
<1>1. StoreKept /\ StoreGrows /\ events' \in Seq(Events)
      /\ task.op \in {"send", "incoming"}
  BY SameStoreIo, TaskAt DEF TypeInv, QueuesOK
<1>2. \A i \in DOMAIN members : members[i].id \in Nat
  <2>1. \A i \in DOMAIN members : members[i] \in MemberRows
    OBVIOUS
  <2>2. QED
    BY <2>1 DEF MemberRows
<1>3. CASE Finish
  BY <1>1, <1>3, IoStep DEF Finish, Ends
<1>4. CASE task.op = "send" /\ members # <<>>
           /\ Suspend([task EXCEPT !.at = "message", !.left = <<>>,
                                   !.found = <<members[1].id>>])
  <2>1. PICK t : t = [task EXCEPT !.at = "message", !.left = <<>>,
                                  !.found = <<members[1].id>>]
    OBVIOUS
  <2>2. 1 \in DOMAIN members
    BY <1>4
  <2>3. PICK id \in Nat : id = members[1].id
    BY <1>2, <2>2
  <2>4. <<id>> \in Seq(Nat)
    OBVIOUS
  <2>5. task \in SendTasks /\ TaskShape(task)
    BY <1>4, TaskTypes
  <2>6. task.room \in Rooms
    BY <1>4, <2>5 DEF TaskShape
  <2>7. t = [task EXCEPT !.at = "message", !.left = <<>>, !.found = <<id>>]
    BY <2>1, <2>3
  <2>8. t \in SendTasks /\ t.op = "send" /\ t.at = "message" /\ t.left = <<>>
        /\ t.found = <<id>> /\ t.room = task.room
    BY <1>4, <2>4, <2>5, <2>7, EmptyIs DEF SendTasks, Found
  <2>9. t \in Tasks /\ TaskShape(t)
    BY <2>6, <2>8 DEF Tasks, TaskShape, One
  <2>10. QED
    BY <1>1, <1>4, <2>1, <2>9, GoesOnTo, IoStep
<1>5. CASE task.op = "incoming"
  <2>1. PICK name : name = NameOf(task.room, task.from)
    OBVIOUS
  <2>2. task \in IncomingTasks /\ TaskShape(task)
    BY <1>5, TaskTypes
  <2>3. name \in Names
    BY <2>1, <2>2 DEF NameOf, Names, IncomingTasks
  <2>4. task.chat \in Nat
    BY <1>5, <2>2 DEF TaskShape
  <2> DEFINE same == {i \in DOMAIN members : members[i].name = name}
  <2>5. CASE Suspend([task EXCEPT !.at = "member", !.left = <<>>,
                                  !.found = <<>>, !.name = name])
    <3>1. PICK t : t = [task EXCEPT !.at = "member", !.left = <<>>,
                                    !.found = <<>>, !.name = name]
      OBVIOUS
    <3>2. <<>> \in Found
      BY EmptyIs DEF Found
    <3>3. t \in IncomingTasks /\ t.op = "incoming" /\ t.at = "member"
          /\ t.left = <<>> /\ t.found = <<>> /\ t.name = name
          /\ t.chat = task.chat
      BY <2>2, <2>3, <3>1, <3>2, EmptyIs DEF IncomingTasks
    <3>4. t \in Tasks /\ TaskShape(t)
      BY <2>3, <2>4, <3>3 DEF Tasks, TaskShape, Idle
    <3>5. QED
      BY <1>1, <2>5, <3>1, <3>4, GoesOnTo, IoStep
  <2>6. CASE same # {} /\ Suspend([task EXCEPT !.at = "message", !.left = <<>>,
                                     !.found = <<members[Min(same)].id>>])
    <3>1. PICK t : t = [task EXCEPT !.at = "message", !.left = <<>>,
                                    !.found = <<members[Min(same)].id>>]
      OBVIOUS
    <3>2. Min(same) \in same
      BY <2>6, MinOf
    <3>3. PICK id \in Nat : id = members[Min(same)].id
      BY <1>2, <3>2
    <3>4. <<id>> \in Seq(Nat)
      OBVIOUS
    <3>5. t = [task EXCEPT !.at = "message", !.left = <<>>, !.found = <<id>>]
      BY <3>1, <3>3
    <3>6. t \in IncomingTasks /\ t.op = "incoming" /\ t.at = "message"
          /\ t.left = <<>> /\ t.found = <<id>> /\ t.chat = task.chat
      BY <2>2, <3>4, <3>5, EmptyIs DEF IncomingTasks, Found
    <3>7. t \in Tasks /\ TaskShape(t)
      BY <2>4, <3>6 DEF Tasks, TaskShape, One
    <3>8. QED
      BY <1>1, <2>6, <3>1, <3>7, GoesOnTo, IoStep
  <2>7. QED
    BY <1>5, <2>1, <2>5, <2>6 DEF Resolved
<1>6. QED
  BY <1>1, <1>3, <1>4, <1>5 DEF Resolved

\* The relations of a chat are rows of the table, the first of them first.
LEMMA RelationsRead ==
  ASSUME TypeInv, NEW c
  PROVE  /\ RelationsOfChat(store, c) \in Seq(RelationRows)
         /\ \E at : Follows(store.relations, OfChat(store.relations, c),
                            RelationsOfChat(store, c), at)
<1>1. /\ OfChat(store.relations, c) \subseteq DOMAIN store.relations
      /\ store.relations \in Seq(RelationRows)
  BY StoreTypes DEF OfChat, TypeInv
<1>2. QED
  BY <1>1, KeepIs DEF RelationsOfChat

\* Reading the relations of a chat keeps the types.
LEMMA ReadRelationsTypes ==
  ASSUME TypeInv, tasks # <<>>, ReadRelations
  PROVE  IoKept
<1>1. StoreKept /\ StoreGrows /\ events' \in Seq(Events)
      /\ task.at = "relations" /\ task.op \in {"send", "incoming"}
      /\ UNCHANGED <<store, nextId, events>>
  BY SameStoreIo, TaskAt DEF TypeInv, QueuesOK, ReadRelations
<1>2. CASE Resolved(<<>>)
  BY <1>1, <1>2, EmptyIs, ResolvedTypes
<1>3. CASE RelationsOfChat(store, task.chat) # <<>>
           /\ Suspend([task EXCEPT !.at = "lookup",
                                   !.left = RelationsOfChat(store, task.chat)])
  <2>1. PICK read : read = RelationsOfChat(store, task.chat)
    OBVIOUS
  <2>2. PICK t : t = [task EXCEPT !.at = "lookup", !.left = read]
    OBVIOUS
  <2>3. read \in Seq(RelationRows) /\ read # <<>>
    BY <1>3, <2>1, RelationsRead
  <2>4. task.found = <<>> /\ TaskShape(task)
        /\ task \in SendTasks \cup IncomingTasks
    BY <1>1, TaskTypes DEF TaskShape, Idle
  <2>5. t \in Tasks
    BY <2>2, <2>3, <2>4 DEF SendTasks, IncomingTasks, Tasks
  <2>6. /\ t.at = "lookup" /\ t.left = read /\ t.found = <<>> /\ t.op = task.op
        /\ t.room = task.room /\ t.chat = task.chat
    BY <2>2, <2>4 DEF SendTasks, IncomingTasks
  <2>7. Looking(t)
    BY <2>3, <2>6, EmptyIs DEF Looking
  <2>8. TaskShape(t)
    BY <1>1, <2>4, <2>6, <2>7 DEF TaskShape
  <2>9. QED
    BY <1>1, <1>3, <2>1, <2>2, <2>5, <2>8, GoesOnTo, IoStep
<1>4. QED
  BY <1>2, <1>3 DEF ReadRelations

\* What a member that is looked up adds to those found.
LEMMA FoundMore ==
  ASSUME TypeInv, NEW s \in Seq(MemberRows), NEW id,
         \A i \in DOMAIN s : \E k \in DOMAIN store.members :
           store.members[k] = s[i]
  PROVE  /\ s \o ById(store.members, id) \in Seq(MemberRows)
         /\ \A i \in DOMAIN (s \o ById(store.members, id)) :
              \E k \in DOMAIN store.members :
                store.members[k] = (s \o ById(store.members, id))[i]
<1>1. store.members \in Seq(MemberRows)
  BY StoreTypes DEF TypeInv
<1>2. CASE Has(store.members, id)
  <2>1. PICK k \in DOMAIN store.members :
               ById(store.members, id) = <<store.members[k]>>
    BY <1>1, <1>2, RowFound
  <2>2. PICK row \in MemberRows : row = store.members[k]
    BY <1>1
  <2>3. s \o <<row>> = Append(s, row)
    OBVIOUS
  <2>4. /\ Append(s, row) \in Seq(MemberRows)
        /\ DOMAIN Append(s, row) = DOMAIN s \cup {Len(s) + 1}
        /\ \A i \in DOMAIN s : Append(s, row)[i] = s[i]
        /\ Append(s, row)[Len(s) + 1] = row
    BY AppendIs
  <2>5. QED
    BY <2>1, <2>2, <2>3, <2>4
<1>3. CASE ~Has(store.members, id)
  <2>1. ById(store.members, id) = <<>>
    BY <1>1, <1>3, RowFound
  <2>2. s \o <<>> = s
    OBVIOUS
  <2>3. QED
    BY <2>1, <2>2
<1>4. QED
  BY <1>2, <1>3

\* Reading a member of the chat keeps the types.
LEMMA LookUpMemberTypes ==
  ASSUME TypeInv, tasks # <<>>, LookUpMember
  PROVE  IoKept
<1>1. StoreKept /\ StoreGrows /\ events' \in Seq(Events)
      /\ task.at = "lookup" /\ task.op \in {"send", "incoming"}
      /\ UNCHANGED <<store, nextId, events>>
  BY SameStoreIo, TaskAt DEF TypeInv, QueuesOK, LookUpMember
<1>2. /\ task \in SendTasks \cup IncomingTasks /\ TaskShape(task)
      /\ Looking(task)
  BY <1>1, TaskTypes DEF TaskShape
<1>3. PICK rest : rest = Tail(task.left)
  OBVIOUS
<1>4. PICK found : found = task.found
                      \o ById(store.members, Head(task.left).member)
  OBVIOUS
<1>5. /\ found \in Seq(MemberRows)
      /\ \A i \in DOMAIN found : \E k \in DOMAIN store.members :
           store.members[k] = found[i]
  <2>1. PICK s \in Seq(MemberRows) : s = task.found
    BY <1>2 DEF Looking
  <2>2. PICK id : id = Head(task.left).member
    OBVIOUS
  <2>3. \A i \in DOMAIN s : \E k \in DOMAIN store.members :
          store.members[k] = s[i]
    BY <1>2, <2>1 DEF Looking
  <2>4. found = s \o ById(store.members, id)
    BY <1>4, <2>1, <2>2
  <2>5. QED
    BY <2>3, <2>4, FoundMore
<1>6. CASE Resolved(found)
  BY <1>1, <1>5, <1>6, ResolvedTypes
<1>7. CASE rest # <<>>
           /\ Suspend([task EXCEPT !.left = rest, !.found = found])
  <2>1. PICK t : t = [task EXCEPT !.left = rest, !.found = found]
    OBVIOUS
  <2>2. found \in Found /\ rest \in Seq(RelationRows)
    <3>1. task.left \in Seq(RelationRows) /\ task.left # <<>>
      BY <1>2 DEF Looking, SendTasks, IncomingTasks
    <3>2. QED
      BY <1>3, <1>5, <3>1, TailIs DEF Found
  <2>3. t \in Tasks
    BY <1>2, <2>1, <2>2 DEF SendTasks, IncomingTasks, Tasks
  <2>4. /\ t.at = "lookup" /\ t.left = rest /\ t.found = found
        /\ t.op = task.op /\ t.room = task.room /\ t.chat = task.chat
    BY <1>1, <1>2, <2>1 DEF SendTasks, IncomingTasks
  <2>5. Looking(t)
    BY <1>5, <1>7, <2>4 DEF Looking
  <2>6. TaskShape(t)
    BY <1>1, <1>2, <2>4, <2>5 DEF TaskShape
  <2>7. QED
    BY <1>1, <1>7, <2>1, <2>3, <2>6, GoesOnTo, IoStep
<1>8. QED
  BY <1>3, <1>4, <1>6, <1>7 DEF LookUpMember

\* A chat that is added keeps the types.
LEMMA NewChatTypes ==
  ASSUME TypeInv, tasks # <<>>, NewChat
  PROVE  IoKept
<1>1. /\ task.at = "new chat" /\ task.op = "joined" /\ task \in JoinedTasks
      /\ store' = AddChat(store, [id |-> nextId, room |-> task.room])
      /\ nextId' = nextId + 1 /\ events' \in Seq(Events)
      /\ Suspend([task EXCEPT !.at = "member", !.chat = nextId])
  BY TaskAt DEF NewChat, TypeInv, QueuesOK
<1>2. task.room \in Rooms /\ nextId \in Nat
  BY <1>1, StoreTypes DEF JoinedTasks, TypeInv
<1>3. StoreKept /\ StoreGrows
  BY <1>1, <1>2, ChatAdded DEF StoreKept
<1>4. PICK t : t = [task EXCEPT !.at = "member", !.chat = nextId]
  OBVIOUS
<1>5. t \in Tasks /\ TaskShape(t)
  BY <1>1, <1>2, <1>4 DEF JoinedTasks, Tasks, TaskShape, Ids
<1>6. QED
  BY <1>1, <1>3, <1>4, <1>5, GoesOnTo, IoStep

\* A member that is added keeps the types.
LEMMA NewMemberTypes ==
  ASSUME TypeInv, tasks # <<>>, NewMember
  PROVE  IoKept
<1>1. /\ task.at = "member" /\ task.op \in {"incoming", "joined"}
      /\ nextId' = nextId + 1 /\ events' \in Seq(Events)
  BY TaskAt DEF NewMember, TypeInv, QueuesOK
<1>2. nextId \in Nat
  BY StoreTypes DEF TypeInv
<1>3. CASE task.op = "joined"
  <2>1. PICK name : name = [user |-> Me]
    OBVIOUS
  <2>2. name \in Names
    BY <2>1 DEF Names
  <2>3. store' = AddMember(store, [id |-> nextId, name |-> name])
    BY <1>3, <2>1 DEF NewMember
  <2>4. StoreKept /\ StoreGrows
    BY <1>1, <2>2, <2>3, MemberAdded DEF StoreKept
  <2>5. PICK t : t = [op |-> "joined", at |-> "relation", room |-> task.room,
                      chat |-> task.chat, member |-> nextId]
    OBVIOUS
  <2>6. task \in JoinedTasks /\ TaskShape(task) /\ task.chat \in Nat
    BY <1>1, <1>3, TaskAt, TaskTypes DEF TaskShape
  <2>7. t \in Tasks /\ TaskShape(t)
    BY <1>2, <2>5, <2>6 DEF JoinedTasks, JoiningTasks, Tasks, TaskShape
  <2>8. Suspend(t)
    BY <1>3, <2>5 DEF NewMember
  <2>9. QED
    BY <1>1, <2>4, <2>7, <2>8, GoesOnTo, IoStep
<1>4. CASE task.op = "incoming"
  <2>1. task \in IncomingTasks /\ TaskShape(task) /\ task.name \in Names
        /\ task.chat \in Nat
    BY <1>1, <1>4, TaskTypes DEF TaskShape
  <2>2. PICK name \in Names : name = task.name
    BY <2>1
  <2>3. store' = AddMember(store, [id |-> nextId, name |-> name])
    BY <1>4, <2>2 DEF NewMember
  <2>4. StoreKept /\ StoreGrows
    BY <1>1, <2>3, MemberAdded DEF StoreKept
  <2>5. PICK t : t = [task EXCEPT !.at = "relation", !.found = <<nextId>>]
    OBVIOUS
  <2>6. <<nextId>> \in Found
    BY <1>2 DEF Found
  <2>7. /\ t \in IncomingTasks /\ t.op = "incoming" /\ t.at = "relation"
        /\ t.found = <<nextId>> /\ t.left = task.left /\ t.chat = task.chat
        /\ t.name = task.name
    BY <1>4, <2>1, <2>5, <2>6 DEF IncomingTasks
  <2>8. task.left = <<>>
    BY <1>1, <1>4, <2>1 DEF TaskShape, Idle
  <2>9. t \in Tasks /\ TaskShape(t)
    BY <1>2, <2>1, <2>7, <2>8 DEF Tasks, TaskShape, One
  <2>10. Suspend(t)
    BY <1>4, <2>5 DEF NewMember
  <2>11. QED
    BY <1>1, <2>4, <2>9, <2>10, GoesOnTo, IoStep
<1>5. QED
  BY <1>1, <1>3, <1>4

\* A relation that is added keeps the types.
LEMMA NewRelationTypes ==
  ASSUME TypeInv, tasks # <<>>, NewRelation
  PROVE  IoKept
<1>1. /\ task.at = "relation" /\ task.op \in {"incoming", "joined"}
      /\ nextId' = nextId /\ events' \in Seq(Events)
  BY TaskAt DEF NewRelation, TypeInv, QueuesOK
<1>2. CASE task.op = "joined"
  <2>1. task \in JoiningTasks
    BY <1>1, <1>2, TaskAt
  <2>2. task.chat \in Nat /\ task.member \in Nat
    BY <2>1 DEF JoiningTasks
  <2>3. store' = AddMemberToChat(store, task.chat, task.member) /\ Finish
    BY <1>2 DEF NewRelation
  <2>4. StoreKept
    BY <1>1, <2>2, <2>3, RelationAdded
  <2>5. QED
    BY <1>1, <2>3, <2>4, IoStep DEF Finish, Ends
<1>3. CASE task.op = "incoming"
  <2>1. task \in IncomingTasks /\ TaskShape(task) /\ One(task)
        /\ task.chat \in Nat
    BY <1>1, <1>3, TaskTypes DEF TaskShape
  <2>2. PICK id \in Nat : task.found = <<id>>
    BY <2>1 DEF One
  <2>3. /\ store' = AddMemberToChat(store, task.chat, id)
        /\ Suspend([task EXCEPT !.at = "message"])
    BY <1>3, <2>2 DEF NewRelation, Goto
  <2>4. StoreKept /\ StoreGrows
    BY <1>1, <2>1, <2>3, RelationAdded DEF StoreKept
  <2>5. PICK t : t = [task EXCEPT !.at = "message"]
    OBVIOUS
  <2>6. t \in IncomingTasks /\ t.op = "incoming" /\ t.at = "message"
        /\ t.found = task.found /\ t.left = task.left /\ t.chat = task.chat
    BY <1>3, <2>1, <2>5 DEF IncomingTasks
  <2>7. t \in Tasks /\ TaskShape(t)
    BY <2>1, <2>6 DEF Tasks, TaskShape, One
  <2>8. QED
    BY <1>1, <2>3, <2>4, <2>5, <2>7, GoesOnTo, IoStep
<1>4. QED
  BY <1>1, <1>2, <1>3

\* The coroutine that stores a message, and the row it adds.
LEMMA NewMessageIs ==
  ASSUME TypeInv, tasks # <<>>, NewMessage
  PROVE  /\ task.at = "message" /\ task.op \in {"send", "incoming"}
         /\ One(task)
         /\ \E id \in Nat : task.found = <<id>> /\ task.found[1] = id
         /\ Message \in MessageRows
         /\ IF MayAddMessage(store, Message)
            THEN Added(store.messages, store'.messages, Message)
            ELSE store'.messages = store.messages
         /\ store'.chats = store.chats /\ store'.members = store.members
         /\ store'.relations = store.relations
         /\ nextId' = nextId + 1 /\ StoreKept /\ Ends
<1>1. /\ task.at = "message" /\ task.op \in {"send", "incoming"}
      /\ nextId' = nextId + 1 /\ Ends
  BY TaskAt DEF NewMessage, Finish, Ends
<1>2. /\ task \in SendTasks \cup IncomingTasks /\ TaskShape(task) /\ One(task)
      /\ nextId \in Nat
  BY <1>1, TaskTypes, StoreTypes DEF TaskShape, TypeInv
<1>3. PICK id \in Nat : task.found = <<id>>
  BY <1>2 DEF One
<1>4. task.text \in Nat /\ task.chat \in Nat
  BY <1>1, <1>2 DEF SendTasks, IncomingTasks, TaskShape
<1>5. task.found[1] = id
  BY <1>3
<1>6. Message \in MessageRows /\ Message.id = nextId
  BY <1>2, <1>4, <1>5 DEF Message, MessageRows
<1>7. PICK row \in MessageRows : row = Message
  BY <1>6
<1>8. store' = AddMessage(store, row) /\ row.id = nextId
  BY <1>6, <1>7 DEF NewMessage
<1>9. /\ StoreKept
      /\ IF MayAddMessage(store, row)
         THEN Added(store.messages, store'.messages, row)
         ELSE store'.messages = store.messages
      /\ store'.chats = store.chats /\ store'.members = store.members
      /\ store'.relations = store.relations
  BY <1>1, <1>8, MessageAdded
<1>10. QED
  BY <1>1, <1>2, <1>3, <1>5, <1>6, <1>7, <1>9

\* A message that is added keeps the types.
LEMMA NewMessageTypes ==
  ASSUME TypeInv, tasks # <<>>, NewMessage
  PROVE  IoKept
<1>1. /\ StoreKept /\ Ends /\ task.at = "message"
      /\ task.op \in {"send", "incoming"} /\ events \in Seq(Events)
  BY NewMessageIs DEF TypeInv, QueuesOK
<1>2. events' \in Seq(Events)
  <2>1. CASE task.op = "incoming"
    BY <1>1, <2>1 DEF NewMessage
  <2>2. CASE task.op = "send"
    <3>1. task \in SendTasks /\ TaskShape(task)
      BY <2>2, TaskTypes
    <3>2. task.room \in Rooms /\ task.text \in Nat
      BY <1>1, <2>2, <3>1 DEF TaskShape, SendTasks
    <3>3. [type |-> "send", text |-> task.text, room |-> task.room] \in Events
      BY <3>2 DEF Sends, Events
    <3>4. QED
      BY <1>1, <3>3, AppendIs DEF NewMessage
  <2>3. QED
    BY <1>1, <2>1, <2>2
<1>3. QED
  BY <1>1, <1>2, IoStep

\* A chat that is removed keeps the types.
LEMMA DropChatTypes ==
  ASSUME TypeInv, tasks # <<>>, DropChat
  PROVE  IoKept
<1>1. store' = RemoveChat(store, task.chat) /\ Ends /\ events' \in Seq(Events)
      /\ nextId' = nextId
  BY DEF DropChat, Finish, Ends, TypeInv, QueuesOK
<1>2. StoreKept
  BY <1>1, ChatRemoved
<1>3. QED
  BY <1>1, <1>2, IoStep

\* Every turn of the io thread keeps the types.
LEMMA ResumeTypes ==
  ASSUME TypeInv, Resume
  PROVE  TypeInv' /\ StoreGrows
<1>1. tasks # <<>>
      /\ UNCHANGED <<pending, myPeer, peerToRoom, names, queued, link, rooms,
                     inbox, author, wire, breaks>>
  BY DEF Resume, linkVars
<1>2. IoKept
  BY <1>1, BeginTypes, FindRoomTypes, FindChatTypes, ReadRelationsTypes,
     LookUpMemberTypes, NewChatTypes, NewMemberTypes, NewRelationTypes,
     NewMessageTypes, DropChatTypes DEF Resume
<1>3. StoreTypeOK' /\ IdsFresh' /\ QueuesOK' /\ StoreGrows
  BY <1>2 DEF IoKept, StoreKept, QueuesOK
<1>4. ClientTypeOK' /\ WorldTypeOK'
  BY <1>1 DEF TypeInv, ClientTypeOK, WorldTypeOK
<1>5. QED
  BY <1>3, <1>4 DEF TypeInv

-----------------------------------------------------------------------------
(* The server, the user and the Qt thread keep the types.                  *)

\* The types of what is outside the database.
LEMMA WorldTypes ==
  ASSUME TypeInv
  PROVE  /\ rooms \in [Rooms -> RoomStates] /\ inbox \in Seq(Msgs)
         /\ author \in Seq(Peers \cup {Me}) /\ Len(author) \in Nat
         /\ wire \in [Rooms \cup Peers -> Seq(Nat)]
         /\ myPeer \in [Rooms -> Ids] /\ queued \in [Peers -> Seq(Nat)]
         /\ peerToRoom \in [Peers -> Rooms \cup {None}]
         /\ names \subseteq Rooms \X Peers
         /\ pending \in Rooms \cup {None} /\ nextId \in Nat
         /\ breaks \in Nat
         /\ events \in Seq(Events) /\ tasks \in Seq(ShapedTasks)
         /\ link \in {"closed", "connecting", "up", "broken"}
         /\ \A r \in Rooms : rooms[r] \in RoomStates
BY DEF TypeInv, ClientTypeOK, WorldTypeOK, StoreTypeOK, QueuesOK

\* The types of a room of the server.
LEMMA RoomTypes ==
  ASSUME TypeInv, NEW r \in Rooms
  PROVE  /\ rooms[r].log \in Seq(LogRows) /\ Len(rooms[r].log) \in Nat
         /\ rooms[r].mine \in Ids /\ rooms[r].cursor \in Nat
         /\ rooms[r].session \in {"none", "now", "old"}
         /\ rooms[r].here \subseteq Peers
         /\ rooms[r].session # "none" => rooms[r].mine \in Nat
         /\ rooms[r].left \in BOOLEAN /\ rooms[r].removed \in BOOLEAN
BY WorldTypes DEF RoomStates, Ids

\* What the step leaves of the world's types.
ServedOK == rooms' \in [Rooms -> RoomStates] /\ inbox' \in Seq(Msgs)

\* What is sent of a log at a join is numbered upwards.
LEMMA UnackedIs ==
  ASSUME NEW log \in Seq(LogRows), NEW cursor \in Nat, Len(log) > cursor,
         NEW room, room.log = log
  PROVE  Unacked(room, cursor) \in {s \in Seq(SeqRows) : Rising(s)}
<1> DEFINE n == Len(log) - cursor
           s == Unacked(room, cursor)
<1>1. n \in Nat
  OBVIOUS
<1>2. s = [i \in 1..n |-> [from |-> log[cursor + i].from,
                           text |-> log[cursor + i].text, seq |-> cursor + i]]
  BY DEF Unacked
<1>3. ASSUME NEW i \in 1..n
      PROVE  [from |-> log[cursor + i].from, text |-> log[cursor + i].text,
              seq |-> cursor + i] \in SeqRows
  <2>1. log[cursor + i] \in LogRows
    BY <1>3
  <2>2. QED
    BY <2>1 DEF LogRows, SeqRows
<1> HIDE DEF n
<1>4. s \in Seq(SeqRows)
  <2>1. s \in [1..n -> SeqRows]
    BY <1>2, <1>3
  <2>2. QED
    BY <1>1, <2>1, FunctionIsSeq
<1>5. Rising(s)
  BY <1>1, <1>2 DEF Rising
<1>6. QED
  BY <1>4, <1>5

\* A join that the server serves keeps the types.
LEMMA ServeJoinTypes ==
  ASSUME TypeInv, NEW r \in Rooms, ServeJoin(r)
  PROVE  ServedOK /\ nextId' \in Nat /\ nextId <= nextId'
<1>1. /\ rooms \in [Rooms -> RoomStates] /\ inbox \in Seq(Msgs)
      /\ nextId \in Nat
  BY WorldTypes
<1>2. CASE rooms[r].session = "none"
  <2> DEFINE id == IF rooms[r].mine = None THEN nextId ELSE rooms[r].mine
             joined == [type |-> "joined", room |-> r, me |-> id,
                        here |-> rooms[r].here]
             buffered == [type |-> "buffered", room |-> r,
                          messages |-> Unacked(rooms[r], rooms[r].cursor)]
             more == kind[r] = "group" /\ Len(rooms[r].log) > rooms[r].cursor
  <2>1. /\ rooms' = [rooms EXCEPT ![r].session = "now", ![r].mine = id]
        /\ inbox' = Append(inbox, joined)
                    \o (IF more THEN <<buffered>> ELSE <<>>)
        /\ nextId' = IF id = nextId THEN nextId + 1 ELSE nextId
    BY <1>2 DEF ServeJoin
  <2>2. id \in Nat /\ id # None
    BY <1>1, RoomTypes, BridgeBounds DEF Ids
  <2> HIDE DEF id
  <2>3. rooms' \in [Rooms -> RoomStates]
    <3>1. rooms' = [rooms EXCEPT ![r] = [rooms[r] EXCEPT !.session = "now",
                                                         !.mine = id]]
      BY <1>1, <2>1
    <3>2. [rooms[r] EXCEPT !.session = "now", !.mine = id] \in RoomStates
      BY <1>1, <2>2 DEF RoomStates, Ids
    <3>3. QED
      BY <1>1, <3>1, <3>2
  <2>4. joined \in Msgs
    BY <2>2, RoomTypes DEF JoinedMsgs, Msgs
  <2>5. more => buffered \in Msgs
    BY UnackedIs, RoomTypes DEF BufferedMsgs, Msgs
  <2> HIDE DEF joined, buffered, more
  <2>6. Append(inbox, joined) \in Seq(Msgs)
    BY <1>1, <2>4, AppendIs
  <2>7. (IF more THEN <<buffered>> ELSE <<>>) \in Seq(Msgs)
    BY <2>5, EmptyIs
  <2>8. inbox' \in Seq(Msgs)
    BY <2>1, <2>6, <2>7, ConcatIs
  <2>9. QED
    BY <1>1, <2>1, <2>2, <2>3, <2>8 DEF ServedOK
<1>3. CASE rooms[r].session # "none"
  <2>1. [type |-> "error"] \in Msgs
    BY DEF ErrorMsgs, Msgs
  <2>2. inbox' = Append(inbox, [type |-> "error"]) /\ UNCHANGED <<rooms, nextId>>
    BY <1>3 DEF ServeJoin
  <2>3. QED
    BY <1>1, <2>1, <2>2, AppendIs DEF ServedOK
<1>4. QED
  BY <1>2, <1>3

\* A text that is put to a room's log is a row of it.
LEMMA LoggedTypes ==
  ASSUME TypeInv, NEW r \in Rooms, NEW from \in Origins, NEW text \in Nat
  PROVE  /\ Logged(r, from, text) \in [Rooms -> RoomStates]
         /\ GroupMessage(r, from, text) \in Msgs
<1>1. [from |-> from, text |-> text] \in LogRows
  BY DEF LogRows
<1>2. PICK row \in LogRows : row = [from |-> from, text |-> text]
  BY <1>1
<1>3. Append(rooms[r].log, row) \in Seq(LogRows)
  BY AppendIs, RoomTypes
<1>4. rooms \in [Rooms -> RoomStates] /\ rooms[r] \in RoomStates
  BY WorldTypes
<1>5. PICK log \in Seq(LogRows) : log = Append(rooms[r].log, row)
  BY <1>3
<1>6. [rooms[r] EXCEPT !.log = log] \in RoomStates
  BY <1>4 DEF RoomStates
<1>7. Logged(r, from, text) = [rooms EXCEPT ![r] = [rooms[r] EXCEPT !.log = log]]
  BY <1>2, <1>4, <1>5 DEF Logged
<1>8. Logged(r, from, text) \in [Rooms -> RoomStates]
  BY <1>4, <1>6, <1>7
<1>9. GroupMessage(r, from, text) \in Msgs
  BY RoomTypes DEF GroupMessage, GroupMsgs, Msgs
<1>10. QED
  BY <1>8, <1>9

\* A refusal is a message like any other.
LEMMA RefusedTypes ==
  ASSUME NEW q \in Seq(Msgs)
  PROVE  Append(q, [type |-> "error"]) \in Seq(Msgs)
<1>1. [type |-> "error"] \in Msgs
  BY DEF ErrorMsgs, Msgs
<1>2. QED
  BY <1>1, AppendIs

\* A group message that the server serves keeps the types.
LEMMA ServeGroupMessageTypes ==
  ASSUME TypeInv, NEW r \in Rooms, NEW text \in Nat, ServeGroupMessage(r, text)
  PROVE  ServedOK
<1>1. rooms \in [Rooms -> RoomStates] /\ inbox \in Seq(Msgs)
  BY WorldTypes
<1>2. CASE rooms[r].session = "now"
  <2>1. rooms[r].mine \in Origins
    BY <1>2, RoomTypes DEF Ids, Origins
  <2>2. /\ rooms' = Logged(r, rooms[r].mine, text)
        /\ inbox' = Append(inbox, GroupMessage(r, rooms[r].mine, text))
    BY <1>2 DEF ServeGroupMessage
  <2>3. QED
    BY <1>1, <2>1, <2>2, LoggedTypes, AppendIs DEF ServedOK
<1>3. CASE rooms[r].session # "now"
  BY <1>1, <1>3, RefusedTypes DEF ServeGroupMessage, ServedOK
<1>4. QED
  BY <1>2, <1>3

\* A room whose id the client forgets is a room still.
LEMMA ForgottenTypes ==
  ASSUME TypeInv, NEW r \in Rooms
  PROVE  Forgotten(r) \in [Rooms -> RoomStates]
<1>1. rooms \in [Rooms -> RoomStates] /\ rooms[r] \in RoomStates
  BY WorldTypes
<1>2. [rooms[r] EXCEPT !.removed = TRUE] \in RoomStates
  BY <1>1 DEF RoomStates
<1>3. Forgotten(r) = [rooms EXCEPT ![r] = [rooms[r] EXCEPT !.removed = TRUE]]
  BY <1>1 DEF Forgotten
<1>4. QED
  BY <1>1, <1>2, <1>3

\* A leave that the server serves keeps the types.
LEMMA ServeLeaveTypes ==
  ASSUME TypeInv, NEW r \in Rooms, NEW peer, ServeLeave(r, peer)
  PROVE  ServedOK
<1>1. inbox \in Seq(Msgs) /\ Forgotten(r) \in [Rooms -> RoomStates]
  BY WorldTypes, ForgottenTypes
<1>2. CASE rooms[r].session = "now" /\ rooms[r].mine = peer
  <2>1. PICK f \in [Rooms -> RoomStates] : f = Forgotten(r)
    BY <1>1
  <2>2. /\ rooms' = [f EXCEPT ![r].session = "none", ![r].mine = None,
                              ![r].cursor = 0, ![r].left = TRUE]
        /\ inbox' = inbox
    BY <1>2, <2>1 DEF ServeLeave
  <2>3. PICK g : g = [f[r] EXCEPT !.session = "none", !.mine = None,
                                  !.cursor = 0, !.left = TRUE]
    OBVIOUS
  <2>4. g \in RoomStates
    BY <2>3 DEF RoomStates, Ids
  <2>5. rooms' = [f EXCEPT ![r] = g]
    BY <2>2, <2>3
  <2>6. rooms' \in [Rooms -> RoomStates]
    BY <2>4, <2>5
  <2>7. QED
    BY <1>1, <2>2, <2>6 DEF ServedOK
<1>3. CASE ~(rooms[r].session = "now" /\ rooms[r].mine = peer)
  BY <1>1, <1>3, RefusedTypes DEF ServeLeave, ServedOK
<1>4. QED
  BY <1>2, <1>3

\* Acknowledgements that the server serves keep the types.
LEMMA ServeAcksTypes ==
  ASSUME TypeInv, NEW r \in Rooms, NEW seqs, NEW rest \in Seq(Msgs),
         ServeAcks(r, seqs, rest), seqs # {} => Max(seqs) \in Nat
  PROVE  ServedOK
<1>1. rooms \in [Rooms -> RoomStates] /\ rooms[r] \in RoomStates
  BY WorldTypes
<1>2. inbox' \in Seq(Msgs)
  BY RefusedTypes DEF ServeAcks
<1>3. CASE rooms' = rooms
  BY <1>1, <1>2, <1>3 DEF ServedOK
<1>4. CASE seqs # {} /\ rooms' = [rooms EXCEPT ![r].cursor = Max(seqs)]
  <2>1. PICK n \in Nat : n = Max(seqs)
    BY <1>4
  <2>2. [rooms[r] EXCEPT !.cursor = n] \in RoomStates
    BY <1>1 DEF RoomStates
  <2>3. rooms' = [rooms EXCEPT ![r] = [rooms[r] EXCEPT !.cursor = n]]
    BY <1>1, <1>4, <2>1
  <2>4. QED
    BY <1>1, <1>2, <2>2, <2>3 DEF ServedOK
<1>5. QED
  BY <1>3, <1>4 DEF ServeAcks

(***************************************************************************)
(* The coroutines as they are spawned.                                     *)
(***************************************************************************)
SendTask(chat, n) ==
  [op |-> "send", at |-> "start", chat |-> chat, room |-> None, text |-> n,
   left |-> <<>>, found |-> <<>>]
LeaveTask(chat) == [op |-> "leave", at |-> "start", chat |-> chat]
RemoveTask(chat) == [op |-> "remove", at |-> "start", chat |-> chat]
JoinedTask(r) == [op |-> "joined", at |-> "start", room |-> r, chat |-> None]

\* They are coroutines that can go on, wherever they were spawned.
LEMMA Spawned ==
  /\ \A chat, n \in Nat : SendTask(chat, n) \in ShapedTasks
  /\ \A chat \in Nat : LeaveTask(chat) \in ShapedTasks
  /\ \A chat \in Nat : RemoveTask(chat) \in ShapedTasks
  /\ \A r \in Rooms : JoinedTask(r) \in ShapedTasks
  /\ \A r \in Rooms : \A from \in Origins : \A n \in Nat :
       Incoming(r, from, n) \in ShapedTasks
<1>1. ASSUME NEW chat \in Nat, NEW n \in Nat
      PROVE  SendTask(chat, n) \in ShapedTasks
  <2>1. SendTask(chat, n) \in SendTasks
    BY EmptyIs DEF SendTask, SendTasks, Found
  <2>2. TaskShape(SendTask(chat, n))
    BY DEF SendTask, TaskShape, Idle
  <2>3. QED
    BY <2>1, <2>2 DEF ShapedTasks, Tasks
<1>2. ASSUME NEW chat \in Nat
      PROVE  LeaveTask(chat) \in ShapedTasks /\ RemoveTask(chat) \in ShapedTasks
  BY DEF LeaveTask, RemoveTask, LeaveTasks, RemoveTasks, Tasks, TaskShape,
     ShapedTasks
<1>3. ASSUME NEW r \in Rooms
      PROVE  JoinedTask(r) \in ShapedTasks
  BY DEF JoinedTask, JoinedTasks, Tasks, TaskShape, ShapedTasks, Ids
<1>4. ASSUME NEW r \in Rooms, NEW from \in Origins, NEW n \in Nat
      PROVE  Incoming(r, from, n) \in ShapedTasks
  <2>1. Incoming(r, from, n) \in IncomingTasks
    BY EmptyIs DEF Incoming, IncomingTasks, Found, Ids
  <2>2. TaskShape(Incoming(r, from, n))
    BY DEF Incoming, TaskShape, Idle
  <2>3. QED
    BY <2>1, <2>2 DEF ShapedTasks, Tasks
<1>5. QED
  BY <1>1, <1>2, <1>3, <1>4

\* Those of before the step can go on after it.
LEMMA StaysShaped ==
  ASSUME StoreGrows, NEW t \in ShapedTasks
  PROVE  t \in ShapedTasks'
<1>1. TaskShape(t)'
  BY ShapeKept DEF ShapedTasks
<1>2. QED
  BY <1>1 DEF ShapedTasks

\* A step that is none of the io thread.
LEMMA OuterKeeps ==
  ASSUME TypeInv, store' = store, nextId' \in Nat, nextId <= nextId',
         ClientTypeOK', WorldTypeOK', events' \in Seq(Events),
         \/ tasks' = tasks
         \/ \E t \in ShapedTasks : tasks' = Append(tasks, t)
         \/ \E s \in Seq(ShapedTasks) : tasks' = tasks \o s
  PROVE  TypeInv' /\ StoreGrows
<1>1. StoreKept /\ StoreGrows
  BY SameStore DEF StoreKept
<1>2. tasks' \in Seq(ShapedTasks')
  <2>1. CASE \E t \in ShapedTasks : tasks' = Append(tasks, t)
    <3>1. \E t : SpawnsOne(t)
      BY <1>1, <2>1, StaysShaped DEF SpawnsOne
    <3>2. QED
      BY <1>1, <3>1, TasksAfter
  <2>2. CASE \E s \in Seq(ShapedTasks) : tasks' = tasks \o s
    <3>1. PICK s \in Seq(ShapedTasks) : tasks' = tasks \o s
      BY <2>2
    <3>2. s \in Seq(ShapedTasks')
      BY <1>1, StaysShaped, SeqWider
    <3>3. Spawns(s)
      BY <3>1, <3>2 DEF Spawns
    <3>4. QED
      BY <1>1, <3>3, TasksAfter
  <2>3. CASE tasks' = tasks
    BY <1>1, <2>3, TasksAfter
  <2>4. QED
    BY <2>1, <2>2, <2>3
<1>3. QED
  BY <1>1, <1>2 DEF TypeInv, StoreKept, QueuesOK

\* createChat and joinChat keep the types.
LEMMA RequestChatTypes ==
  ASSUME TypeInv, NEW r \in Rooms, RequestChat(r)
  PROVE  TypeInv' /\ StoreGrows
<1>1. ServedOK /\ nextId' \in Nat /\ nextId <= nextId'
  <2>1. CASE link = "up"
    BY <2>1, ServeJoinTypes DEF RequestChat, AskToJoin
  <2>2. CASE link # "up"
    BY <2>2, WorldTypes DEF RequestChat, AskToJoin, ServedOK
  <2>3. QED
    BY <2>1, <2>2
<1>2. /\ pending' = r /\ link' \in {"closed", "connecting", "up", "broken"}
      /\ UNCHANGED <<store, tasks, events, myPeer, peerToRoom, names, queued,
                     author, wire, breaks>>
  BY WorldTypes DEF RequestChat
<1>3. ClientTypeOK' /\ WorldTypeOK' /\ events' \in Seq(Events)
  BY <1>1, <1>2, WorldTypes DEF ClientTypeOK, WorldTypeOK, ServedOK
<1>4. QED
  BY <1>1, <1>2, <1>3, OuterKeeps

\* sendMessage keeps the types.
LEMMA SendMessageTypes ==
  ASSUME TypeInv, NEW chat \in Nat, SendMessage(chat)
  PROVE  TypeInv' /\ StoreGrows
<1>1. /\ author' = Append(author, Me)
      /\ tasks' = Append(tasks, SendTask(chat, NextText))
      /\ UNCHANGED <<store, events, pending, myPeer, peerToRoom, names, queued,
                     nextId, rooms, inbox, link, wire, breaks>>
  BY DEF SendMessage, Spawn, SendTask, linkVars
<1>2. NextText \in Nat
  BY WorldTypes DEF NextText
<1>3. author' \in Seq(Peers \cup {Me})
  BY <1>1, WorldTypes, AppendIs
<1>4. ClientTypeOK' /\ WorldTypeOK' /\ events' \in Seq(Events) /\ nextId \in Nat
  BY <1>1, <1>3, WorldTypes DEF ClientTypeOK, WorldTypeOK
<1>5. \E t \in ShapedTasks : tasks' = Append(tasks, t)
  BY <1>1, <1>2, Spawned
<1>6. QED
  BY <1>1, <1>4, <1>5, OuterKeeps

\* removeCurrentChat keeps the types.
LEMMA RemoveCurrentChatTypes ==
  ASSUME TypeInv, NEW chat \in Nat, RemoveCurrentChat(chat)
  PROVE  TypeInv' /\ StoreGrows
<1>1. /\ tasks' = Append(tasks, LeaveTask(chat))
      /\ UNCHANGED <<store, events, pending, myPeer, peerToRoom, names, queued,
                     nextId, rooms, inbox, link, author, wire, breaks>>
  BY DEF RemoveCurrentChat, Spawn, LeaveTask, linkVars
<1>2. ClientTypeOK' /\ WorldTypeOK' /\ events' \in Seq(Events) /\ nextId \in Nat
  BY <1>1, WorldTypes DEF ClientTypeOK, WorldTypeOK
<1>3. \E t \in ShapedTasks : tasks' = Append(tasks, t)
  BY <1>1, Spawned
<1>4. QED
  BY <1>1, <1>2, <1>3, OuterKeeps

\* What the user does keeps the types.
LEMMA UserTypes ==
  ASSUME TypeInv, UserActs
  PROVE  TypeInv' /\ StoreGrows
<1>1. \A i \in DOMAIN store.chats : store.chats[i].id \in Nat
  BY StoreTypes DEF TypeInv
<1>2. QED
  BY <1>1, RequestChatTypes, SendMessageTypes, RemoveCurrentChatTypes
     DEF UserActs, CreateNewChat, JoinChatById

(***************************************************************************)
(* What the server has sent.                                               *)
(***************************************************************************)
LEMMA MessageTypes ==
  ASSUME TypeInv, inbox # <<>>
  PROVE  /\ Head(inbox) \in Msgs /\ Tail(inbox) \in Seq(Msgs)
         /\ Head(inbox) = inbox[1] /\ 1 \in DOMAIN inbox
         /\ Head(inbox).type = "joined" => Head(inbox) \in JoinedMsgs
         /\ Head(inbox).type \in {"peer joined", "peer left"} =>
              Head(inbox) \in PeerMsgs
         /\ Head(inbox).type = "group" => Head(inbox) \in GroupMsgs
         /\ Head(inbox).type = "buffered" => Head(inbox) \in BufferedMsgs
<1>1. /\ Head(inbox) \in Msgs /\ Tail(inbox) \in Seq(Msgs)
      /\ Head(inbox) = inbox[1] /\ 1 \in DOMAIN inbox
  BY TailIs, WorldTypes
<1>2. QED
  BY <1>1 DEF Msgs, JoinedMsgs, PeerMsgs, GroupMsgs, BufferedMsgs, ErrorMsgs

\* What the reading of a message leaves of the types.
ReadOK ==
  /\ pending' \in Rooms \cup {None}
  /\ myPeer' \in [Rooms -> Ids]
  /\ peerToRoom' \in [Peers -> Rooms \cup {None}]
  /\ names' \subseteq Rooms \X Peers
  /\ queued' \in [Peers -> Seq(Nat)]
  /\ ServedOK
  /\ \/ tasks' = tasks
     \/ \E t \in ShapedTasks : tasks' = Append(tasks, t)
     \/ \E s \in Seq(ShapedTasks) : tasks' = tasks \o s

\* The handler of "joined" keeps the types.
LEMMA OnJoinedTypes ==
  ASSUME TypeInv, NEW m \in JoinedMsgs, Tail(inbox) \in Seq(Msgs), OnJoined(m)
  PROVE  ReadOK
<1>1. /\ m.room \in Rooms /\ m.me \in Ids /\ m.here \subseteq Peers
  BY DEF JoinedMsgs, Ids
<1>2. /\ myPeer' = [myPeer EXCEPT ![m.room] = m.me]
      /\ peerToRoom' = [p \in Peers |-> IF p \in m.here THEN m.room
                                        ELSE peerToRoom[p]]
      /\ names' = names \cup {<<m.room, p>> : p \in m.here}
      /\ inbox' = Tail(inbox) /\ rooms' = rooms /\ queued' = queued
  BY DEF OnJoined
<1>3. myPeer' \in [Rooms -> Ids]
  BY <1>1, <1>2, WorldTypes
<1>4. peerToRoom' \in [Peers -> Rooms \cup {None}]
  BY <1>1, <1>2, WorldTypes
<1>5. names' \subseteq Rooms \X Peers
  BY <1>1, <1>2, WorldTypes
<1>6. ServedOK /\ queued' \in [Peers -> Seq(Nat)]
  BY <1>2, WorldTypes DEF ServedOK
<1>7. CASE pending = m.room
  <2>1. pending' = None /\ tasks' = Append(tasks, JoinedTask(m.room))
    BY <1>7 DEF OnJoined, Spawn, JoinedTask
  <2>2. \E t \in ShapedTasks : tasks' = Append(tasks, t)
    BY <1>1, <2>1, Spawned
  <2>3. QED
    BY <1>3, <1>4, <1>5, <1>6, <2>1, <2>2 DEF ReadOK
<1>8. CASE pending # m.room
  <2>1. pending' = pending /\ tasks' = tasks
    BY <1>8 DEF OnJoined
  <2>2. QED
    BY <1>3, <1>4, <1>5, <1>6, <2>1, WorldTypes DEF ReadOK
<1>9. QED
  BY <1>7, <1>8

\* The handlers of "peer-joined" and "peer-left" keep the types.
LEMMA OnPeerTypes ==
  ASSUME TypeInv, NEW m \in PeerMsgs, Tail(inbox) \in Seq(Msgs),
         OnPeerJoined(m) \/ OnPeerLeft(m)
  PROVE  ReadOK
<1>1. m.room \in Rooms /\ m.peer \in Peers
  BY DEF PeerMsgs
<1>2. /\ UNCHANGED <<myPeer, pending, tasks, rooms, queued>>
      /\ inbox' = Tail(inbox)
  BY DEF OnPeerJoined, OnPeerLeft
<1>3. peerToRoom' \in [Peers -> Rooms \cup {None}]
  BY <1>1, WorldTypes, ZenonT(30) DEF OnPeerJoined, OnPeerLeft
<1>4. names' \subseteq Rooms \X Peers
  BY <1>1, WorldTypes, SMTT(20) DEF OnPeerJoined, OnPeerLeft
<1>5. QED
  BY <1>2, <1>3, <1>4, WorldTypes DEF ReadOK, ServedOK

\* The handler of "group-message" keeps the types.
LEMMA OnGroupMessageTypes ==
  ASSUME TypeInv, NEW m \in GroupMsgs, Tail(inbox) \in Seq(Msgs),
         OnGroupMessage(m)
  PROVE  ReadOK
<1>1. /\ m.room \in Rooms /\ m.from \in Origins /\ m.text \in Nat
      /\ m.seq \in Nat
  BY DEF GroupMsgs
<1>2. PICK seqs : /\ seqs = IF m.from = myPeer[m.room] THEN {} ELSE {m.seq}
                  /\ ServeAcks(m.room, seqs, Tail(inbox))
  BY DEF OnGroupMessage
<1>3. seqs # {} => Max(seqs) \in Nat
  <2>1. CASE seqs = {m.seq}
    <3>1. seqs \subseteq 0..m.seq /\ seqs # {}
      BY <1>1, <2>1
    <3>2. QED
      BY <1>1, <2>1, <3>1, MaxOf
  <2>2. QED
    BY <1>2, <2>1
<1>4. ServedOK
  BY <1>1, <1>2, <1>3, ServeAcksTypes
<1>5. Incoming(m.room, m.from, m.text) \in ShapedTasks
  BY <1>1, Spawned
<1>6. \/ tasks' = tasks
      \/ \E t \in ShapedTasks : tasks' = Append(tasks, t)
  BY <1>5 DEF OnGroupMessage, Spawn
<1>7. UNCHANGED <<myPeer, peerToRoom, names, pending, queued>>
  BY DEF OnGroupMessage
<1>8. QED
  BY <1>4, <1>6, <1>7, WorldTypes DEF ReadOK

\* The messages of a list that are not the user's own.
Foreign(m) == {i \in DOMAIN m.messages : m.messages[i].from # myPeer[m.room]}

\* The coroutines of some of them.
Copies(m, order) ==
  [i \in DOMAIN order |-> Incoming(m.room, m.messages[order[i]].from,
                                   m.messages[order[i]].text)]

\* They can go on, whatever their order.
LEMMA CopiesAre ==
  ASSUME NEW m \in BufferedMsgs, NEW S, S \subseteq DOMAIN m.messages,
         NEW order \in Ascending(S)
  PROVE  /\ Copies(m, order) \in Seq(ShapedTasks)
         /\ DOMAIN Copies(m, order) = DOMAIN order
         /\ \A i \in DOMAIN order : order[i] \in S
         /\ \A i, j \in DOMAIN order : i < j => order[i] < order[j]
         /\ DOMAIN order = 1..Len(Copies(m, order))
         /\ \A i \in DOMAIN order :
              Copies(m, order)[i] = Incoming(m.room, m.messages[order[i]].from,
                                             m.messages[order[i]].text)
<1>1. m.room \in Rooms /\ m.messages \in Seq(SeqRows)
  BY DEF BufferedMsgs
<1>2. \A i \in DOMAIN m.messages :
        m.messages[i].from \in Origins /\ m.messages[i].text \in Nat
  <2>1. \A i \in DOMAIN m.messages : m.messages[i] \in SeqRows
    BY <1>1
  <2>2. QED
    BY <2>1 DEF SeqRows
<1>3. S \subseteq 1..Len(m.messages) /\ Len(m.messages) \in Nat
  BY <1>1
<1>4. Cardinality(S) \in Nat
  <2>1. IsFiniteSet(S)
    BY <1>3, FS_Interval, FS_Subset
  <2>2. QED
    BY <2>1, FS_CardinalityType
<1>5. /\ order \in [1..Cardinality(S) -> S]
      /\ \A i, j \in DOMAIN order : i < j => order[i] < order[j]
  BY DEF Ascending
<1>6. \A i \in DOMAIN order :
        Incoming(m.room, m.messages[order[i]].from, m.messages[order[i]].text)
          \in ShapedTasks
  BY <1>1, <1>2, <1>5, Spawned
<1>7. Copies(m, order) \in [1..Cardinality(S) -> ShapedTasks]
  BY <1>5, <1>6 DEF Copies
<1>8. Copies(m, order) \in Seq(ShapedTasks)
      /\ Len(Copies(m, order)) = Cardinality(S)
  BY <1>4, <1>7, FunctionIsSeq
<1>9. QED
  BY <1>5, <1>8 DEF Copies

\* The numbers of messages of a list have a greatest.
LEMMA SeqsHaveMax ==
  ASSUME NEW m \in BufferedMsgs, NEW S, S \subseteq DOMAIN m.messages, S # {}
  PROVE  /\ Max({m.messages[i].seq : i \in S}) \in Nat
         /\ Max({m.messages[i].seq : i \in S}) \in {m.messages[i].seq : i \in S}
         /\ \A i \in S :
              m.messages[i].seq <= Max({m.messages[k].seq : k \in S})
<1>1. m.messages \in Seq(SeqRows) /\ Rising(m.messages)
  BY DEF BufferedMsgs
<1>2. \A i \in DOMAIN m.messages : m.messages[i].seq \in Nat
  <2>1. \A i \in DOMAIN m.messages : m.messages[i] \in SeqRows
    BY <1>1
  <2>2. QED
    BY <2>1 DEF SeqRows
<1>3. S \subseteq 0..Len(m.messages) /\ Len(m.messages) \in Nat
  BY <1>1
<1>4. Max(S) \in S /\ \A i \in S : i <= Max(S)
  BY <1>3, MaxOf
<1>5. PICK k \in S : \A i \in S : i <= k
  BY <1>4
<1>6. \A i \in S : m.messages[i].seq <= m.messages[k].seq
  <2>1. ASSUME NEW i \in S
        PROVE  m.messages[i].seq <= m.messages[k].seq
    <3>1. i < k \/ i = k
      BY <1>3, <1>5
    <3>2. QED
      BY <1>1, <1>2, <3>1 DEF Rising
  <2>2. QED
    BY <2>1
<1>7. PICK n \in Nat : n = m.messages[k].seq
  BY <1>2
<1> DEFINE T == {m.messages[i].seq : i \in S}
<1>8. T \subseteq 0..n /\ T # {}
  BY <1>2, <1>6, <1>7
<1>9. Max(T) \in T /\ \A y \in T : y <= Max(T)
  BY <1>8, MaxOf
<1>10. QED
  BY <1>2, <1>9

\* The handler of "buffered-messages" keeps the types.
LEMMA OnBufferedMessagesTypes ==
  ASSUME TypeInv, NEW m \in BufferedMsgs, Tail(inbox) \in Seq(Msgs),
         OnBufferedMessages(m)
  PROVE  ReadOK
<1>1. /\ \E order \in Ascending(Foreign(m)) : tasks' = tasks \o Copies(m, order)
      /\ ServeAcks(m.room, {m.messages[i].seq : i \in Foreign(m)}, Tail(inbox))
      /\ UNCHANGED <<myPeer, peerToRoom, names, pending, queued>>
  BY DEF OnBufferedMessages, Foreign, Copies
<1>2. Foreign(m) \subseteq DOMAIN m.messages
  BY DEF Foreign
<1>3. \E s \in Seq(ShapedTasks) : tasks' = tasks \o s
  BY <1>1, <1>2, CopiesAre
<1>4. PICK S : S = Foreign(m)
  OBVIOUS
<1>5. PICK seqs : seqs = {m.messages[i].seq : i \in S}
  OBVIOUS
<1>6. seqs # {} => Max(seqs) \in Nat
  BY <1>2, <1>4, <1>5, SeqsHaveMax
<1>7. m.room \in Rooms
  BY DEF BufferedMsgs
<1>8. ServedOK
  BY <1>1, <1>4, <1>5, <1>6, <1>7, ServeAcksTypes
<1>9. QED
  BY <1>1, <1>3, <1>8, WorldTypes DEF ReadOK

\* Every message that is read keeps the types.
LEMMA OnMessageTypes ==
  ASSUME TypeInv, OnMessage
  PROVE  TypeInv' /\ StoreGrows
<1>1. PICK m : m = Head(inbox)
  OBVIOUS
<1>2. /\ inbox # <<>>
      /\ \/ m.type = "joined" /\ OnJoined(m)
         \/ m.type = "peer joined" /\ OnPeerJoined(m)
         \/ m.type = "peer left" /\ OnPeerLeft(m)
         \/ m.type = "group" /\ OnGroupMessage(m)
         \/ m.type = "buffered" /\ OnBufferedMessages(m)
         \/ m.type = "error" /\ OnErrorReceived
      /\ UNCHANGED <<store, events, nextId, link, author, wire, breaks>>
  BY <1>1 DEF OnMessage, linkVars
<1>3. ReadOK
  <2>1. CASE m.type = "error" /\ OnErrorReceived
    BY <1>2, <2>1, MessageTypes, WorldTypes DEF OnErrorReceived, ReadOK, ServedOK
  <2>2. QED
    BY <1>1, <1>2, <2>1, MessageTypes, OnJoinedTypes, OnPeerTypes,
       OnGroupMessageTypes, OnBufferedMessagesTypes
<1>4. ClientTypeOK' /\ WorldTypeOK' /\ events' \in Seq(Events)
  BY <1>2, <1>3, WorldTypes DEF ReadOK, ServedOK, ClientTypeOK, WorldTypeOK
<1>5. store' = store /\ nextId' \in Nat /\ nextId <= nextId'
  <2>1. nextId \in Nat
    BY WorldTypes
  <2>2. store' = store /\ nextId' = nextId
    BY <1>2
  <2>3. QED
    BY <2>1, <2>2
<1>6. \/ tasks' = tasks
      \/ \E t \in ShapedTasks : tasks' = Append(tasks, t)
      \/ \E s \in Seq(ShapedTasks) : tasks' = tasks \o s
  BY <1>3 DEF ReadOK
<1>7. QED
  BY <1>4, <1>5, <1>6, OuterKeeps

(***************************************************************************)
(* What is queued to the Qt thread.                                        *)
(***************************************************************************)
LEMMA EventTypes ==
  ASSUME TypeInv, events # <<>>
  PROVE  /\ Head(events) \in Events /\ Tail(events) \in Seq(Events)
         /\ Head(events) = events[1] /\ 1 \in DOMAIN events
         /\ Head(events).type = "send" => Head(events) \in Sends
         /\ Head(events).type = "leave" => Head(events) \in Leaves
         /\ Head(events).type = "opened" => Head(events) \in Openings
         /\ Head(events).type = "direct" => Head(events) \in Directs
<1>1. /\ Head(events) \in Events /\ Tail(events) \in Seq(Events)
      /\ Head(events) = events[1] /\ 1 \in DOMAIN events
  BY TailIs, WorldTypes
<1>2. QED
  BY <1>1 DEF Events, Sends, Leaves, Openings, Directs

\* What an event leaves of the types.
RunOK ==
  /\ myPeer' \in [Rooms -> Ids]
  /\ wire' \in [Rooms \cup Peers -> Seq(Nat)]
  /\ queued' \in [Peers -> Seq(Nat)]
  /\ ServedOK
  /\ tasks' = tasks \/ \E t \in ShapedTasks : tasks' = Append(tasks, t)

\* A direct message that is sent or queued keeps the types.
LEMMA SendDirectTypes ==
  ASSUME TypeInv, NEW e \in Sends, SendDirect(e)
  PROVE  RunOK
<1>1. e.text \in Nat
  BY DEF Sends
<1>2. \A x \in Rooms \cup Peers : wire[x] \in Seq(Nat)
                                  /\ Append(wire[x], e.text) \in Seq(Nat)
  BY <1>1, WorldTypes
<1>3. \A p \in Peers : queued[p] \in Seq(Nat)
                       /\ Append(queued[p], e.text) \in Seq(Nat)
  BY <1>1, WorldTypes
<1>4. wire' \in [Rooms \cup Peers -> Seq(Nat)]
  BY <1>2, WorldTypes DEF SendDirect
<1>5. queued' \in [Peers -> Seq(Nat)]
  BY <1>3, WorldTypes DEF SendDirect
<1>6. QED
  BY <1>4, <1>5, WorldTypes DEF SendDirect, RunOK, ServedOK

\* A group message that is sent keeps the types.
LEMMA SendToGroupTypes ==
  ASSUME TypeInv, NEW e \in Sends, SendToGroup(e)
  PROVE  RunOK
<1>1. e.text \in Nat /\ e.room \in Rooms
  BY DEF Sends
<1>2. wire[e.room] \in Seq(Nat) /\ Append(wire[e.room], e.text) \in Seq(Nat)
  BY <1>1, WorldTypes
<1>3. wire' \in [Rooms \cup Peers -> Seq(Nat)]
  <2>1. CASE IsConnected
    <3>1. wire' = [wire EXCEPT ![e.room] = Append(wire[e.room], e.text)]
      BY <2>1 DEF SendToGroup
    <3>2. QED
      BY <1>2, <3>1, WorldTypes
  <2>2. CASE ~IsConnected
    BY <2>2, WorldTypes DEF SendToGroup
  <2>3. QED
    BY <2>1, <2>2
<1>4. ServedOK
  <2>1. CASE ServeGroupMessage(e.room, e.text)
    BY <1>1, <2>1, ServeGroupMessageTypes
  <2>2. CASE UNCHANGED <<rooms, inbox>>
    BY <2>2, WorldTypes DEF ServedOK
  <2>3. QED
    BY <2>1, <2>2 DEF SendToGroup
<1>5. QED
  BY <1>3, <1>4, WorldTypes DEF SendToGroup, RunOK

\* A leave that is sent keeps the types.
LEMMA LeaveTypes ==
  ASSUME TypeInv, NEW e \in Leaves, Leave(e)
  PROVE  RunOK
<1>1. e.room \in Rooms /\ e.chat \in Nat
  BY DEF Leaves
<1>2. ServedOK
  <2>1. CASE ServeLeave(e.room, myPeer[e.room])
    BY <1>1, <2>1, ServeLeaveTypes
  <2>2. CASE rooms' = Forgotten(e.room) /\ UNCHANGED inbox
    BY <1>1, <2>2, ForgottenTypes, WorldTypes DEF ServedOK
  <2>3. QED
    BY <2>1, <2>2 DEF Leave
<1>3. myPeer' \in [Rooms -> Ids]
  BY <1>1, WorldTypes DEF Leave, Ids
<1>4. \E t \in ShapedTasks : tasks' = Append(tasks, t)
  BY <1>1, Spawned DEF Leave, Spawn, RemoveTask
<1>5. QED
  BY <1>2, <1>3, <1>4, WorldTypes DEF Leave, RunOK

\* The queued direct messages that are sent keep the types.
LEMMA FlushTypes ==
  ASSUME TypeInv, NEW e \in Openings, FlushPendingDirectMessages(e)
  PROVE  RunOK
<1>1. e.peer \in Peers
  BY DEF Openings
<1>2. wire[e.peer] \in Seq(Nat) /\ queued[e.peer] \in Seq(Nat)
  BY <1>1, WorldTypes
<1>3. wire[e.peer] \o queued[e.peer] \in Seq(Nat) /\ <<>> \in Seq(Nat)
  BY <1>2, ConcatIs, EmptyIs
<1>4. /\ wire' \in [Rooms \cup Peers -> Seq(Nat)]
      /\ queued' \in [Peers -> Seq(Nat)]
  <2>1. CASE channel[e.peer] = "open"
    <3>1. /\ wire' = [wire EXCEPT ![e.peer] = wire[e.peer] \o queued[e.peer]]
          /\ queued' = [queued EXCEPT ![e.peer] = <<>>]
      BY <2>1 DEF FlushPendingDirectMessages
    <3>2. QED
      BY <1>3, <3>1, WorldTypes
  <2>2. CASE channel[e.peer] # "open"
    BY <2>2, WorldTypes DEF FlushPendingDirectMessages
  <2>3. QED
    BY <2>1, <2>2
<1>5. QED
  BY <1>4, WorldTypes DEF FlushPendingDirectMessages, RunOK, ServedOK

\* A direct message that is heard keeps the types.
LEMMA OnDirectMessageTypes ==
  ASSUME TypeInv, NEW e \in Directs, OnDirectMessage(e)
  PROVE  RunOK
<1>1. e.peer \in Peers /\ e.peer \in Origins /\ e.text \in Nat
  BY DEF Directs, Origins
<1>2. tasks' = tasks \/ \E t \in ShapedTasks : tasks' = Append(tasks, t)
  <2>1. CASE peerToRoom[e.peer] = None
    BY <2>1 DEF OnDirectMessage
  <2>2. CASE peerToRoom[e.peer] # None
    <3>1. peerToRoom[e.peer] \in Rooms
      BY <1>1, <2>2, WorldTypes
    <3>2. Incoming(peerToRoom[e.peer], e.peer, e.text) \in ShapedTasks
      BY <1>1, <3>1, Spawned
    <3>3. tasks' = Append(tasks, Incoming(peerToRoom[e.peer], e.peer, e.text))
      BY <2>2 DEF OnDirectMessage, Spawn
    <3>4. QED
      BY <3>2, <3>3
  <2>3. QED
    BY <2>1, <2>2
<1>3. QED
  BY <1>2, WorldTypes DEF OnDirectMessage, RunOK, ServedOK

\* Every event of the Qt thread keeps the types.
LEMMA RunEventTypes ==
  ASSUME TypeInv, RunEvent
  PROVE  TypeInv' /\ StoreGrows
<1>1. PICK e : e = Head(events)
  OBVIOUS
<1>2. /\ events # <<>> /\ events' = Tail(events)
      /\ \/ e.type = "send" /\ SendDirect(e)
         \/ e.type = "send" /\ SendToGroup(e)
         \/ e.type = "leave" /\ Leave(e)
         \/ e.type = "opened" /\ FlushPendingDirectMessages(e)
         \/ e.type = "direct" /\ OnDirectMessage(e)
      /\ UNCHANGED <<store, pending, peerToRoom, names, nextId, link, author,
                     breaks>>
  BY <1>1 DEF RunEvent, linkVars
<1>3. RunOK /\ events' \in Seq(Events)
  BY <1>1, <1>2, EventTypes, SendDirectTypes, SendToGroupTypes, LeaveTypes,
     FlushTypes, OnDirectMessageTypes
<1>4. ClientTypeOK' /\ WorldTypeOK'
  BY <1>2, <1>3, WorldTypes DEF RunOK, ServedOK, ClientTypeOK, WorldTypeOK
<1>5. store' = store /\ nextId' \in Nat /\ nextId <= nextId'
  BY <1>2, WorldTypes
<1>6. tasks' = tasks \/ \E t \in ShapedTasks : tasks' = Append(tasks, t)
  BY <1>3 DEF RunOK
<1>7. QED
  BY <1>3, <1>4, <1>5, <1>6, OuterKeeps

(***************************************************************************)
(* The network and the peers.                                              *)
(***************************************************************************)
LEMMA SessionsTypes ==
  ASSUME TypeInv, NEW S, NEW s \in {"none", "now", "old"},
         \A r \in S \cap Rooms : rooms[r].session # "none",
         rooms' = [r \in Rooms |-> IF r \in S
                                   THEN [rooms[r] EXCEPT !.session = s]
                                   ELSE rooms[r]]
  PROVE  rooms' \in [Rooms -> RoomStates]
<1>1. ASSUME NEW r \in Rooms
      PROVE  rooms'[r] \in RoomStates
  <2>1. rooms[r] \in RoomStates
    BY WorldTypes
  <2>2. CASE r \in S
    BY <2>1, <2>2 DEF RoomStates
  <2>3. CASE r \notin S
    BY <2>1, <2>3
  <2>4. QED
    BY <2>2, <2>3
<1>2. QED
  BY <1>1

\* Whatever happens around the client keeps the types.
LEMMA WorldActsTypes ==
  ASSUME TypeInv, WorldActs
  PROVE  TypeInv' /\ StoreGrows
<1>1. /\ rooms \in [Rooms -> RoomStates] /\ inbox \in Seq(Msgs)
      /\ nextId \in Nat /\ breaks \in Nat /\ nextId <= nextId
  BY WorldTypes
<1>2. CASE OnConnected
  <2>1. /\ link' = "up" /\ UNCHANGED <<steadyVars, breaks, pending>>
        /\ IF pending = None THEN UNCHANGED <<rooms, inbox, nextId>>
           ELSE ServeJoin(pending)
    BY <1>2 DEF OnConnected
  <2>2. ServedOK /\ nextId' \in Nat /\ nextId <= nextId'
    <3>1. CASE pending = None
      BY <1>1, <2>1, <3>1 DEF ServedOK
    <3>2. CASE pending # None
      <4>1. pending \in Rooms /\ ServeJoin(pending)
        BY <2>1, <3>2, WorldTypes
      <4>2. QED
        BY <4>1, ServeJoinTypes
    <3>3. QED
      BY <3>1, <3>2
  <2>3. ClientTypeOK' /\ WorldTypeOK' /\ events' \in Seq(Events)
    BY <2>1, <2>2, WorldTypes DEF ServedOK, ClientTypeOK, WorldTypeOK,
       steadyVars, clientSteady
  <2>4. QED
    BY <2>1, <2>2, <2>3, OuterKeeps DEF steadyVars, clientSteady
<1>3. CASE OnErrorOccurred
  BY <1>1, <1>3, OuterKeeps, WorldTypes DEF OnErrorOccurred, ClientTypeOK,
     WorldTypeOK, steadyVars, clientSteady
<1>4. CASE Retry
  BY <1>1, <1>4, OuterKeeps, WorldTypes DEF Retry, ClientTypeOK, WorldTypeOK,
     steadyVars, clientSteady
<1>5. CASE Break
  <2>1. rooms' = [r \in Rooms |-> IF r \in {x \in Rooms : rooms[x].session = "now"}
                                  THEN [rooms[r] EXCEPT !.session = "old"]
                                  ELSE rooms[r]]
    BY <1>5 DEF Break
  <2>2. rooms' \in [Rooms -> RoomStates]
    BY <2>1, SessionsTypes
  <2>3. QED
    BY <1>1, <1>5, <2>2, OuterKeeps, WorldTypes DEF Break, ClientTypeOK,
       WorldTypeOK, clientVars
<1>6. CASE NoticeBreak
  BY <1>1, <1>6, OuterKeeps, WorldTypes, EmptyIs DEF NoticeBreak, ClientTypeOK,
     WorldTypeOK, steadyVars, clientSteady
<1>7. CASE ServerNotices
  <2>1. rooms' = [r \in Rooms |-> IF r \in {x \in Rooms : rooms[x].session = "old"}
                                  THEN [rooms[r] EXCEPT !.session = "none"]
                                  ELSE rooms[r]]
    BY <1>7 DEF ServerNotices
  <2>2. rooms' \in [Rooms -> RoomStates]
    BY <2>1, SessionsTypes
  <2>3. QED
    BY <1>1, <1>7, <2>2, OuterKeeps, WorldTypes DEF ServerNotices, ClientTypeOK,
       WorldTypeOK, clientVars, linkVars
<1>8. ASSUME NEW p \in Peers, ChannelOpens(p)
      PROVE  TypeInv' /\ StoreGrows
  <2>1. [type |-> "opened", peer |-> p] \in Events
    BY DEF Openings, Events
  <2>2. events' \in Seq(Events)
    BY <1>8, <2>1, WorldTypes, AppendIs DEF ChannelOpens
  <2>3. QED
    BY <1>1, <1>8, <2>2, OuterKeeps, WorldTypes DEF ChannelOpens, ClientTypeOK,
       WorldTypeOK, clientSteady, linkVars
<1>9. ASSUME NEW p \in Peers, PeerWrites(p)
      PROVE  TypeInv' /\ StoreGrows
  <2>1. NextText \in Nat /\ p \in Peers \cup {Me}
    BY WorldTypes DEF NextText
  <2>2. [type |-> "direct", peer |-> p, text |-> NextText] \in Events
    BY <2>1 DEF Directs, Events
  <2>3. events' \in Seq(Events) /\ author' \in Seq(Peers \cup {Me})
    BY <1>9, <2>1, <2>2, WorldTypes, AppendIs DEF PeerWrites
  <2>4. QED
    BY <1>1, <1>9, <2>3, OuterKeeps, WorldTypes DEF PeerWrites, ClientTypeOK,
       WorldTypeOK, clientSteady, linkVars
<1>10. ASSUME NEW p \in Peers, PeerPosts(p)
       PROVE  TypeInv' /\ StoreGrows
  <2>1. PICK r \in Rooms : r = Home[p]
    BY BridgeBounds
  <2>2. NextText \in Nat /\ p \in Origins /\ p \in Peers \cup {Me}
    BY WorldTypes DEF NextText, Origins
  <2>3. author' \in Seq(Peers \cup {Me})
    BY <1>10, <2>2, WorldTypes, AppendIs DEF PeerPosts
  <2>4. /\ rooms' = Logged(r, p, NextText)
        /\ inbox' = Told(r, GroupMessage(r, p, NextText))
    BY <1>10, <2>1 DEF PeerPosts
  <2>5. /\ Logged(r, p, NextText) \in [Rooms -> RoomStates]
        /\ GroupMessage(r, p, NextText) \in Msgs
    BY <2>2, LoggedTypes
  <2>6. ServedOK
    BY <1>1, <2>4, <2>5, AppendIs DEF Told, ServedOK
  <2>7. QED
    BY <1>1, <1>10, <2>3, <2>6, OuterKeeps, WorldTypes DEF PeerPosts, ServedOK,
       ClientTypeOK, WorldTypeOK, clientVars, linkVars
<1>11. ASSUME NEW p \in Peers, PeerMoves(p)
       PROVE  TypeInv' /\ StoreGrows
  <2>1. PICK r \in Rooms : r = Home[p]
    BY BridgeBounds
  <2>2. PICK here \in SUBSET Peers :
          /\ rooms' = [rooms EXCEPT ![r].here = here]
          /\ \/ inbox' = Told(r, [type |-> "peer left", room |-> r, peer |-> p])
             \/ inbox' = Told(r, [type |-> "peer joined", room |-> r,
                                  peer |-> p])
    <3>1. rooms[r].here \ {p} \in SUBSET Peers
          /\ rooms[r].here \cup {p} \in SUBSET Peers
      BY RoomTypes
    <3>2. QED
      BY <1>11, <2>1, <3>1 DEF PeerMoves
  <2>3. [rooms[r] EXCEPT !.here = here] \in RoomStates
    BY <1>1 DEF RoomStates
  <2>4. rooms' = [rooms EXCEPT ![r] = [rooms[r] EXCEPT !.here = here]]
    BY <1>1, <2>2
  <2>5. rooms' \in [Rooms -> RoomStates]
    BY <1>1, <2>3, <2>4
  <2>6. /\ [type |-> "peer left", room |-> r, peer |-> p] \in Msgs
        /\ [type |-> "peer joined", room |-> r, peer |-> p] \in Msgs
    BY DEF PeerMsgs, Msgs
  <2>7. ServedOK
    <3>1. PICK msg \in Msgs : inbox' = Told(r, msg)
      BY <2>2, <2>6
    <3>2. inbox' \in Seq(Msgs)
      BY <1>1, <3>1, AppendIs DEF Told
    <3>3. QED
      BY <2>5, <3>2 DEF ServedOK
  <2>8. QED
    BY <1>1, <1>11, <2>7, OuterKeeps, WorldTypes DEF PeerMoves, ServedOK,
       ClientTypeOK, WorldTypeOK, clientVars, linkVars
<1>12. QED
  BY <1>2, <1>3, <1>4, <1>5, <1>6, <1>7, <1>8, <1>9, <1>10, <1>11 DEF WorldActs

\* TypeInv is inductive, and members are only added.
LEMMA NextTypes ==
  ASSUME TypeInv, [Next]_vars
  PROVE  TypeInv' /\ StoreGrows
<1>1. CASE UNCHANGED vars
  <2>1. /\ UNCHANGED <<store, tasks, events, pending, myPeer, roomType, peerToRoom,
                       names, queued, nextId>>
        /\ UNCHANGED <<link, kind, rooms, inbox, channel, author, wire, breaks>>
    BY <1>1 DEF vars, clientVars, linkVars, worldVars
  <2>2. ClientTypeOK' /\ WorldTypeOK' /\ events' \in Seq(Events)
    BY <2>1, WorldTypes DEF ClientTypeOK, WorldTypeOK
  <2>3. nextId' \in Nat /\ nextId <= nextId'
    BY <2>1, WorldTypes
  <2>4. QED
    BY <2>1, <2>2, <2>3, OuterKeeps
<1>2. QED
  BY <1>1, UserTypes, OnMessageTypes, RunEventTypes, ResumeTypes, WorldActsTypes
     DEF Next

\* TypeInv holds at the start.
LEMMA InitTypes ==
  ASSUME Init
  PROVE  TypeInv
<1>1. store = [chats |-> <<>>, members |-> <<>>, relations |-> <<>>,
               messages |-> <<>>]
  BY DEF Init, EmptyStore
<1>2. StoreTypeOK /\ IdsFresh
  BY <1>1, EmptyIs DEF StoreTypeOK, IdsFresh, Init
<1>3. QueuesOK /\ ClientTypeOK
  BY EmptyIs DEF Init, QueuesOK, ClientTypeOK, Ids
<1>4. rooms \in [Rooms -> RoomStates]
  <2>1. PICK here \in SUBSET Peers :
          rooms = [r \in Rooms |->
                     [EmptyRoom EXCEPT !.here = {p \in here : Home[p] = r}]]
    BY DEF Init
  <2>2. ASSUME NEW r \in Rooms
        PROVE  [EmptyRoom EXCEPT !.here = {p \in here : Home[p] = r}]
                 \in RoomStates
    BY EmptyIs DEF EmptyRoom, RoomStates, Ids
  <2>3. QED
    BY <2>1, <2>2
<1>5. WorldTypeOK
  BY <1>4, EmptyIs DEF Init, WorldTypeOK
<1>6. QED
  BY <1>2, <1>3, <1>5 DEF TypeInv

-----------------------------------------------------------------------------
(* What is sent is stored first, and sent once.                            *)

(***************************************************************************)
(* What becomes of the texts of a queue of coroutines.                     *)
(***************************************************************************)
LEMMA TextsOfTail ==
  ASSUME NEW S, NEW q \in Seq(S), q # <<>>
  PROVE  /\ TaskTexts(Tail(q)) \subseteq TaskTexts(q)
         /\ OnceAsTask(q) => OnceAsTask(Tail(q))
         /\ OnceAsTask(q) /\ Head(q).op = "send" =>
              Head(q).text \in TaskTexts(q) \ TaskTexts(Tail(q))
<1> DEFINE t == Tail(q)
<1>1. /\ Head(q) = q[1] /\ 1 \in DOMAIN q
      /\ \A i \in DOMAIN t : i + 1 \in DOMAIN q /\ t[i] = q[i + 1]
      /\ DOMAIN t \subseteq Nat \ {0}
  BY TailIs
<1> HIDE DEF t
<1>2. TaskTexts(t) \subseteq TaskTexts(q)
  BY <1>1 DEF TaskTexts
<1>3. ASSUME OnceAsTask(q)
      PROVE  OnceAsTask(t)
  <2>1. ASSUME NEW i \in DOMAIN t, NEW j \in DOMAIN t, t[i].op = "send",
               t[j].op = "send", t[i].text = t[j].text
        PROVE  i = j
    <3>1. i + 1 = j + 1
      BY <1>1, <1>3, <2>1 DEF OnceAsTask
    <3>2. QED
      BY <1>1, <3>1
  <2>2. QED
    BY <2>1 DEF OnceAsTask
<1>4. ASSUME OnceAsTask(q), Head(q).op = "send"
      PROVE  Head(q).text \in TaskTexts(q) \ TaskTexts(t)
  <2>1. Head(q).text \in TaskTexts(q)
    BY <1>1, <1>4 DEF TaskTexts
  <2>2. ASSUME NEW i \in DOMAIN t, t[i].op = "send", t[i].text = Head(q).text
        PROVE  FALSE
    <3>1. i + 1 = 1
      BY <1>1, <1>4, <2>2 DEF OnceAsTask
    <3>2. QED
      BY <1>1, <3>1
  <2>3. QED
    BY <2>1, <2>2 DEF TaskTexts
<1>5. QED
  BY <1>2, <1>3, <1>4 DEF t

\* A coroutine that is put to the end brings its text, if it sends.
LEMMA TextsOfAppend ==
  ASSUME NEW S, NEW q \in Seq(S), NEW x \in S
  PROVE  /\ x.op # "send" => /\ TaskTexts(Append(q, x)) = TaskTexts(q)
                             /\ OnceAsTask(q) => OnceAsTask(Append(q, x))
         /\ x.op = "send" =>
              /\ TaskTexts(Append(q, x)) = TaskTexts(q) \cup {x.text}
              /\ OnceAsTask(q) /\ x.text \notin TaskTexts(q) =>
                   OnceAsTask(Append(q, x))
<1> DEFINE t == Append(q, x)
<1>1. /\ DOMAIN t = DOMAIN q \cup {Len(q) + 1}
      /\ \A i \in DOMAIN q : t[i] = q[i]
      /\ t[Len(q) + 1] = x
  BY AppendIs
<1> HIDE DEF t
<1>2. ASSUME x.op # "send"
      PROVE  /\ TaskTexts(t) = TaskTexts(q)
             /\ OnceAsTask(q) => OnceAsTask(t)
  BY <1>1, <1>2 DEF TaskTexts, OnceAsTask
<1>3. ASSUME x.op = "send"
      PROVE  /\ TaskTexts(t) = TaskTexts(q) \cup {x.text}
             /\ OnceAsTask(q) /\ x.text \notin TaskTexts(q) => OnceAsTask(t)
  BY <1>1, <1>3 DEF TaskTexts, OnceAsTask
<1>4. QED
  BY <1>2, <1>3 DEF t

\* Coroutines that do not send bring no text.
LEMMA TextsOfConcat ==
  ASSUME NEW S, NEW q \in Seq(S), NEW r \in Seq(S),
         \A i \in DOMAIN r : r[i].op # "send"
  PROVE  /\ TaskTexts(q \o r) = TaskTexts(q)
         /\ OnceAsTask(q) => OnceAsTask(q \o r)
<1> DEFINE t == q \o r
<1>1. /\ DOMAIN q = 1..Len(q) /\ DOMAIN r = 1..Len(r)
      /\ Len(q) \in Nat /\ Len(r) \in Nat
      /\ DOMAIN t = 1..(Len(q) + Len(r))
      /\ \A i \in DOMAIN q : t[i] = q[i]
      /\ \A i \in DOMAIN r : t[Len(q) + i] = r[i]
  BY ConcatIs
<1> HIDE DEF t
<1>2. ASSUME NEW i \in DOMAIN t, t[i].op = "send"
      PROVE  i \in DOMAIN q
  <2>1. CASE i \notin DOMAIN q
    <3>1. i - Len(q) \in DOMAIN r /\ i = Len(q) + (i - Len(q))
      BY <1>1, <2>1
    <3>2. t[i] = r[i - Len(q)]
      BY <1>1, <3>1
    <3>3. QED
      BY <1>2, <3>1, <3>2
  <2>2. QED
    BY <2>1
<1>3. DOMAIN q \subseteq DOMAIN t
  BY <1>1
<1>4. TaskTexts(t) = TaskTexts(q)
  BY <1>1, <1>2, <1>3 DEF TaskTexts
<1>5. OnceAsTask(q) => OnceAsTask(t)
  BY <1>1, <1>2 DEF OnceAsTask
<1>6. QED
  BY <1>4, <1>5 DEF t

\* The head goes to the end, and is the coroutine of the same text.
LEMMA TextsOfTurn ==
  ASSUME NEW S, NEW q \in Seq(S), q # <<>>, NEW x, OnceAsTask(q),
         x.op = "send" => Head(q).op = "send" /\ x.text = Head(q).text
  PROVE  /\ TaskTexts(Append(Tail(q), x)) \subseteq TaskTexts(q)
         /\ OnceAsTask(Append(Tail(q), x))
<1>1. /\ Tail(q) \in Seq(S)
      /\ TaskTexts(Tail(q)) \subseteq TaskTexts(q)
      /\ OnceAsTask(Tail(q))
      /\ Head(q).op = "send" =>
           Head(q).text \in TaskTexts(q) \ TaskTexts(Tail(q))
  BY TailIs, TextsOfTail
<1>2. PICK t \in Seq(S) : t = Tail(q)
  BY <1>1
<1>3. PICK T : T = S \cup {x}
  OBVIOUS
<1>4. t \in Seq(T) /\ x \in T
  BY <1>3, SeqWider
<1>5. CASE x.op # "send"
  <2>1. TaskTexts(Append(t, x)) = TaskTexts(t)
        /\ (OnceAsTask(t) => OnceAsTask(Append(t, x)))
    BY <1>4, <1>5, TextsOfAppend
  <2>2. QED
    BY <1>1, <1>2, <2>1
<1>6. CASE x.op = "send"
  <2>1. x.text \in TaskTexts(q) /\ x.text \notin TaskTexts(t)
    BY <1>1, <1>2, <1>6
  <2>2. /\ TaskTexts(Append(t, x)) = TaskTexts(t) \cup {x.text}
        /\ OnceAsTask(t) /\ x.text \notin TaskTexts(t) =>
             OnceAsTask(Append(t, x))
    BY <1>4, <1>6, TextsOfAppend
  <2>3. QED
    BY <1>1, <1>2, <2>1, <2>2
<1>7. QED
  BY <1>5, <1>6

(***************************************************************************)
(* And of a queue of events.                                               *)
(***************************************************************************)
LEMMA EventsOfTail ==
  ASSUME NEW S, NEW q \in Seq(S), q # <<>>
  PROVE  /\ EventTexts(Tail(q)) \subseteq EventTexts(q)
         /\ OnceAsEvent(q) => OnceAsEvent(Tail(q))
         /\ OnceAsEvent(q) /\ Head(q).type = "send" =>
              Head(q).text \in EventTexts(q) \ EventTexts(Tail(q))
<1> DEFINE t == Tail(q)
<1>1. /\ Head(q) = q[1] /\ 1 \in DOMAIN q
      /\ \A i \in DOMAIN t : i + 1 \in DOMAIN q /\ t[i] = q[i + 1]
      /\ DOMAIN t \subseteq Nat \ {0}
  BY TailIs
<1> HIDE DEF t
<1>2. EventTexts(t) \subseteq EventTexts(q)
  BY <1>1 DEF EventTexts
<1>3. ASSUME OnceAsEvent(q)
      PROVE  OnceAsEvent(t)
  <2>1. ASSUME NEW i \in DOMAIN t, NEW j \in DOMAIN t, t[i].type = "send",
               t[j].type = "send", t[i].text = t[j].text
        PROVE  i = j
    <3>1. i + 1 = j + 1
      BY <1>1, <1>3, <2>1 DEF OnceAsEvent
    <3>2. QED
      BY <1>1, <3>1
  <2>2. QED
    BY <2>1 DEF OnceAsEvent
<1>4. ASSUME OnceAsEvent(q), Head(q).type = "send"
      PROVE  Head(q).text \in EventTexts(q) \ EventTexts(t)
  <2>1. Head(q).text \in EventTexts(q)
    BY <1>1, <1>4 DEF EventTexts
  <2>2. ASSUME NEW i \in DOMAIN t, t[i].type = "send", t[i].text = Head(q).text
        PROVE  FALSE
    <3>1. i + 1 = 1
      BY <1>1, <1>4, <2>2 DEF OnceAsEvent
    <3>2. QED
      BY <1>1, <3>1
  <2>3. QED
    BY <2>1, <2>2 DEF EventTexts
<1>5. QED
  BY <1>2, <1>3, <1>4 DEF t

\* An event that is put to the end brings its text, if it sends.
LEMMA EventsOfAppend ==
  ASSUME NEW S, NEW q \in Seq(S), NEW x \in S
  PROVE  /\ x.type # "send" => /\ EventTexts(Append(q, x)) = EventTexts(q)
                               /\ OnceAsEvent(q) => OnceAsEvent(Append(q, x))
         /\ x.type = "send" =>
              /\ EventTexts(Append(q, x)) = EventTexts(q) \cup {x.text}
              /\ OnceAsEvent(q) /\ x.text \notin EventTexts(q) =>
                   OnceAsEvent(Append(q, x))
<1> DEFINE t == Append(q, x)
<1>1. /\ DOMAIN t = DOMAIN q \cup {Len(q) + 1}
      /\ \A i \in DOMAIN q : t[i] = q[i]
      /\ t[Len(q) + 1] = x
  BY AppendIs
<1> HIDE DEF t
<1>2. ASSUME x.type # "send"
      PROVE  /\ EventTexts(t) = EventTexts(q)
             /\ OnceAsEvent(q) => OnceAsEvent(t)
  BY <1>1, <1>2 DEF EventTexts, OnceAsEvent
<1>3. ASSUME x.type = "send"
      PROVE  /\ EventTexts(t) = EventTexts(q) \cup {x.text}
             /\ OnceAsEvent(q) /\ x.text \notin EventTexts(q) => OnceAsEvent(t)
  BY <1>1, <1>3 DEF EventTexts, OnceAsEvent
<1>4. QED
  BY <1>2, <1>3 DEF t

\* A message stays, unless it is lost with its chat.
MessagesKept ==
  /\ lost \subseteq lost'
  /\ \A j \in DOMAIN store.messages :
       \/ \E i \in DOMAIN store'.messages : store'.messages[i] = store.messages[j]
       \/ store.messages[j].text \in lost'

(***************************************************************************)
(* A step that neither sends nor stores anything of the user's.            *)
(***************************************************************************)
LEMMA StoredStays ==
  ASSUME MessagesKept, NEW n, IsStored(n)
  PROVE  IsStored(n)'
<1>1. CASE n \in lost
  BY <1>1 DEF MessagesKept, IsStored
<1>2. ASSUME NEW j \in DOMAIN store.messages, store.messages[j].text = n,
             store.messages[j].direction # "incoming"
      PROVE  IsStored(n)'
  <2>1. CASE store.messages[j].text \in lost'
    BY <1>2, <2>1 DEF IsStored
  <2>2. ASSUME NEW i \in DOMAIN store'.messages,
               store'.messages[i] = store.messages[j]
        PROVE  IsStored(n)'
    BY <1>2, <2>2 DEF IsStored, Outgoings, Incomings
  <2>3. QED
    BY <2>1, <2>2 DEF MessagesKept
<1>3. QED
  BY <1>1, <1>2 DEF IsStored, Outgoings, Incomings

SendsKept ==
  /\ TaskTexts(tasks') \subseteq TaskTexts(tasks) /\ OnceAsTask(tasks')
  /\ EventTexts(events') \subseteq EventTexts(events) /\ OnceAsEvent(events')
  /\ wire' = wire /\ queued' = queued
  /\ DOMAIN author \subseteq DOMAIN author'

\* It keeps the invariant.
LEMMA SendsKeptKeeps ==
  ASSUME TypeInv, MessagesKept, SendInv, SendsKept
  PROVE  SendInv'
<1>1. \A n : IsStored(n) => IsStored(n)'
  BY StoredStays
<1>2. \A n : (OnWire(n)' <=> OnWire(n)) /\ (InQueue(n)' <=> InQueue(n))
  BY DEF OnWire, InQueue, SendsKept
<1>3. \A n \in TaskTexts(tasks') :
        /\ n \in DOMAIN author' /\ n \notin EventTexts(events')
        /\ ~OnWire(n)' /\ ~InQueue(n)'
  BY <1>2 DEF SendInv, SendsKept
<1>4. \A n \in EventTexts(events') :
        /\ n \in DOMAIN author' /\ IsStored(n)'
        /\ ~OnWire(n)' /\ ~InQueue(n)'
  BY <1>1, <1>2 DEF SendInv, SendsKept
<1>5. \A n : OnWire(n)' \/ InQueue(n)' => n \in DOMAIN author' /\ IsStored(n)'
  BY <1>1, <1>2 DEF SendInv, SendsKept
<1>6. /\ \A x \in Rooms \cup Peers : NoRepeats(wire'[x])
      /\ \A p \in Peers :
           /\ NoRepeats(queued'[p])
           /\ \A i \in DOMAIN wire'[p] : \A j \in DOMAIN queued'[p] :
                wire'[p][i] # queued'[p][j]
  BY DEF SendInv, SendsKept
<1>7. OnceAsTask(tasks') /\ OnceAsEvent(events')
  BY DEF SendsKept
<1>8. QED
  BY <1>3, <1>4, <1>5, <1>6, <1>7 DEF SendInv

(***************************************************************************)
(* A step of the queues that does not send.                                *)
(***************************************************************************)
SameText(t) ==
  t.op \in {"send", "incoming"} =>
    /\ task.op = t.op /\ t.text = task.text
    /\ t.op = "incoming" => t.from = task.from

\* The coroutine at the head ends, or goes to the end.
TasksTurn ==
  /\ tasks # <<>>
  /\ \/ tasks' = Tail(tasks)
     \/ \E t : SameText(t) /\ tasks' = Append(Tail(tasks), t)

TasksMove ==
  \/ tasks' = tasks
  \/ \E t \in ShapedTasks : t.op # "send" /\ tasks' = Append(tasks, t)
  \/ \E s \in Seq(ShapedTasks) :
       (\A i \in DOMAIN s : s[i].op # "send") /\ tasks' = tasks \o s
  \/ TasksTurn

EventsMove ==
  \/ events' = events
  \/ \E e \in WrittenEvents(author') :
       e.type # "send" /\ events' = Append(events, e)
  \/ events # <<>> /\ events' = Tail(events)

AuthorsMove ==
  author' = author \/ \E x \in Peers \cup {Me} : author' = Append(author, x)

\* It brings no text and repeats none.
LEMMA TasksMoved ==
  ASSUME TypeInv, OnceAsTask(tasks), TasksMove
  PROVE  TaskTexts(tasks') \subseteq TaskTexts(tasks) /\ OnceAsTask(tasks')
<1>1. tasks \in Seq(ShapedTasks)
  BY WorldTypes
<1>2. CASE tasks' = tasks
  BY <1>2
<1>3. ASSUME NEW t \in ShapedTasks, t.op # "send", tasks' = Append(tasks, t)
      PROVE  TaskTexts(tasks') \subseteq TaskTexts(tasks) /\ OnceAsTask(tasks')
  BY <1>1, <1>3, TextsOfAppend
<1>4. ASSUME NEW s \in Seq(ShapedTasks), \A i \in DOMAIN s : s[i].op # "send",
             tasks' = tasks \o s
      PROVE  TaskTexts(tasks') \subseteq TaskTexts(tasks) /\ OnceAsTask(tasks')
  BY <1>1, <1>4, TextsOfConcat
<1>5. CASE tasks # <<>> /\ tasks' = Tail(tasks)
  BY <1>1, <1>5, TextsOfTail
<1>6. ASSUME tasks # <<>>, NEW t, SameText(t), tasks' = Append(Tail(tasks), t)
      PROVE  TaskTexts(tasks') \subseteq TaskTexts(tasks) /\ OnceAsTask(tasks')
  BY <1>1, <1>6, TextsOfTurn DEF SameText, task
<1>7. QED
  BY <1>2, <1>3, <1>4, <1>5, <1>6 DEF TasksMove, TasksTurn

\* The events that are left bring no text and repeat none.
LEMMA EventsMoved ==
  ASSUME TypeInv, OnceAsEvent(events), EventsMove
  PROVE  EventTexts(events') \subseteq EventTexts(events) /\ OnceAsEvent(events')
<1>1. events \in Seq(Events)
  BY WorldTypes
<1>2. CASE events' = events
  BY <1>2
<1>3. ASSUME NEW e \in Events, e.type # "send", events' = Append(events, e)
      PROVE  EventTexts(events') \subseteq EventTexts(events)
             /\ OnceAsEvent(events')
  BY <1>1, <1>3, EventsOfAppend
<1>4. CASE events # <<>> /\ events' = Tail(events)
  BY <1>1, <1>4, EventsOfTail
<1>5. QED
  BY <1>2, <1>3, <1>4 DEF EventsMove, WrittenEvents

\* Whoever writes, the texts of before stay whose they were.
LEMMA AuthorsMoved ==
  ASSUME TypeInv, AuthorsMove
  PROVE  /\ DOMAIN author \subseteq DOMAIN author'
         /\ \A n \in DOMAIN author : author'[n] = author[n]
<1>1. author \in Seq(Peers \cup {Me})
  BY WorldTypes
<1>2. ASSUME NEW x \in Peers \cup {Me}, author' = Append(author, x)
      PROVE  /\ DOMAIN author \subseteq DOMAIN author'
             /\ \A n \in DOMAIN author : author'[n] = author[n]
  BY <1>1, <1>2, AppendIs
<1>3. QED
  BY <1>2 DEF AuthorsMove

\* All of it: such a step keeps the invariant.
LEMMA Quiet ==
  ASSUME TypeInv, MessagesKept, SendInv, TasksMove, EventsMove, AuthorsMove,
         wire' = wire, queued' = queued
  PROVE  SendInv'
<1>1. OnceAsTask(tasks) /\ OnceAsEvent(events)
  BY DEF SendInv
<1>2. SendsKept
  BY <1>1, TasksMoved, EventsMoved, AuthorsMoved DEF SendsKept
<1>3. QED
  BY <1>2, SendsKeptKeeps

(***************************************************************************)
(* The io thread: a coroutine stays that of its text.                      *)
(***************************************************************************)
LEMMA TaskFields ==
  ASSUME TypeInv, tasks # <<>>
  PROVE  /\ \A a : SameText([task EXCEPT !.at = a])
         /\ \A a, b : SameText([task EXCEPT !.at = a, !.chat = b])
         /\ \A a, b : SameText([task EXCEPT !.at = a, !.room = b])
         /\ \A a, b : SameText([task EXCEPT !.at = a, !.left = b])
         /\ \A a, b : SameText([task EXCEPT !.at = a, !.found = b])
         /\ \A a, b : SameText([task EXCEPT !.left = a, !.found = b])
         /\ \A a, b, c : SameText([task EXCEPT !.at = a, !.left = b, !.found = c])
         /\ \A a, b, c, d : SameText([task EXCEPT !.at = a, !.left = b,
                                                  !.found = c, !.name = d])
<1>1. CASE task.op = "send"
  <2>1. task \in SendTasks
    BY <1>1, TaskTypes
  <2>2. QED
    BY <1>1, <2>1 DEF SendTasks, SameText
<1>2. CASE task.op = "incoming"
  <2>1. task \in IncomingTasks
    BY <1>2, TaskTypes
  <2>2. QED
    BY <1>2, <2>1 DEF IncomingTasks, SameText
<1>3. CASE task.op \notin {"send", "incoming"}
  <2>1. task \in JoinedTasks \cup JoiningTasks \cup LeaveTasks \cup RemoveTasks
    BY <1>3, TaskTypes
  <2>2. PICK op : op = task.op
    OBVIOUS
  <2>3. /\ \A a : [task EXCEPT !.at = a].op = op
        /\ \A a, b : [task EXCEPT !.at = a, !.chat = b].op = op
        /\ \A a, b : [task EXCEPT !.at = a, !.room = b].op = op
        /\ \A a, b : [task EXCEPT !.at = a, !.left = b].op = op
        /\ \A a, b : [task EXCEPT !.at = a, !.found = b].op = op
        /\ \A a, b : [task EXCEPT !.left = a, !.found = b].op = op
        /\ \A a, b, c : [task EXCEPT !.at = a, !.left = b, !.found = c].op = op
        /\ \A a, b, c, d : [task EXCEPT !.at = a, !.left = b, !.found = c,
                                        !.name = d].op = op
    BY <2>1, <2>2 DEF JoinedTasks, JoiningTasks, LeaveTasks, RemoveTasks
  <2>4. QED
    BY <1>3, <2>2, <2>3 DEF SameText
<1>4. QED
  BY <1>1, <1>2, <1>3

\* A coroutine that is suspended goes to the end.
LEMMA SuspendMoves ==
  ASSUME tasks # <<>>, NEW t, SameText(t), Suspend(t)
  PROVE  TasksTurn
BY DEF Suspend, TasksTurn

\* So does one that has found its members, or it ends.
LEMMA ResolvedMoves ==
  ASSUME TypeInv, tasks # <<>>, NEW members, Resolved(members)
  PROVE  TasksTurn
<1>1. CASE Finish
  BY <1>1 DEF Finish, TasksTurn
<1>2. CASE \E t : SameText(t) /\ Suspend(t)
  BY <1>2, SuspendMoves
<1>3. QED
  BY <1>1, <1>2, TaskFields DEF Resolved

\* Every turn but that which stores a message sends nothing.
LEMMA IoMoves ==
  ASSUME TypeInv, Resume, ~NewMessage
  PROVE  TasksTurn /\ EventsMove
<1>1. tasks # <<>>
  BY DEF Resume
<1>2. CASE Begin
  BY <1>1, <1>2, TaskFields, SuspendMoves DEF Begin, Goto, EventsMove
<1>3. CASE FindRoom
  <2>1. EventsMove
    BY <1>3 DEF FindRoom, EventsMove
  <2>2. Finish \/ \E t : SameText(t) /\ Suspend(t)
    BY <1>1, <1>3, TaskFields DEF FindRoom, Goto
  <2>3. QED
    BY <1>1, <2>1, <2>2, SuspendMoves DEF Finish, TasksTurn
<1>4. CASE FindChat
  <2>1. Finish \/ \E t : SameText(t) /\ Suspend(t)
    BY <1>1, <1>4, TaskFields DEF FindChat
  <2>2. TasksTurn
    BY <1>1, <2>1, SuspendMoves DEF Finish, TasksTurn
  <2>3. ASSUME events' = events
        PROVE  EventsMove
    BY <2>3 DEF EventsMove
  <2>4. ASSUME /\ task.op = "leave" /\ HasChat(store, task.chat)
               /\ events' = Append(events,
                    [type |-> "leave", chat |-> task.chat,
                     room |-> GetChatById(store, task.chat).room])
        PROVE  EventsMove
    <3>1. PICK room \in Rooms : room = GetChatById(store, task.chat).room
      BY <2>4, ChatOf, StoreTypes DEF TypeInv
    <3>2. PICK e : e = [type |-> "leave", chat |-> task.chat, room |-> room]
      OBVIOUS
    <3>3. task \in LeaveTasks
      BY <1>1, <2>4, TaskTypes
    <3>4. e \in WrittenEvents(author') /\ e.type # "send"
      BY <3>2, <3>3 DEF LeaveTasks, Leaves, Events, WrittenEvents
    <3>5. events' = Append(events, e)
      BY <2>4, <3>1, <3>2
    <3>6. QED
      BY <3>4, <3>5 DEF EventsMove
  <2>5. EventsMove
    BY <1>4, <2>3, <2>4 DEF FindChat
  <2>6. QED
    BY <2>2, <2>5
<1>5. CASE ReadRelations
  BY <1>1, <1>5, ResolvedMoves, TaskFields, SuspendMoves
     DEF ReadRelations, EventsMove
<1>6. CASE LookUpMember
  <2>1. EventsMove
    BY <1>6 DEF LookUpMember, EventsMove
  <2>2. (\E members : Resolved(members)) \/ \E t : SameText(t) /\ Suspend(t)
    BY <1>1, <1>6, TaskFields DEF LookUpMember
  <2>3. QED
    BY <1>1, <2>1, <2>2, ResolvedMoves, SuspendMoves
<1>7. CASE NewChat
  BY <1>1, <1>7, TaskFields, SuspendMoves DEF NewChat, EventsMove
<1>8. CASE NewMember
  <2>1. EventsMove
    BY <1>8 DEF NewMember, EventsMove
  <2>2. SameText([op |-> "joined", at |-> "relation", room |-> task.room,
                  chat |-> task.chat, member |-> nextId])
    BY DEF SameText
  <2>3. \E t : SameText(t) /\ Suspend(t)
    BY <1>1, <1>8, <2>2, TaskFields DEF NewMember
  <2>4. QED
    BY <1>1, <2>1, <2>3, SuspendMoves
<1>9. CASE NewRelation
  <2>1. EventsMove
    BY <1>9 DEF NewRelation, EventsMove
  <2>2. Finish \/ \E t : SameText(t) /\ Suspend(t)
    BY <1>1, <1>9, TaskFields DEF NewRelation, Goto
  <2>3. QED
    BY <1>1, <2>1, <2>2, SuspendMoves DEF Finish, TasksTurn
<1>10. CASE DropChat
  BY <1>1, <1>10 DEF DropChat, Finish, TasksTurn, EventsMove
<1>11. QED
  BY <1>2, <1>3, <1>4, <1>5, <1>6, <1>7, <1>8, <1>9, <1>10 DEF Resume

(***************************************************************************)
(* A message that is stored: its text is an event from now on.             *)
(***************************************************************************)
LEMMA NewMessageSend ==
  ASSUME TypeInv, SendInv, Resume, NewMessage, MessagesKept
  PROVE  SendInv'
<1>1. /\ tasks # <<>> /\ Ends /\ tasks \in Seq(ShapedTasks)
      /\ events \in Seq(Events) /\ task = Head(tasks)
      /\ UNCHANGED <<wire, queued, author>>
  BY NewMessageIs, WorldTypes DEF Resume, task
<1>2. CASE task.op # "send" \/ ~MayAddMessage(store, Message)
  BY <1>1, <1>2, Quiet DEF NewMessage, TasksMove, TasksTurn,
     EventsMove, AuthorsMove, Ends
<1>3. CASE task.op = "send" /\ MayAddMessage(store, Message)
  <2>1. PICK n : n = task.text
    OBVIOUS
  <2>2. PICK e : e = [type |-> "send", text |-> n, room |-> task.room]
    OBVIOUS
  <2>3. events' = Append(events, e) /\ e.type = "send" /\ e.text = n
    BY <1>3, <2>1, <2>2 DEF NewMessage
  <2>4. e \in Events
    <3>1. task \in SendTasks /\ TaskShape(task) /\ task.at = "message"
      BY <1>1, <1>3, TaskTypes, NewMessageIs
    <3>2. task.room \in Rooms /\ task.text \in Nat
      BY <1>3, <3>1 DEF TaskShape, SendTasks
    <3>3. QED
      BY <2>1, <2>2, <3>2 DEF Sends, Events
  <2>5. /\ TaskTexts(tasks') \subseteq TaskTexts(tasks) /\ OnceAsTask(tasks')
        /\ n \in TaskTexts(tasks) /\ n \notin TaskTexts(tasks')
    BY <1>1, <1>3, <2>1, TextsOfTail DEF SendInv, Ends
  <2>6. /\ n \in DOMAIN author /\ n \notin EventTexts(events)
        /\ ~OnWire(n) /\ ~InQueue(n)
    BY <2>5 DEF SendInv
  <2>7. /\ EventTexts(events') = EventTexts(events) \cup {n}
        /\ OnceAsEvent(events')
    BY <1>1, <2>3, <2>4, <2>6, EventsOfAppend DEF SendInv
  <2>8. IsStored(n)'
    <3>1. PICK row : row = Message
      OBVIOUS
    <3>2. row.text = n /\ row.direction = "outgoing"
      BY <1>3, <2>1, <3>1 DEF Message
    <3>3. Added(store.messages, store'.messages, row)
      BY <1>1, <1>3, <3>1, NewMessageIs
    <3>4. PICK j \in DOMAIN store'.messages : store'.messages[j] = row
      BY <3>3 DEF Added
    <3>5. QED
      BY <3>2, <3>4 DEF IsStored, Outgoings, Incomings
  <2>9. \A k : IsStored(k) => IsStored(k)'
    BY StoredStays
  <2>10. \A k : (OnWire(k)' <=> OnWire(k)) /\ (InQueue(k)' <=> InQueue(k))
    BY <1>1 DEF OnWire, InQueue
  <2>11. \A k \in TaskTexts(tasks') :
           /\ k \in DOMAIN author' /\ k \notin EventTexts(events')
           /\ ~OnWire(k)' /\ ~InQueue(k)'
    BY <1>1, <2>5, <2>7, <2>10 DEF SendInv
  <2>12. \A k \in EventTexts(events') :
           k \in DOMAIN author' /\ IsStored(k)' /\ ~OnWire(k)' /\ ~InQueue(k)'
    BY <1>1, <2>6, <2>7, <2>8, <2>9, <2>10 DEF SendInv
  <2>13. \A k : OnWire(k)' \/ InQueue(k)' => k \in DOMAIN author' /\ IsStored(k)'
    BY <1>1, <2>9, <2>10 DEF SendInv
  <2>14. /\ \A x \in Rooms \cup Peers : NoRepeats(wire'[x])
         /\ \A p \in Peers :
              /\ NoRepeats(queued'[p])
              /\ \A i \in DOMAIN wire'[p] : \A j \in DOMAIN queued'[p] :
                   wire'[p][i] # queued'[p][j]
    BY <1>1 DEF SendInv
  <2>15. QED
    BY <2>5, <2>7, <2>11, <2>12, <2>13, <2>14 DEF SendInv
<1>4. QED
  BY <1>2, <1>3

(***************************************************************************)
(* A new text, and texts that are handed over.                             *)
(***************************************************************************)
LEMMA SendMessageSend ==
  ASSUME TypeInv, SendInv, NEW chat \in Nat, SendMessage(chat), MessagesKept
  PROVE  SendInv'
<1>1. PICK n : n = NextText
  OBVIOUS
<1>2. PICK t : t = SendTask(chat, n)
  OBVIOUS
<1>3. /\ author' = Append(author, Me) /\ tasks' = Append(tasks, t)
      /\ UNCHANGED <<store, events, queued, wire>>
  BY <1>1, <1>2 DEF SendMessage, Spawn, SendTask
<1>4. t.op = "send" /\ t.text = n
  BY <1>2 DEF SendTask
<1>5. n \in Nat /\ n \notin DOMAIN author /\ n \in DOMAIN author'
      /\ DOMAIN author \subseteq DOMAIN author'
  <2>1. author \in Seq(Peers \cup {Me}) /\ Me \in Peers \cup {Me}
    BY WorldTypes
  <2>2. QED
    BY <1>1, <1>3, <2>1, AppendIs DEF NextText
<1>6. t \in ShapedTasks
  BY <1>2, <1>5, Spawned
<1>7. n \notin TaskTexts(tasks) /\ n \notin EventTexts(events)
      /\ ~OnWire(n) /\ ~InQueue(n)
  BY <1>5 DEF SendInv
<1>8. /\ TaskTexts(tasks') = TaskTexts(tasks) \cup {n}
      /\ OnceAsTask(tasks')
  BY <1>3, <1>4, <1>6, <1>7, TextsOfAppend, WorldTypes DEF SendInv
<1>9. \A k : IsStored(k) => IsStored(k)'
  BY StoredStays
<1>10. \A k : (OnWire(k)' <=> OnWire(k)) /\ (InQueue(k)' <=> InQueue(k))
  BY <1>3 DEF OnWire, InQueue
<1>11. \A k \in TaskTexts(tasks') :
         /\ k \in DOMAIN author' /\ k \notin EventTexts(events')
         /\ ~OnWire(k)' /\ ~InQueue(k)'
  BY <1>3, <1>5, <1>7, <1>8, <1>10 DEF SendInv
<1>12. \A k \in EventTexts(events') :
         k \in DOMAIN author' /\ IsStored(k)' /\ ~OnWire(k)' /\ ~InQueue(k)'
  BY <1>3, <1>5, <1>9, <1>10 DEF SendInv
<1>13. \A k : OnWire(k)' \/ InQueue(k)' => k \in DOMAIN author' /\ IsStored(k)'
  BY <1>5, <1>9, <1>10 DEF SendInv
<1>14. /\ \A x \in Rooms \cup Peers : NoRepeats(wire'[x])
       /\ \A p \in Peers :
            /\ NoRepeats(queued'[p])
            /\ \A i \in DOMAIN wire'[p] : \A j \in DOMAIN queued'[p] :
                 wire'[p][i] # queued'[p][j]
  BY <1>3 DEF SendInv
<1>15. OnceAsEvent(events')
  BY <1>3 DEF SendInv
<1>16. QED
  BY <1>8, <1>11, <1>12, <1>13, <1>14, <1>15 DEF SendInv

\* A text that is not there may be put to the end.
LEMMA OneMore ==
  ASSUME NEW s \in Seq(Nat), NEW n \in Nat, NoRepeats(s),
         \A i \in DOMAIN s : s[i] # n
  PROVE  /\ NoRepeats(Append(s, n))
         /\ \A i \in DOMAIN Append(s, n) :
              Append(s, n)[i] = n \/ \E k \in DOMAIN s : s[k] = Append(s, n)[i]
<1> DEFINE t == Append(s, n)
<1>1. /\ DOMAIN t = DOMAIN s \cup {Len(s) + 1}
      /\ \A i \in DOMAIN s : t[i] = s[i]
      /\ t[Len(s) + 1] = n
  BY AppendIs
<1> HIDE DEF t
<1>2. NoRepeats(t)
  BY <1>1 DEF NoRepeats
<1>3. \A i \in DOMAIN t : t[i] = n \/ \E k \in DOMAIN s : s[k] = t[i]
  BY <1>1
<1>4. QED
  BY <1>2, <1>3 DEF t

\* The text of the event at the head goes to the ends of some channels and to
\* the ends of some other queues.
LEMMA HandedOver ==
  ASSUME TypeInv, SendInv, MessagesKept, events # <<>>, events' = Tail(events),
         NEW n, Head(events).type = "send", Head(events).text = n,
         UNCHANGED <<tasks, author>>,
         \A x \in Rooms \cup Peers :
           wire'[x] = wire[x] \/ wire'[x] = Append(wire[x], n),
         \A p \in Peers :
           queued'[p] = queued[p] \/ queued'[p] = Append(queued[p], n),
         \A p \in Peers : wire'[p] = wire[p] \/ queued'[p] = queued[p]
  PROVE  SendInv'
<1>1. /\ events \in Seq(Events) /\ \A x \in Rooms \cup Peers : wire[x] \in Seq(Nat)
      /\ \A p \in Peers : queued[p] \in Seq(Nat)
  BY WorldTypes
<1>2. /\ EventTexts(events') \subseteq EventTexts(events)
      /\ OnceAsEvent(events')
      /\ n \in EventTexts(events) /\ n \notin EventTexts(events')
  BY <1>1, EventsOfTail DEF SendInv
<1>3. n \in DOMAIN author /\ IsStored(n) /\ ~OnWire(n) /\ ~InQueue(n)
      /\ n \notin TaskTexts(tasks)
  BY <1>2 DEF SendInv
<1>4. n \in Nat
  BY <1>3, WorldTypes
<1>5. \A x \in Rooms \cup Peers : \A i \in DOMAIN wire[x] : wire[x][i] # n
  BY <1>3 DEF OnWire
<1>6. \A p \in Peers : \A i \in DOMAIN queued[p] : queued[p][i] # n
  BY <1>3 DEF InQueue
<1>7. ASSUME NEW x \in Rooms \cup Peers
      PROVE  /\ NoRepeats(wire'[x])
             /\ \A i \in DOMAIN wire'[x] :
                  wire'[x][i] = n \/ \E k \in DOMAIN wire[x] : wire[x][k] = wire'[x][i]
  <2>1. NoRepeats(wire[x]) /\ wire[x] \in Seq(Nat)
    BY <1>1 DEF SendInv
  <2>2. CASE wire'[x] = wire[x]
    BY <2>1, <2>2
  <2>3. CASE wire'[x] = Append(wire[x], n)
    BY <1>4, <1>5, <2>1, <2>3, OneMore
  <2>4. QED
    BY <2>2, <2>3
<1>8. ASSUME NEW p \in Peers
      PROVE  /\ NoRepeats(queued'[p])
             /\ \A i \in DOMAIN queued'[p] :
                  \/ queued'[p][i] = n
                  \/ \E k \in DOMAIN queued[p] : queued[p][k] = queued'[p][i]
  <2>1. NoRepeats(queued[p]) /\ queued[p] \in Seq(Nat)
    BY <1>1 DEF SendInv
  <2>2. CASE queued'[p] = queued[p]
    BY <2>1, <2>2
  <2>3. CASE queued'[p] = Append(queued[p], n)
    BY <1>4, <1>6, <2>1, <2>3, OneMore
  <2>4. QED
    BY <2>2, <2>3
<1>9. ASSUME NEW p \in Peers
      PROVE  \A i \in DOMAIN wire'[p] : \A j \in DOMAIN queued'[p] :
               wire'[p][i] # queued'[p][j]
  <2>1. \A i \in DOMAIN wire[p] : \A j \in DOMAIN queued[p] :
          wire[p][i] # queued[p][j]
    BY DEF SendInv
  <2>2. CASE wire'[p] = wire[p]
    BY <1>5, <1>8, <2>1, <2>2
  <2>3. CASE queued'[p] = queued[p]
    BY <1>6, <1>7, <2>1, <2>3
  <2>4. QED
    BY <2>2, <2>3
<1>10. \A k : OnWire(k)' => OnWire(k) \/ k = n
  BY <1>7 DEF OnWire
<1>11. \A k : InQueue(k)' => InQueue(k) \/ k = n
  BY <1>8 DEF InQueue
<1>12. \A k : IsStored(k) => IsStored(k)'
  BY StoredStays
<1>13. \A k \in TaskTexts(tasks') :
         /\ k \in DOMAIN author' /\ k \notin EventTexts(events')
         /\ ~OnWire(k)' /\ ~InQueue(k)'
  <2>1. tasks' = tasks /\ author' = author
    OBVIOUS
  <2>2. ASSUME NEW k \in TaskTexts(tasks)
        PROVE  /\ k \in DOMAIN author /\ k \notin EventTexts(events')
               /\ ~OnWire(k)' /\ ~InQueue(k)'
    <3>1. /\ k \in DOMAIN author /\ k \notin EventTexts(events)
          /\ ~OnWire(k) /\ ~InQueue(k) /\ k # n
      BY <1>3 DEF SendInv
    <3>2. QED
      BY <1>2, <1>10, <1>11, <3>1
  <2>3. QED
    BY <2>1, <2>2
<1>14. \A k \in EventTexts(events') :
         k \in DOMAIN author' /\ IsStored(k)' /\ ~OnWire(k)' /\ ~InQueue(k)'
  <2>1. ASSUME NEW k \in EventTexts(events')
        PROVE  k \in DOMAIN author' /\ IsStored(k)' /\ ~OnWire(k)' /\ ~InQueue(k)'
    <3>1. k # n /\ k \in DOMAIN author /\ IsStored(k) /\ ~OnWire(k) /\ ~InQueue(k)
      BY <1>2 DEF SendInv
    <3>2. QED
      BY <1>10, <1>11, <1>12, <3>1
  <2>2. QED
    BY <2>1
<1>15. \A k : OnWire(k)' \/ InQueue(k)' => k \in DOMAIN author' /\ IsStored(k)'
  <2>1. ASSUME NEW k, OnWire(k)' \/ InQueue(k)'
        PROVE  k \in DOMAIN author' /\ IsStored(k)'
    <3>1. OnWire(k) \/ InQueue(k) \/ k = n
      BY <1>10, <1>11, <2>1
    <3>2. k \in DOMAIN author /\ IsStored(k)
      BY <1>3, <3>1 DEF SendInv
    <3>3. QED
      BY <1>12, <3>2
  <2>2. QED
    BY <2>1
<1>16. OnceAsTask(tasks')
  BY DEF SendInv
<1>17. QED
  BY <1>2, <1>7, <1>8, <1>9, <1>13, <1>14, <1>15, <1>16 DEF SendInv

\* Two queues with no text in common repeat none together.
LEMMA Joined ==
  ASSUME NEW s \in Seq(Nat), NEW t \in Seq(Nat), NoRepeats(s), NoRepeats(t),
         \A i \in DOMAIN s : \A j \in DOMAIN t : s[i] # t[j]
  PROVE  /\ NoRepeats(s \o t)
         /\ \A i \in DOMAIN (s \o t) :
              \/ \E k \in DOMAIN s : s[k] = (s \o t)[i]
              \/ \E k \in DOMAIN t : t[k] = (s \o t)[i]
<1> DEFINE u == s \o t
<1>1. /\ Len(s) \in Nat /\ Len(t) \in Nat
      /\ DOMAIN s = 1..Len(s) /\ DOMAIN t = 1..Len(t)
      /\ DOMAIN u = 1..(Len(s) + Len(t))
      /\ \A i \in DOMAIN s : u[i] = s[i]
      /\ \A i \in DOMAIN t : u[Len(s) + i] = t[i]
  BY ConcatIs
<1> HIDE DEF u
<1>2. ASSUME NEW i \in DOMAIN u, i \notin DOMAIN s
      PROVE  i - Len(s) \in DOMAIN t /\ u[i] = t[i - Len(s)]
  <2>1. i - Len(s) \in DOMAIN t /\ i = Len(s) + (i - Len(s))
    BY <1>1, <1>2
  <2>2. QED
    BY <1>1, <2>1
<1>3. ASSUME NEW i \in DOMAIN u, NEW j \in DOMAIN u, i # j
      PROVE  u[i] # u[j]
  <2>1. CASE i \in DOMAIN s /\ j \in DOMAIN s
    BY <1>1, <1>3, <2>1 DEF NoRepeats
  <2>2. CASE i \notin DOMAIN s /\ j \notin DOMAIN s
    <3>1. i - Len(s) # j - Len(s)
      BY <1>1, <1>3
    <3>2. QED
      BY <1>2, <2>2, <3>1 DEF NoRepeats
  <2>3. CASE i \in DOMAIN s /\ j \notin DOMAIN s
    BY <1>1, <1>2, <2>3
  <2>4. CASE i \notin DOMAIN s /\ j \in DOMAIN s
    BY <1>1, <1>2, <2>4
  <2>5. QED
    BY <2>1, <2>2, <2>3, <2>4
<1>4. \A i \in DOMAIN u : \/ \E k \in DOMAIN s : s[k] = u[i]
                          \/ \E k \in DOMAIN t : t[k] = u[i]
  BY <1>1, <1>2
<1>5. QED
  BY <1>3, <1>4 DEF u, NoRepeats

\* The texts of the queue of a peer go to its channel at once.
LEMMA FlushSend ==
  ASSUME TypeInv, SendInv, MessagesKept, events # <<>>, events' = Tail(events),
         NEW p \in Peers, UNCHANGED <<tasks, author>>,
         wire' = [wire EXCEPT ![p] = wire[p] \o queued[p]],
         queued' = [queued EXCEPT ![p] = <<>>]
  PROVE  SendInv'
<1>1. /\ events \in Seq(Events) /\ wire[p] \in Seq(Nat) /\ queued[p] \in Seq(Nat)
      /\ wire \in [Rooms \cup Peers -> Seq(Nat)]
      /\ queued \in [Peers -> Seq(Nat)]
  BY WorldTypes
<1>2. /\ EventTexts(events') \subseteq EventTexts(events)
      /\ OnceAsEvent(events')
  BY <1>1, EventsOfTail DEF SendInv
<1>3. /\ wire'[p] = wire[p] \o queued[p] /\ queued'[p] = <<>>
      /\ \A x \in Rooms \cup Peers : x # p => wire'[x] = wire[x]
      /\ \A q \in Peers : q # p => queued'[q] = queued[q]
  BY <1>1
<1>4. /\ NoRepeats(wire'[p])
      /\ \A i \in DOMAIN wire'[p] :
           \/ \E k \in DOMAIN wire[p] : wire[p][k] = wire'[p][i]
           \/ \E k \in DOMAIN queued[p] : queued[p][k] = wire'[p][i]
  <2>1. /\ NoRepeats(wire[p]) /\ NoRepeats(queued[p])
        /\ \A i \in DOMAIN wire[p] : \A j \in DOMAIN queued[p] :
             wire[p][i] # queued[p][j]
    BY DEF SendInv
  <2>2. PICK s \in Seq(Nat) : s = wire[p]
    BY <1>1
  <2>3. PICK t \in Seq(Nat) : t = queued[p]
    BY <1>1
  <2>4. /\ NoRepeats(s) /\ NoRepeats(t)
        /\ \A i \in DOMAIN s : \A j \in DOMAIN t : s[i] # t[j]
    BY <2>1, <2>2, <2>3
  <2>5. /\ NoRepeats(s \o t)
        /\ \A i \in DOMAIN (s \o t) :
             \/ \E k \in DOMAIN s : s[k] = (s \o t)[i]
             \/ \E k \in DOMAIN t : t[k] = (s \o t)[i]
    BY <2>4, Joined
  <2>6. PICK u : u = s \o t
    OBVIOUS
  <2>7. wire'[p] = u
    BY <1>3, <2>2, <2>3, <2>6
  <2>8. /\ NoRepeats(u)
        /\ \A i \in DOMAIN u : \/ \E k \in DOMAIN s : s[k] = u[i]
                              \/ \E k \in DOMAIN t : t[k] = u[i]
    BY <2>5, <2>6
  <2>9. NoRepeats(wire'[p])
    BY <2>7, <2>8
  <2>10. \A i \in DOMAIN wire'[p] :
           \/ \E k \in DOMAIN wire[p] : wire[p][k] = wire'[p][i]
           \/ \E k \in DOMAIN queued[p] : queued[p][k] = wire'[p][i]
    BY <2>2, <2>3, <2>7, <2>8
  <2>11. QED
    BY <2>9, <2>10
<1>5. \A k : OnWire(k)' => OnWire(k) \/ InQueue(k)
  <2>1. ASSUME NEW k, NEW x \in Rooms \cup Peers, NEW i \in DOMAIN wire'[x],
               wire'[x][i] = k
        PROVE  OnWire(k) \/ InQueue(k)
    <3>1. CASE x = p
      BY <1>4, <2>1, <3>1 DEF OnWire, InQueue
    <3>2. CASE x # p
      BY <1>3, <2>1, <3>2 DEF OnWire
    <3>3. QED
      BY <3>1, <3>2
  <2>2. QED
    BY <2>1 DEF OnWire
<1>6. \A k : InQueue(k)' => InQueue(k)
  BY <1>3, EmptyIs DEF InQueue
<1>7. \A k : IsStored(k) => IsStored(k)'
  BY StoredStays
<1>8. \A k \in TaskTexts(tasks') :
         /\ k \in DOMAIN author' /\ k \notin EventTexts(events')
         /\ ~OnWire(k)' /\ ~InQueue(k)'
  <2>1. tasks' = tasks /\ author' = author
    OBVIOUS
  <2>2. QED
    BY <1>2, <1>5, <1>6, <2>1 DEF SendInv
<1>9. \A k \in EventTexts(events') :
         k \in DOMAIN author' /\ IsStored(k)' /\ ~OnWire(k)' /\ ~InQueue(k)'
  BY <1>2, <1>5, <1>6, <1>7 DEF SendInv
<1>10. \A k : OnWire(k)' \/ InQueue(k)' => k \in DOMAIN author' /\ IsStored(k)'
  BY <1>5, <1>6, <1>7 DEF SendInv
<1>11. ASSUME NEW x \in Rooms \cup Peers
       PROVE  NoRepeats(wire'[x])
  BY <1>3, <1>4 DEF SendInv
<1>12. ASSUME NEW q \in Peers
       PROVE  /\ NoRepeats(queued'[q])
              /\ \A i \in DOMAIN wire'[q] : \A j \in DOMAIN queued'[q] :
                   wire'[q][i] # queued'[q][j]
  <2>1. CASE q = p
    BY <1>3, <2>1, EmptyIs DEF NoRepeats
  <2>2. CASE q # p
    <3>1. queued'[q] = queued[q] /\ wire'[q] = wire[q]
      BY <1>3, <2>2
    <3>2. /\ NoRepeats(queued[q])
          /\ \A i \in DOMAIN wire[q] : \A j \in DOMAIN queued[q] :
               wire[q][i] # queued[q][j]
      BY DEF SendInv
    <3>3. QED
      BY ZenonT(30), <3>1, <3>2
  <2>3. QED
    BY <2>1, <2>2
<1>13. OnceAsTask(tasks')
  BY DEF SendInv
<1>14. QED
  BY <1>2, <1>8, <1>9, <1>10, <1>11, <1>12, <1>13 DEF SendInv

(***************************************************************************)
(* The rest of the steps.                                                  *)
(***************************************************************************)
LEMMA SpawnedOps ==
  /\ \A chat : LeaveTask(chat).op = "leave" /\ RemoveTask(chat).op = "remove"
  /\ \A r : JoinedTask(r).op = "joined"
  /\ \A r, from, n : Incoming(r, from, n).op = "incoming"
BY DEF LeaveTask, RemoveTask, JoinedTask, Incoming

\* What the user does keeps the invariant.
LEMMA UserSend ==
  ASSUME TypeInv, SendInv, UserActs, MessagesKept
  PROVE  SendInv'
<1>1. \A i \in DOMAIN store.chats : store.chats[i].id \in Nat
  BY StoreTypes DEF TypeInv
<1>2. ASSUME NEW r \in Rooms, RequestChat(r)
      PROVE  SendInv'
  BY <1>2, Quiet DEF RequestChat, TasksMove, EventsMove, AuthorsMove
<1>3. ASSUME NEW chat \in Nat, RemoveCurrentChat(chat)
      PROVE  SendInv'
  <2>1. tasks' = Append(tasks, LeaveTask(chat))
        /\ UNCHANGED <<events, wire, queued, author>>
    BY <1>3 DEF RemoveCurrentChat, Spawn, LeaveTask
  <2>2. TasksMove
    BY <2>1, Spawned, SpawnedOps DEF TasksMove
  <2>3. QED
    BY <2>1, <2>2, Quiet DEF EventsMove, AuthorsMove
<1>4. QED
  BY <1>1, <1>2, <1>3, SendMessageSend DEF UserActs, CreateNewChat, JoinChatById

\* A message that is read keeps the invariant.
LEMMA OnMessageSend ==
  ASSUME TypeInv, SendInv, OnMessage, MessagesKept
  PROVE  SendInv'
<1>1. PICK m : m = Head(inbox)
  OBVIOUS
<1>2. /\ inbox # <<>>
      /\ \/ m.type = "joined" /\ OnJoined(m)
         \/ m.type = "peer joined" /\ OnPeerJoined(m)
         \/ m.type = "peer left" /\ OnPeerLeft(m)
         \/ m.type = "group" /\ OnGroupMessage(m)
         \/ m.type = "buffered" /\ OnBufferedMessages(m)
         \/ m.type = "error" /\ OnErrorReceived
      /\ UNCHANGED <<events, author, wire>>
  BY <1>1 DEF OnMessage
<1>3. queued' = queued
  BY <1>2 DEF OnJoined, OnPeerJoined, OnPeerLeft, OnGroupMessage,
     OnBufferedMessages, OnErrorReceived
<1>4. TasksMove
  <2>1. ASSUME m.type = "joined", OnJoined(m)
        PROVE  TasksMove
    <3>1. m.room \in Rooms
      BY <1>1, <1>2, <2>1, MessageTypes DEF JoinedMsgs
    <3>2. tasks' = tasks \/ tasks' = Append(tasks, JoinedTask(m.room))
      BY <2>1 DEF OnJoined, Spawn, JoinedTask
    <3>3. QED
      BY <3>1, <3>2, Spawned, SpawnedOps DEF TasksMove
  <2>2. ASSUME m.type = "group", OnGroupMessage(m)
        PROVE  TasksMove
    <3>1. m.room \in Rooms /\ m.from \in Origins /\ m.text \in Nat
      BY <1>1, <1>2, <2>2, MessageTypes DEF GroupMsgs
    <3>2. \/ tasks' = tasks
          \/ tasks' = Append(tasks, Incoming(m.room, m.from, m.text))
      BY <2>2 DEF OnGroupMessage, Spawn
    <3>3. QED
      BY <3>1, <3>2, Spawned, SpawnedOps DEF TasksMove
  <2>3. ASSUME m.type = "buffered", OnBufferedMessages(m)
        PROVE  TasksMove
    <3>1. m \in BufferedMsgs
      BY <1>1, <1>2, <2>3, MessageTypes
    <3>2. PICK order \in Ascending(Foreign(m)) : tasks' = tasks \o Copies(m, order)
      BY <2>3 DEF OnBufferedMessages, Foreign, Copies
    <3>3. Foreign(m) \subseteq DOMAIN m.messages
      BY DEF Foreign
    <3>4. /\ Copies(m, order) \in Seq(ShapedTasks)
          /\ \A i \in DOMAIN Copies(m, order) :
               Copies(m, order)[i].op # "send"
      BY <3>1, <3>3, CopiesAre, SpawnedOps
    <3>5. QED
      BY <3>2, <3>4 DEF TasksMove
  <2>4. ASSUME OnPeerJoined(m) \/ OnPeerLeft(m) \/ OnErrorReceived
        PROVE  TasksMove
    BY <2>4 DEF OnPeerJoined, OnPeerLeft, OnErrorReceived, TasksMove
  <2>5. QED
    BY <1>2, <2>1, <2>2, <2>3, <2>4
<1>5. QED
  BY <1>2, <1>3, <1>4, Quiet DEF EventsMove, AuthorsMove

\* An event of the Qt thread keeps the invariant.
LEMMA RunEventSend ==
  ASSUME TypeInv, SendInv, RunEvent, MessagesKept
  PROVE  SendInv'
<1>1. PICK e : e = Head(events)
  OBVIOUS
<1>2. /\ events # <<>> /\ events' = Tail(events)
      /\ \/ e.type = "send" /\ SendDirect(e)
         \/ e.type = "send" /\ SendToGroup(e)
         \/ e.type = "leave" /\ Leave(e)
         \/ e.type = "opened" /\ FlushPendingDirectMessages(e)
         \/ e.type = "direct" /\ OnDirectMessage(e)
      /\ author' = author
  BY <1>1 DEF RunEvent
<1>3. CASE e.type = "send" /\ SendDirect(e)
  <2>1. PICK n : n = e.text
    OBVIOUS
  <2>2. PICK ready : ready = {p \in Present(e.room) : channel[p] = "open"}
    OBVIOUS
  <2>3. /\ wire' = [x \in DOMAIN wire |-> IF x \in ready THEN Append(wire[x], n)
                                          ELSE wire[x]]
        /\ queued' = [p \in Peers |-> IF p \in Present(e.room) \ ready
                                      THEN Append(queued[p], n) ELSE queued[p]]
        /\ tasks' = tasks
    BY <1>3, <2>1, <2>2 DEF SendDirect
  <2>4. /\ \A x \in Rooms \cup Peers :
             wire'[x] = wire[x] \/ wire'[x] = Append(wire[x], n)
        /\ \A p \in Peers :
             queued'[p] = queued[p] \/ queued'[p] = Append(queued[p], n)
        /\ \A p \in Peers : wire'[p] = wire[p] \/ queued'[p] = queued[p]
    BY <2>3, WorldTypes
  <2>5. /\ events # <<>> /\ events' = Tail(events) /\ Head(events).type = "send"
        /\ Head(events).text = n /\ UNCHANGED <<tasks, author>>
    BY <1>1, <1>2, <1>3, <2>1, <2>3
  <2>6. QED
    BY <2>4, <2>5, HandedOver
<1>4. CASE e.type = "send" /\ SendToGroup(e)
  <2>1. PICK n : n = e.text
    OBVIOUS
  <2>2. /\ wire' = wire \/ wire' = [wire EXCEPT ![e.room] = Append(wire[e.room], n)]
        /\ queued' = queued /\ tasks' = tasks
    BY <1>4, <2>1 DEF SendToGroup
  <2>3. /\ \A x \in Rooms \cup Peers :
             wire'[x] = wire[x] \/ wire'[x] = Append(wire[x], n)
        /\ \A p \in Peers :
             queued'[p] = queued[p] \/ queued'[p] = Append(queued[p], n)
        /\ \A p \in Peers : wire'[p] = wire[p] \/ queued'[p] = queued[p]
    BY <2>2, WorldTypes
  <2>4. QED
    BY <1>1, <1>2, <1>4, <2>1, <2>2, <2>3, HandedOver
<1>5. CASE e.type = "leave" /\ Leave(e)
  <2>1. e.chat \in Nat
    BY <1>1, <1>2, <1>5, EventTypes DEF Leaves
  <2>2. tasks' = Append(tasks, RemoveTask(e.chat)) /\ UNCHANGED <<wire, queued>>
    BY <1>5 DEF Leave, Spawn, RemoveTask
  <2>3. TasksMove
    BY <2>1, <2>2, Spawned, SpawnedOps DEF TasksMove
  <2>4. QED
    BY <1>2, <2>2, <2>3, Quiet DEF EventsMove, AuthorsMove
<1>6. CASE e.type = "opened" /\ FlushPendingDirectMessages(e)
  <2>1. e.peer \in Peers
    BY <1>1, <1>2, <1>6, EventTypes DEF Openings
  <2>2. CASE channel[e.peer] = "open"
    <3>1. /\ wire' = [wire EXCEPT ![e.peer] = wire[e.peer] \o queued[e.peer]]
          /\ queued' = [queued EXCEPT ![e.peer] = <<>>]
          /\ tasks' = tasks
      BY <1>6, <2>2 DEF FlushPendingDirectMessages
    <3>2. QED
      BY <1>2, <2>1, <3>1, FlushSend
  <2>3. CASE channel[e.peer] # "open"
    BY <1>2, <1>6, <2>3, Quiet DEF FlushPendingDirectMessages, TasksMove,
       EventsMove, AuthorsMove
  <2>4. QED
    BY <2>2, <2>3
<1>7. CASE e.type = "direct" /\ OnDirectMessage(e)
  <2>1. UNCHANGED <<wire, queued>>
    BY <1>7 DEF OnDirectMessage
  <2>2. TasksMove
    <3>1. e.peer \in Peers /\ e.peer \in Origins /\ e.text \in Nat
      BY <1>1, <1>2, <1>7, EventTypes DEF Directs, Origins
    <3>2. CASE peerToRoom[e.peer] = None
      BY <1>7, <3>2 DEF OnDirectMessage, TasksMove
    <3>3. CASE peerToRoom[e.peer] # None
      <4>1. peerToRoom[e.peer] \in Rooms
        BY <3>1, <3>3, WorldTypes
      <4>2. tasks' = Append(tasks, Incoming(peerToRoom[e.peer], e.peer, e.text))
        BY <1>7, <3>3 DEF OnDirectMessage, Spawn
      <4>3. QED
        BY <3>1, <4>1, <4>2, Spawned, SpawnedOps DEF TasksMove
    <3>4. QED
      BY <3>2, <3>3
  <2>3. QED
    BY <1>2, <2>1, <2>2, Quiet DEF EventsMove, AuthorsMove
<1>8. QED
  BY <1>2, <1>3, <1>4, <1>5, <1>6, <1>7

\* What happens around the client sends nothing of the user's.
LEMMA WorldMoves ==
  ASSUME TypeInv, WorldActs
  PROVE  /\ UNCHANGED <<store, tasks, wire, queued>>
         /\ EventsMove /\ AuthorsMove
<1>1. UNCHANGED <<store, tasks, wire, queued>>
  BY DEF WorldActs, OnConnected, OnErrorOccurred, Retry, Break, NoticeBreak,
     ServerNotices, ChannelOpens, PeerWrites, PeerPosts, PeerMoves, steadyVars,
     clientSteady, clientVars
<1>2. EventsMove /\ AuthorsMove
  <2>1. CASE UNCHANGED <<events, author>>
    BY <2>1 DEF EventsMove, AuthorsMove
  <2>2. CASE \E p \in Peers : ChannelOpens(p)
    <3>1. PICK p \in Peers : ChannelOpens(p)
      BY <2>2
    <3>2. PICK e : e = [type |-> "opened", peer |-> p]
      OBVIOUS
    <3>3. events' = Append(events, e) /\ author' = author
      BY <3>1, <3>2 DEF ChannelOpens
    <3>4. e \in WrittenEvents(author') /\ e.type # "send"
      BY <3>2 DEF Openings, Events, WrittenEvents
    <3>5. QED
      BY <3>3, <3>4 DEF EventsMove, AuthorsMove
  <2>3. CASE \E p \in Peers : PeerWrites(p)
    <3>1. PICK p \in Peers : PeerWrites(p)
      BY <2>3
    <3>2. PICK e : e = [type |-> "direct", peer |-> p, text |-> NextText]
      OBVIOUS
    <3>3. events' = Append(events, e) /\ author' = Append(author, p)
      BY <3>1, <3>2 DEF PeerWrites
    <3>4. author \in Seq(Peers \cup {Me}) /\ p \in Peers \cup {Me}
      BY WorldTypes
    <3>5. /\ NextText \in Nat /\ NextText \in DOMAIN author'
          /\ author'[NextText] = p
      BY <3>3, <3>4, AppendIs DEF NextText
    <3>6. e \in WrittenEvents(author') /\ e.type # "send"
      BY <3>2, <3>5 DEF Directs, Events, WrittenEvents
    <3>7. QED
      BY <3>3, <3>6 DEF EventsMove, AuthorsMove
  <2>4. CASE \E p \in Peers : PeerPosts(p)
    BY <2>4 DEF PeerPosts, EventsMove, AuthorsMove, clientVars
  <2>5. CASE \E p \in Peers : PeerMoves(p)
    BY <2>5 DEF PeerMoves, EventsMove, AuthorsMove, clientVars
  <2>6. QED
    BY <2>1, <2>2, <2>3, <2>4, <2>5 DEF WorldActs, OnConnected, OnErrorOccurred,
       Retry, Break, NoticeBreak, ServerNotices, steadyVars, clientSteady,
       clientVars
<1>3. QED
  BY <1>1, <1>2

\* Only the io thread touches the tables.
LEMMA OnlyIo ==
  ASSUME [Next]_vars, ~Resume
  PROVE  UNCHANGED <<store, lost>>
<1>1. CASE UNCHANGED vars
  BY <1>1 DEF vars, clientVars, worldVars
<1>2. CASE UserActs
  BY <1>2 DEF UserActs, CreateNewChat, JoinChatById, RequestChat, SendMessage,
     RemoveCurrentChat
<1>3. CASE OnMessage
  BY <1>3 DEF OnMessage
<1>4. CASE RunEvent
  BY <1>4 DEF RunEvent
<1>5. CASE WorldActs
  BY <1>5 DEF WorldActs, OnConnected, OnErrorOccurred, Retry, Break,
     NoticeBreak, ServerNotices, ChannelOpens, PeerWrites, PeerPosts,
     PeerMoves, steadyVars, clientSteady, clientVars
<1>6. QED
  BY <1>1, <1>2, <1>3, <1>4, <1>5 DEF Next

\* Of the messages, a step takes none but those of the chat that is removed.
LEMMA NextKeeps ==
  ASSUME TypeInv, [Next]_vars
  PROVE  MessagesKept
<1>1. CASE store'.messages = store.messages /\ lost' = lost
  BY <1>1 DEF MessagesKept
<1>2. ASSUME Resume
      PROVE  MessagesKept
  <2>1. tasks # <<>>
    BY <1>2 DEF Resume
  <2>2. CASE DropChat
    <3>1. PICK id : id = task.chat
      OBVIOUS
    <3>2. /\ store' = RemoveChat(store, id) /\ nextId' = nextId
          /\ lost' = lost \cup {store.messages[i].text :
                                  i \in OfChat(store.messages, id)}
      BY <2>2, <3>1 DEF DropChat
    <3>3. \A j \in DOMAIN store.messages : store.messages[j].chat # id =>
            \E i \in DOMAIN store'.messages :
              store'.messages[i] = store.messages[j]
      BY <3>2, ChatRemoved
    <3>4. \A j \in DOMAIN store.messages : store.messages[j].chat = id =>
            store.messages[j].text \in lost'
      BY <3>2 DEF OfChat
    <3>5. QED
      BY <3>2, <3>3, <3>4 DEF MessagesKept
  <2>3. CASE NewMessage /\ lost' = lost
    <3>1. \/ store'.messages = store.messages
          \/ Added(store.messages, store'.messages, Message)
      BY <2>1, <2>3, NewMessageIs
    <3>2. QED
      BY <1>1, <2>3, <3>1 DEF Added, MessagesKept
  <2>4. CASE NewChat /\ lost' = lost
    BY <1>1, <2>4, StoreTypes DEF NewChat, AddChat, TypeInv
  <2>5. CASE NewMember /\ lost' = lost
    BY <1>1, <2>5, StoreTypes DEF NewMember, AddMember, TypeInv
  <2>6. CASE NewRelation /\ lost' = lost
    BY <1>1, <2>6, StoreTypes DEF NewRelation, AddMemberToChat, TypeInv
  <2>7. CASE UNCHANGED <<store, lost>>
    BY <1>1, <2>7
  <2>8. QED
    BY <1>2, <2>2, <2>3, <2>4, <2>5, <2>6, <2>7 DEF Resume, Begin, FindRoom,
       FindChat, ReadRelations, LookUpMember
<1>3. CASE ~Resume
  BY <1>1, <1>3, OnlyIo
<1>4. QED
  BY <1>2, <1>3

\* SendInv is inductive, under TypeInv.
LEMMA NextSend ==
  ASSUME TypeInv, SendInv, [Next]_vars
  PROVE  SendInv'
<1>1. MessagesKept
  BY NextKeeps
<1>2. CASE UNCHANGED vars
  BY <1>1, <1>2, Quiet DEF vars, clientVars, worldVars, TasksMove, EventsMove,
     AuthorsMove
<1>3. CASE Resume
  <2>1. CASE NewMessage
    BY <1>1, <1>3, <2>1, NewMessageSend
  <2>2. CASE ~NewMessage
    <3>1. UNCHANGED <<wire, queued, author>>
      BY <1>3 DEF Resume
    <3>2. QED
      BY <1>1, <1>3, <2>2, <3>1, IoMoves, Quiet DEF AuthorsMove, TasksMove
  <2>3. QED
    BY <2>1, <2>2
<1>4. CASE WorldActs
  BY <1>1, <1>4, WorldMoves, Quiet DEF TasksMove
<1>5. QED
  BY <1>1, <1>2, <1>3, <1>4, UserSend, OnMessageSend, RunEventSend DEF Next

\* SendInv holds at the start.
LEMMA InitSend ==
  ASSUME Init
  PROVE  SendInv
<1>1. /\ tasks = <<>> /\ events = <<>>
      /\ \A x \in Rooms \cup Peers : wire[x] = <<>>
      /\ \A p \in Peers : queued[p] = <<>>
  BY DEF Init
<1>2. /\ TaskTexts(tasks) = {} /\ OnceAsTask(tasks)
      /\ EventTexts(events) = {} /\ OnceAsEvent(events)
  BY <1>1, EmptyIs DEF TaskTexts, OnceAsTask, EventTexts, OnceAsEvent
<1>3. \A n : ~OnWire(n) /\ ~InQueue(n)
  BY <1>1, EmptyIs DEF OnWire, InQueue
<1>4. NoRepeats(<<>>)
  BY EmptyIs DEF NoRepeats
<1>5. QED
  BY <1>1, <1>2, <1>3, <1>4, EmptyIs DEF SendInv

\* Whatever the client hands to the server or to a data channel is in its
\* database first, and is lost from it only with a chat that the user removes;
\* and the client hands it over once (ClientBridge.cpp:566): however the
\* coroutines interleave and connections are lost.
THEOREM SentFromTheDatabase == Spec => []SentIsStored
<1>1. Init => TypeInv /\ SendInv
  BY InitTypes, InitSend
<1>2. TypeInv /\ SendInv /\ [Next]_vars => (TypeInv /\ SendInv)'
  BY NextTypes, NextSend
<1>3. TypeInv /\ SendInv => SentIsStored
  <2> SUFFICES ASSUME TypeInv, SendInv, NEW x \in DOMAIN wire
               PROVE  /\ \A i \in DOMAIN wire[x] : IsStored(wire[x][i])
                      /\ NoRepeats(wire[x])
    BY DEF SentIsStored, IsStored
  <2>1. x \in Rooms \cup Peers
    BY WorldTypes
  <2>2. ASSUME NEW i \in DOMAIN wire[x]
        PROVE  IsStored(wire[x][i])
    <3>1. OnWire(wire[x][i])
      BY <2>1 DEF OnWire
    <3>2. QED
      BY <3>1 DEF SendInv
  <2>3. QED
    BY <2>1, <2>2 DEF SendInv
<1>4. QED
  BY <1>1, <1>2, <1>3, PTL DEF Spec

-----------------------------------------------------------------------------
(* What is stored is stored under its writer: as the server has it.        *)

\* What a step leaves: a room keeps the user's id unless the client forgets
\* one, and the client's id is lost only then.
Extends(au, au2) ==
  DOMAIN au \subseteq DOMAIN au2 /\ \A n \in DOMAIN au : au2[n] = au[n]
Stays(rs, rs2, r) ==
  /\ rs[r].removed => rs2[r].removed
  /\ rs2[r].removed \/ rs[r].mine = None \/ rs2[r].mine = rs[r].mine
Moves(rs, rs2, mp, mp2, au, au2) ==
  /\ \A r \in Rooms :
       /\ Stays(rs, rs2, r)
       /\ mp2[r] = mp[r] \/ rs2[r].removed \/ mp2[r] = rs2[r].mine
  /\ Extends(au, au2)

\* A text stays signed.
LEMMA SignedStays ==
  ASSUME NEW rs, NEW rs2, NEW au, NEW au2, NEW r, Stays(rs, rs2, r),
         Extends(au, au2), NEW from, NEW n, Signed(rs, au, r, from, n)
  PROVE  Signed(rs2, au2, r, from, n)
BY DEF Stays, Extends, Signed

\* What the client knows, or will, it knows after the step.
LEMMA KnowsStays ==
  ASSUME NEW rs, NEW rs2, NEW mp, NEW mp2, NEW au, NEW au2,
         Moves(rs, rs2, mp, mp2, au, au2), NEW q, NEW r \in Rooms, NEW i,
         KnowsId(rs, mp, q, r, i)
  PROVE  KnowsId(rs2, mp2, q, r, i)
BY DEF Moves, Stays, KnowsId

\* What is said of an inbox stays true.
LEMMA QueueStays ==
  ASSUME NEW rs, NEW rs2, NEW mp, NEW mp2, NEW au, NEW au2,
         Moves(rs, rs2, mp, mp2, au, au2), NEW q \in Seq(Msgs),
         QueueInv(rs, mp, au, q)
  PROVE  QueueInv(rs2, mp2, au2, q)
<1> SUFFICES ASSUME NEW i \in DOMAIN q
             PROVE  /\ MessageInv(rs2, au2, q[i])
                    /\ q[i].type \in {"group", "buffered"} =>
                         KnowsId(rs2, mp2, q, q[i].room, i)
  BY DEF QueueInv
<1>1. PICK m \in Msgs : m = q[i]
  OBVIOUS
<1>2. /\ MessageInv(rs, au, m)
      /\ m.type \in {"group", "buffered"} => KnowsId(rs, mp, q, m.room, i)
  BY <1>1 DEF QueueInv
<1>3. m.type \in {"joined", "group", "buffered"} => m.room \in Rooms
  BY DEF Msgs, JoinedMsgs, PeerMsgs, GroupMsgs, BufferedMsgs, ErrorMsgs
<1>4. m.type = "joined" => m.me # None
  BY BridgeBounds DEF Msgs, JoinedMsgs, PeerMsgs, GroupMsgs, BufferedMsgs, ErrorMsgs
<1>5. MessageInv(rs2, au2, m)
  <2>1. ASSUME m.type = "joined"
        PROVE  rs2[m.room].removed \/ rs2[m.room].mine = m.me
    BY <1>2, <1>3, <1>4, <2>1 DEF Moves, Stays, MessageInv
  <2>2. ASSUME m.type = "group"
        PROVE  Signed(rs2, au2, m.room, m.from, m.text)
    BY <1>2, <1>3, <2>2, SignedStays DEF Moves, MessageInv
  <2>3. ASSUME m.type = "buffered", NEW k \in DOMAIN m.messages
        PROVE  Signed(rs2, au2, m.room, m.messages[k].from, m.messages[k].text)
    BY <1>2, <1>3, <2>3, SignedStays DEF Moves, MessageInv
  <2>4. QED
    BY <2>1, <2>2, <2>3 DEF MessageInv
<1>6. m.type \in {"group", "buffered"} => KnowsId(rs2, mp2, q, m.room, i)
  BY <1>2, <1>3, KnowsStays
<1>7. QED
  BY <1>1, <1>5, <1>6

\* What is said of the logs stays true.
LEMMA LogsStay ==
  ASSUME NEW rs \in [Rooms -> RoomStates], NEW rs2, NEW au, NEW au2,
         Extends(au, au2), LogsInv(rs, au), \A r \in Rooms : Stays(rs, rs2, r),
         \A r \in Rooms :
           \/ rs2[r].log = rs[r].log
           \/ \E row \in LogRows : /\ rs2[r].log = Append(rs[r].log, row)
                                   /\ Signed(rs2, au2, r, row.from, row.text)
  PROVE  LogsInv(rs2, au2)
<1> SUFFICES ASSUME NEW r \in Rooms, NEW i \in DOMAIN rs2[r].log
             PROVE  Signed(rs2, au2, r, rs2[r].log[i].from, rs2[r].log[i].text)
  BY DEF LogsInv
<1>1. \A k \in DOMAIN rs[r].log :
        Signed(rs2, au2, r, rs[r].log[k].from, rs[r].log[k].text)
  BY SignedStays DEF LogsInv
<1>2. CASE rs2[r].log = rs[r].log
  BY <1>1, <1>2
<1>3. ASSUME NEW row \in LogRows, rs2[r].log = Append(rs[r].log, row),
             Signed(rs2, au2, r, row.from, row.text)
      PROVE  Signed(rs2, au2, r, rs2[r].log[i].from, rs2[r].log[i].text)
  <2>1. PICK log \in Seq(LogRows) : log = rs[r].log
    <3>1. rs[r] \in RoomStates
      OBVIOUS
    <3>2. QED
      BY <3>1 DEF RoomStates
  <2>2. /\ DOMAIN Append(log, row) = DOMAIN log \cup {Len(log) + 1}
        /\ \A k \in DOMAIN log : Append(log, row)[k] = log[k]
        /\ Append(log, row)[Len(log) + 1] = row
    BY AppendIs
  <2>3. QED
    BY <1>1, <1>3, <2>1, <2>2
<1>4. QED
  BY <1>2, <1>3

(***************************************************************************)
(* The inbox: a message is put to its end, or read.                        *)
(***************************************************************************)
LEMMA PutInbox ==
  ASSUME NEW rs, NEW mp, NEW au, NEW q \in Seq(Msgs), NEW m \in Msgs,
         QueueInv(rs, mp, au, q), MessageInv(rs, au, m),
         m.type \in {"group", "buffered"} => KnowsEnd(rs, mp, q, m.room)
  PROVE  /\ Append(q, m) \in Seq(Msgs) /\ QueueInv(rs, mp, au, Append(q, m))
         /\ \A r : KnowsEnd(rs, mp, q, r) => KnowsEnd(rs, mp, Append(q, m), r)
         /\ m.type = "joined" /\ rs[m.room].mine # None =>
              KnowsEnd(rs, mp, Append(q, m), m.room)
<1> DEFINE t == Append(q, m)
<1>1. /\ DOMAIN t = DOMAIN q \cup {Len(q) + 1} /\ DOMAIN q = 1..Len(q)
      /\ Len(q) \in Nat /\ Len(t) = Len(q) + 1
      /\ \A i \in DOMAIN q : t[i] = q[i]
      /\ t[Len(q) + 1] = m
      /\ t \in Seq(Msgs)
  BY AppendIs
<1> HIDE DEF t
<1>2. \A r, i : KnowsId(rs, mp, q, r, i) => KnowsId(rs, mp, t, r, i)
  BY <1>1 DEF KnowsId
<1>3. ASSUME NEW i \in DOMAIN t
      PROVE  /\ MessageInv(rs, au, t[i])
             /\ t[i].type \in {"group", "buffered"} =>
                  KnowsId(rs, mp, t, t[i].room, i)
  <2>1. CASE i \in DOMAIN q
    BY <1>1, <1>2, <2>1 DEF QueueInv
  <2>2. CASE i = Len(q) + 1
    BY <1>1, <1>2, <2>2 DEF KnowsEnd
  <2>3. QED
    BY <1>1, <2>1, <2>2
<1>4. QueueInv(rs, mp, au, t)
  BY <1>3 DEF QueueInv
<1>5. ASSUME NEW r, KnowsEnd(rs, mp, q, r)
      PROVE  KnowsEnd(rs, mp, t, r)
  <2>1. \A k \in DOMAIN q : k \in DOMAIN t /\ k < Len(t) + 1
    BY <1>1
  <2>2. QED
    BY <1>1, <1>5, <2>1 DEF KnowsEnd, KnowsId
<1>6. m.type = "joined" /\ rs[m.room].mine # None => KnowsEnd(rs, mp, t, m.room)
  <2>1. Len(q) + 1 \in DOMAIN t /\ Len(q) + 1 < Len(t) + 1
    BY <1>1
  <2>2. QED
    BY <1>1, <2>1 DEF KnowsEnd, KnowsId
<1>7. QED
  BY <1>1, <1>4, <1>5, <1>6 DEF t

\* The message at the head is read: the client knows its id if that was it.
LEMMA TakeInbox ==
  ASSUME NEW rs, NEW mp, NEW au, NEW q \in Seq(Msgs), q # <<>>,
         QueueInv(rs, mp, au, q),
         Head(q).type = "joined" =>
           rs[Head(q).room].removed \/ mp[Head(q).room] = rs[Head(q).room].mine
  PROVE  /\ Tail(q) \in Seq(Msgs) /\ QueueInv(rs, mp, au, Tail(q))
         /\ \A r : KnowsEnd(rs, mp, q, r) => KnowsEnd(rs, mp, Tail(q), r)
<1> DEFINE t == Tail(q)
<1>1. /\ t \in Seq(Msgs) /\ Len(q) \in Nat /\ Len(t) = Len(q) - 1
      /\ DOMAIN q = 1..Len(q) /\ DOMAIN t = 1..(Len(q) - 1)
      /\ \A i \in DOMAIN t : i + 1 \in DOMAIN q /\ t[i] = q[i + 1]
      /\ Head(q) = q[1]
  BY TailIs
<1> HIDE DEF t
<1>2. ASSUME NEW r, NEW i \in Nat, KnowsId(rs, mp, q, r, i + 1)
      PROVE  KnowsId(rs, mp, t, r, i)
  <2>1. ASSUME NEW k \in DOMAIN q, k < i + 1, q[k].type = "joined",
               q[k].room = r, k # 1
        PROVE  \E j \in DOMAIN t : j < i /\ t[j].type = "joined" /\ t[j].room = r
    <3>1. k - 1 \in DOMAIN t /\ k - 1 < i /\ (k - 1) + 1 = k
      BY <1>1, <2>1
    <3>2. t[k - 1] = q[k]
      BY <1>1, <3>1
    <3>3. QED
      BY <2>1, <3>1, <3>2
  <2>2. CASE q[1].type = "joined" /\ q[1].room = r
    BY <1>1, <1>2, <2>1, <2>2 DEF KnowsId
  <2>3. CASE ~(q[1].type = "joined" /\ q[1].room = r)
    BY <1>2, <2>1, <2>3 DEF KnowsId
  <2>4. QED
    BY <2>2, <2>3
<1>3. ASSUME NEW i \in DOMAIN t
      PROVE  /\ MessageInv(rs, au, t[i])
             /\ t[i].type \in {"group", "buffered"} =>
                  KnowsId(rs, mp, t, t[i].room, i)
  <2>1. i \in Nat /\ i + 1 \in DOMAIN q /\ t[i] = q[i + 1]
    BY <1>1
  <2>2. QED
    BY <1>2, <2>1 DEF QueueInv
<1>4. ASSUME NEW r, KnowsEnd(rs, mp, q, r)
      PROVE  KnowsEnd(rs, mp, t, r)
  <2>1. Len(t) + 1 \in Nat /\ Len(q) + 1 = (Len(t) + 1) + 1
    BY <1>1
  <2>2. QED
    BY <1>2, <1>4, <2>1 DEF KnowsEnd
<1>5. QED
  BY <1>1, <1>3, <1>4 DEF t, QueueInv

\* An error says nothing.
LEMMA ErrorPut ==
  ASSUME NEW rs, NEW mp, NEW au, NEW q \in Seq(Msgs), QueueInv(rs, mp, au, q)
  PROVE  /\ Append(q, [type |-> "error"]) \in Seq(Msgs)
         /\ QueueInv(rs, mp, au, Append(q, [type |-> "error"]))
         /\ \A r : KnowsEnd(rs, mp, q, r) =>
                     KnowsEnd(rs, mp, Append(q, [type |-> "error"]), r)
<1>1. PICK m : m = [type |-> "error"]
  OBVIOUS
<1>2. m \in Msgs /\ MessageInv(rs, au, m) /\ m.type \notin {"group", "buffered"}
  BY <1>1 DEF ErrorMsgs, Msgs, MessageInv
<1>3. QED
  BY <1>1, <1>2, PutInbox

(***************************************************************************)
(* The server.                                                             *)
(***************************************************************************)
LEMMA JoinServed ==
  ASSUME TypeInv, ServerInv, NEW r \in Rooms, ServeJoin(r),
         UNCHANGED <<myPeer, author>>, link' = "up"
  PROVE  ServerInv'
<1>1. /\ rooms \in [Rooms -> RoomStates] /\ inbox \in Seq(Msgs)
      /\ nextId \in Nat
  BY WorldTypes
<1>2. CASE rooms[r].session = "none"
  <2>1. PICK id : id = IF rooms[r].mine = None THEN nextId ELSE rooms[r].mine
    OBVIOUS
  <2>2. PICK joined : joined = [type |-> "joined", room |-> r, me |-> id,
                                here |-> rooms[r].here]
    OBVIOUS
  <2>3. PICK buffered : buffered = [type |-> "buffered", room |-> r,
                             messages |-> Unacked(rooms[r], rooms[r].cursor)]
    OBVIOUS
  <2>4. PICK q : q = Append(inbox, joined)
    OBVIOUS
  <2>5. /\ rooms' = [rooms EXCEPT ![r].session = "now", ![r].mine = id]
        /\ inbox' = q \o (IF kind[r] = "group"
                             /\ Len(rooms[r].log) > rooms[r].cursor
                          THEN <<buffered>> ELSE <<>>)
    BY <1>2, <2>1, <2>2, <2>3, <2>4 DEF ServeJoin
  <2>6. id \in Nat /\ id # None
    BY <1>1, <2>1, RoomTypes, BridgeBounds DEF Ids
  <2>7. PICK rs : rs = [rooms EXCEPT ![r] = [rooms[r] EXCEPT !.session = "now",
                                                             !.mine = id]]
    OBVIOUS
  <2>8. rooms' = rs
    BY <1>1, <2>5, <2>7
  <2>9. /\ \A x \in Rooms : x # r => rs[x] = rooms[x]
        /\ rs[r].log = rooms[r].log /\ rs[r].removed = rooms[r].removed
        /\ rs[r].mine = id
        /\ rooms[r].mine = None \/ rooms[r].mine = id
    <3>1. rooms[r] \in RoomStates
      BY <1>1
    <3>2. QED
      BY <1>1, <2>1, <2>7, <3>1 DEF RoomStates
  <2>10. Moves(rooms, rs, myPeer, myPeer, author, author)
    BY <2>9 DEF Moves, Stays, Extends
  <2>11. QueueInv(rs, myPeer, author, inbox)
    BY <1>1, <2>10, QueueStays DEF ServerInv
  <2>12. LogsInv(rs, author)
    <3>1. \A x \in Rooms : rs[x].log = rooms[x].log
      BY <2>9
    <3>2. QED
      BY <1>1, <2>10, <3>1, LogsStay DEF ServerInv, Moves
  <2>13. /\ joined \in Msgs /\ MessageInv(rs, author, joined)
         /\ joined.type = "joined" /\ joined.room = r
    <3>1. joined \in JoinedMsgs
      BY <2>2, <2>6, RoomTypes DEF JoinedMsgs
    <3>2. QED
      BY <2>2, <2>9, <3>1 DEF Msgs, MessageInv
  <2>14. /\ q \in Seq(Msgs) /\ QueueInv(rs, myPeer, author, q)
         /\ \A x : KnowsEnd(rs, myPeer, inbox, x) => KnowsEnd(rs, myPeer, q, x)
         /\ KnowsEnd(rs, myPeer, q, r)
    BY <1>1, <2>4, <2>6, <2>9, <2>11, <2>13, PutInbox
  <2>15. \A x \in Rooms : rs[x].session = "now" => KnowsEnd(rs, myPeer, q, x)
    <3>1. ASSUME NEW x \in Rooms, rs[x].session = "now", x # r
          PROVE  KnowsEnd(rs, myPeer, q, x)
      <4>1. KnowsEnd(rooms, myPeer, inbox, x)
        BY <2>9, <3>1 DEF ServerInv, SessionsInv
      <4>2. KnowsEnd(rs, myPeer, inbox, x)
        BY <2>10, <4>1, KnowsStays DEF KnowsEnd
      <4>3. QED
        BY <2>14, <4>2
    <3>2. QED
      BY <2>14, <3>1
  <2>16. CASE inbox' = q
    <3>1. SessionsInv(rs, myPeer, q, "up")
      BY <2>15 DEF SessionsInv
    <3>2. QED
      BY <2>8, <2>12, <2>14, <2>16, <3>1 DEF ServerInv
  <2>17. CASE Len(rooms[r].log) > rooms[r].cursor /\ inbox' = q \o <<buffered>>
    <3>1. PICK log \in Seq(LogRows) : log = rooms[r].log
      BY RoomTypes
    <3>2. PICK cursor \in Nat : cursor = rooms[r].cursor
      BY RoomTypes
    <3>3. PICK s : s = Unacked(rooms[r], cursor)
      OBVIOUS
    <3>4. s \in {x \in Seq(SeqRows) : Rising(x)}
      BY <2>17, <3>1, <3>2, <3>3, UnackedIs
    <3>5. ASSUME NEW k \in DOMAIN s
          PROVE  Signed(rs, author, r, s[k].from, s[k].text)
      <4>1. s = [i \in 1..(Len(log) - cursor) |->
                   [from |-> log[cursor + i].from, text |-> log[cursor + i].text,
                    seq |-> cursor + i]]
        BY <3>1, <3>3 DEF Unacked
      <4>2. cursor + k \in DOMAIN log
        BY <2>17, <3>1, <3>2, <3>5, <4>1
      <4>3. s[k].from = log[cursor + k].from /\ s[k].text = log[cursor + k].text
        BY <3>5, <4>1
      <4>4. QED
        BY <2>9, <2>12, <3>1, <4>2, <4>3 DEF LogsInv
    <3>6. buffered = [type |-> "buffered", room |-> r, messages |-> s]
      BY <2>3, <3>2, <3>3
    <3>7. /\ buffered \in Msgs /\ MessageInv(rs, author, buffered)
          /\ buffered.room = r /\ buffered.type = "buffered"
      BY <3>4, <3>5, <3>6 DEF BufferedMsgs, Msgs, MessageInv
    <3>8. inbox' = Append(q, buffered)
      BY <2>14, <2>17
    <3>9. PICK q2 : q2 = Append(q, buffered)
      OBVIOUS
    <3>10. /\ QueueInv(rs, myPeer, author, q2)
           /\ \A x : KnowsEnd(rs, myPeer, q, x) => KnowsEnd(rs, myPeer, q2, x)
      BY <2>14, <3>7, <3>9, PutInbox
    <3>11. SessionsInv(rs, myPeer, q2, "up")
      BY <2>15, <3>10 DEF SessionsInv
    <3>12. QED
      BY <2>8, <2>12, <3>8, <3>9, <3>10, <3>11 DEF ServerInv
  <2>18. q \o <<>> = q
    BY <2>14
  <2>19. QED
    BY <2>5, <2>16, <2>17, <2>18
<1>3. CASE rooms[r].session # "none"
  <2>1. inbox' = Append(inbox, [type |-> "error"]) /\ rooms' = rooms
    BY <1>3 DEF ServeJoin
  <2>2. PICK q : q = Append(inbox, [type |-> "error"])
    OBVIOUS
  <2>3. /\ QueueInv(rooms, myPeer, author, q)
        /\ \A x : KnowsEnd(rooms, myPeer, inbox, x) => KnowsEnd(rooms, myPeer, q, x)
    BY <1>1, <2>2, ErrorPut DEF ServerInv
  <2>4. SessionsInv(rooms, myPeer, q, "up")
    BY <2>3 DEF ServerInv, SessionsInv
  <2>5. QED
    BY <2>1, <2>2, <2>3, <2>4 DEF ServerInv
<1>4. QED
  BY <1>2, <1>3

\* A text of x is put to the log of a room, and sent to the client if it is
\* there.
LEMMA LogServed ==
  ASSUME TypeInv, ServerInv, NEW au, Extends(author, au), NEW r \in Rooms,
         NEW from \in Origins, NEW n \in Nat, Signed(rooms, au, r, from, n),
         author' = au, rooms' = Logged(r, from, n),
         inbox' = Told(r, GroupMessage(r, from, n)),
         UNCHANGED <<myPeer, link>>
  PROVE  ServerInv'
<1>1. rooms \in [Rooms -> RoomStates] /\ inbox \in Seq(Msgs)
  BY WorldTypes
<1>2. PICK row : row = [from |-> from, text |-> n]
  OBVIOUS
<1>3. PICK rs : rs = Logged(r, from, n)
  OBVIOUS
<1>4. row \in LogRows
  BY <1>2 DEF LogRows
<1>5. /\ \A x \in Rooms : x # r => rs[x] = rooms[x]
      /\ rs[r].log = Append(rooms[r].log, row)
      /\ rs[r].removed = rooms[r].removed /\ rs[r].mine = rooms[r].mine
      /\ rs[r].session = rooms[r].session
  <2>1. rooms[r] \in RoomStates
    BY <1>1
  <2>2. QED
    BY <1>1, <1>2, <1>3, <2>1 DEF Logged, RoomStates
<1>6. Moves(rooms, rs, myPeer, myPeer, author, au)
  BY <1>5 DEF Moves, Stays
<1>7. Signed(rs, au, r, from, n)
  BY <1>5 DEF Signed
<1>8. LogsInv(rs, au)
  <2>1. ASSUME NEW x \in Rooms
        PROVE  \/ rs[x].log = rooms[x].log
               \/ \E y \in LogRows : /\ rs[x].log = Append(rooms[x].log, y)
                                     /\ Signed(rs, au, x, y.from, y.text)
    <3>1. CASE x = r
      BY <1>2, <1>4, <1>5, <1>7, <3>1
    <3>2. CASE x # r
      BY <1>5, <3>2
    <3>3. QED
      BY <3>1, <3>2
  <2>2. QED
    BY <1>1, <1>6, <2>1, LogsStay DEF ServerInv, Moves
<1>9. QueueInv(rs, myPeer, au, inbox)
  BY <1>1, <1>6, QueueStays DEF ServerInv
<1>10. \A x \in Rooms : rs[x].session = "now" =>
         link = "up" /\ KnowsEnd(rs, myPeer, inbox, x)
  <2>1. ASSUME NEW x \in Rooms, rs[x].session = "now"
        PROVE  link = "up" /\ KnowsEnd(rs, myPeer, inbox, x)
    <3>1. link = "up" /\ KnowsEnd(rooms, myPeer, inbox, x)
      BY <1>5, <2>1 DEF ServerInv, SessionsInv
    <3>2. QED
      BY <1>6, <3>1, KnowsStays DEF KnowsEnd
  <2>2. QED
    BY <2>1
<1>11. CASE rooms[r].session = "now"
  <2>1. PICK m : m = GroupMessage(r, from, n)
    OBVIOUS
  <2>2. /\ m \in Msgs /\ MessageInv(rs, au, m) /\ m.type = "group" /\ m.room = r
    BY <1>7, <2>1, LoggedTypes DEF GroupMessage, MessageInv
  <2>3. KnowsEnd(rs, myPeer, inbox, r)
    BY <1>5, <1>10, <1>11
  <2>4. PICK q : q = Append(inbox, m)
    OBVIOUS
  <2>5. /\ QueueInv(rs, myPeer, au, q)
        /\ \A x : KnowsEnd(rs, myPeer, inbox, x) => KnowsEnd(rs, myPeer, q, x)
    BY <1>1, <1>9, <2>2, <2>3, <2>4, PutInbox
  <2>6. SessionsInv(rs, myPeer, q, link)
    BY <1>10, <2>5 DEF SessionsInv
  <2>7. inbox' = q /\ rooms' = rs
    BY <1>3, <1>11, <2>1, <2>4 DEF Told
  <2>8. QED
    BY <1>8, <2>5, <2>6, <2>7 DEF ServerInv
<1>12. CASE rooms[r].session # "now"
  <2>1. SessionsInv(rs, myPeer, inbox, link)
    BY <1>10 DEF SessionsInv
  <2>2. inbox' = inbox /\ rooms' = rs
    BY <1>3, <1>12 DEF Told
  <2>3. QED
    BY <1>8, <1>9, <2>1, <2>2 DEF ServerInv
<1>13. QED
  BY <1>11, <1>12

\* Only what nothing is said of changes in a room, and a message that says
\* nothing may be put to the end of an inbox.
LEMMA RoomsServed ==
  ASSUME TypeInv, NEW rs \in [Rooms -> RoomStates], NEW mp, NEW au,
         NEW q \in Seq(Msgs), Moves(rooms, rs, myPeer, mp, author, au),
         LogsInv(rooms, author), QueueInv(rs, mp, au, q),
         \A r \in Rooms : rs[r].log = rooms[r].log,
         NEW socket, SessionsInv(rs, mp, q, socket),
         rooms' = rs, myPeer' = mp, author' = au, link' = socket,
         \/ inbox' = q
         \/ inbox' = Append(q, [type |-> "error"])
         \/ \E m \in PeerMsgs : inbox' = Append(q, m)
  PROVE  ServerInv'
<1>1. LogsInv(rs, au)
  BY LogsStay, WorldTypes, ZenonT(30) DEF Moves
<1>2. CASE inbox' = q
  BY <1>1, <1>2 DEF ServerInv
<1>3. ASSUME NEW m \in Msgs, m.type \notin {"joined", "group", "buffered"},
             inbox' = Append(q, m)
      PROVE  ServerInv'
  <2>1. PICK q2 : q2 = Append(q, m)
    OBVIOUS
  <2>2. MessageInv(rs, au, m)
    BY <1>3 DEF MessageInv
  <2>3. /\ QueueInv(rs, mp, au, q2)
        /\ \A x : KnowsEnd(rs, mp, q, x) => KnowsEnd(rs, mp, q2, x)
    BY <1>3, <2>1, <2>2, PutInbox
  <2>4. SessionsInv(rs, mp, q2, socket)
    BY <2>3 DEF SessionsInv
  <2>5. QED
    BY <1>1, <1>3, <2>1, <2>3, <2>4 DEF ServerInv
<1>4. [type |-> "error"] \in Msgs
      /\ [type |-> "error"].type \notin {"joined", "group", "buffered"}
  BY DEF ErrorMsgs, Msgs
<1>5. \A m \in PeerMsgs : m \in Msgs /\ m.type \notin {"joined", "group", "buffered"}
  BY DEF PeerMsgs, Msgs
<1>6. QED
  BY <1>2, <1>3, <1>4, <1>5

\* The same for an inbox that nothing is read from.
LEMMA NothingRead ==
  ASSUME TypeInv, ServerInv, NEW rs \in [Rooms -> RoomStates], NEW mp, NEW au,
         Moves(rooms, rs, myPeer, mp, author, au),
         \A r \in Rooms : rs[r].log = rooms[r].log,
         NEW socket,
         \A r \in Rooms : rs[r].session = "now" =>
           rooms[r].session = "now" /\ (link = "up" => socket = "up"),
         rooms' = rs, myPeer' = mp, author' = au, link' = socket,
         \/ inbox' = inbox
         \/ inbox' = Append(inbox, [type |-> "error"])
         \/ \E m \in PeerMsgs : inbox' = Append(inbox, m)
  PROVE  ServerInv'
<1>1. inbox \in Seq(Msgs) /\ LogsInv(rooms, author)
  BY WorldTypes DEF ServerInv
<1>2. QueueInv(rs, mp, au, inbox)
  BY <1>1, QueueStays DEF ServerInv
<1>3. SessionsInv(rs, mp, inbox, socket)
  <2>1. ASSUME NEW r \in Rooms, rs[r].session = "now"
        PROVE  socket = "up" /\ KnowsEnd(rs, mp, inbox, r)
    <3>1. link = "up" /\ KnowsEnd(rooms, myPeer, inbox, r)
      BY <2>1 DEF ServerInv, SessionsInv
    <3>2. QED
      BY <2>1, <3>1, KnowsStays DEF KnowsEnd
  <2>2. QED
    BY <2>1 DEF SessionsInv
<1>4. QED
  BY <1>1, <1>2, <1>3, RoomsServed

\* The same for an inbox whose head is read.
LEMMA MessageRead ==
  ASSUME TypeInv, ServerInv, inbox # <<>>, NEW rs \in [Rooms -> RoomStates],
         NEW mp, Moves(rooms, rs, myPeer, mp, author, author),
         \A r \in Rooms : rs[r].log = rooms[r].log,
         \A r \in Rooms : rs[r].session = "now" => rooms[r].session = "now",
         Head(inbox).type = "joined" =>
           \/ rs[Head(inbox).room].removed
           \/ mp[Head(inbox).room] = rs[Head(inbox).room].mine,
         rooms' = rs, myPeer' = mp, author' = author, link' = link,
         \/ inbox' = Tail(inbox)
         \/ inbox' = Append(Tail(inbox), [type |-> "error"])
  PROVE  ServerInv'
<1>1. inbox \in Seq(Msgs) /\ LogsInv(rooms, author)
  BY WorldTypes DEF ServerInv
<1>2. QueueInv(rs, mp, author, inbox)
  BY <1>1, QueueStays DEF ServerInv
<1>3. PICK q : q = Tail(inbox)
  OBVIOUS
<1>4. /\ q \in Seq(Msgs) /\ QueueInv(rs, mp, author, q)
      /\ \A r : KnowsEnd(rs, mp, inbox, r) => KnowsEnd(rs, mp, q, r)
  BY <1>1, <1>2, <1>3, TakeInbox
<1>5. SessionsInv(rs, mp, q, link)
  <2>1. ASSUME NEW r \in Rooms, rs[r].session = "now"
        PROVE  link = "up" /\ KnowsEnd(rs, mp, q, r)
    <3>1. link = "up" /\ KnowsEnd(rooms, myPeer, inbox, r)
      BY <2>1 DEF ServerInv, SessionsInv
    <3>2. KnowsEnd(rs, mp, inbox, r)
      BY <3>1, KnowsStays DEF KnowsEnd
    <3>3. QED
      BY <1>4, <3>1, <3>2
  <2>2. QED
    BY <2>1 DEF SessionsInv
<1>6. QED
  BY <1>1, <1>3, <1>4, <1>5, RoomsServed

\* What a room keeps of what is said here.
Same(r, room) ==
  /\ room.log = rooms[r].log /\ room.removed = rooms[r].removed
  /\ room.mine = rooms[r].mine

\* Rooms that keep it stay as they must.
LEMMA SameMoves ==
  ASSUME NEW rs, \A r \in Rooms : Same(r, rs[r]), NEW au, Extends(author, au)
  PROVE  Moves(rooms, rs, myPeer, myPeer, author, au)
BY DEF Same, Moves, Stays

\* A step that writes no text leaves whose the texts are.
LEMMA NoAuthor == Extends(author, author)
BY DEF Extends

\* Acknowledgements, of a message that is not "joined".
LEMMA AcksServed ==
  ASSUME TypeInv, ServerInv, inbox # <<>>, Head(inbox).type # "joined",
         NEW r \in Rooms, NEW seqs, ServeAcks(r, seqs, Tail(inbox)), ServedOK,
         UNCHANGED <<myPeer, author, link>>
  PROVE  ServerInv'
<1>1. PICK rs \in [Rooms -> RoomStates] : rs = rooms'
  BY DEF ServedOK
<1>2. \A x \in Rooms : Same(x, rs[x]) /\ rs[x].session = rooms[x].session
  <2>1. rooms \in [Rooms -> RoomStates] /\ rooms[r] \in RoomStates
    BY WorldTypes
  <2>2. CASE rs = rooms
    BY <2>2 DEF Same
  <2>3. CASE rs = [rooms EXCEPT ![r].cursor = Max(seqs)]
    BY <2>1, <2>3 DEF Same, RoomStates
  <2>4. QED
    BY <1>1, <2>2, <2>3 DEF ServeAcks
<1>3. /\ Moves(rooms, rs, myPeer, myPeer, author, author)
      /\ \A x \in Rooms : rs[x].log = rooms[x].log
      /\ \A x \in Rooms : rs[x].session = "now" => rooms[x].session = "now"
  BY <1>2, SameMoves, NoAuthor DEF Same
<1>4. \/ inbox' = Tail(inbox)
      \/ inbox' = Append(Tail(inbox), [type |-> "error"])
  BY DEF ServeAcks
<1>5. QED
  BY <1>1, <1>3, <1>4, MessageRead

\* A message that is read keeps ServerInv.
LEMMA OnMessageServer ==
  ASSUME TypeInv, ServerInv, OnMessage
  PROVE  ServerInv'
<1>1. PICK m : m = Head(inbox)
  OBVIOUS
<1>2. /\ inbox # <<>>
      /\ \/ m.type = "joined" /\ OnJoined(m)
         \/ m.type = "peer joined" /\ OnPeerJoined(m)
         \/ m.type = "peer left" /\ OnPeerLeft(m)
         \/ m.type = "group" /\ OnGroupMessage(m)
         \/ m.type = "buffered" /\ OnBufferedMessages(m)
         \/ m.type = "error" /\ OnErrorReceived
      /\ UNCHANGED <<author, link>>
  BY <1>1 DEF OnMessage, linkVars
<1>3. /\ rooms \in [Rooms -> RoomStates]
      /\ \A r \in Rooms : Same(r, rooms[r])
      /\ Tail(inbox) \in Seq(Msgs)
  BY <1>2, WorldTypes, MessageTypes DEF Same
<1>4. CASE m.type = "joined" /\ OnJoined(m)
  <2>1. m.room \in Rooms /\ m.me \in Nat
    BY <1>1, <1>2, <1>4, MessageTypes DEF JoinedMsgs
  <2>2. PICK mp : mp = [myPeer EXCEPT ![m.room] = m.me]
    OBVIOUS
  <2>3. myPeer' = mp /\ rooms' = rooms /\ inbox' = Tail(inbox)
    BY <1>4, <2>2 DEF OnJoined
  <2>4. rooms[m.room].removed \/ rooms[m.room].mine = m.me
    BY <1>1, <1>2, <1>4, MessageTypes DEF ServerInv, QueueInv, MessageInv
  <2>5. /\ mp[m.room] = m.me
        /\ \A r \in Rooms : r # m.room => mp[r] = myPeer[r]
    BY <2>1, <2>2, WorldTypes
  <2>6. Moves(rooms, rooms, myPeer, mp, author, author)
    BY <2>1, <2>4, <2>5 DEF Moves, Stays, Extends
  <2>7. rooms[m.room].removed \/ mp[m.room] = rooms[m.room].mine
    BY <2>4, <2>5
  <2>8. QED
    BY <1>1, <1>2, <1>3, <2>3, <2>6, <2>7, MessageRead
<1>5. CASE m.type # "joined"
           /\ UNCHANGED <<myPeer, rooms>> /\ inbox' = Tail(inbox)
  BY <1>1, <1>2, <1>3, <1>5, SameMoves, NoAuthor, MessageRead
<1>6. CASE m.type = "group" /\ OnGroupMessage(m)
  <2>1. m \in GroupMsgs /\ m.room \in Rooms
    BY <1>1, <1>2, <1>6, MessageTypes DEF GroupMsgs
  <2>2. PICK seqs : ServeAcks(m.room, seqs, Tail(inbox))
    BY <1>6 DEF OnGroupMessage
  <2>3. ServedOK
    BY <1>3, <1>6, <2>1, OnGroupMessageTypes DEF ReadOK
  <2>4. myPeer' = myPeer
    BY <1>6 DEF OnGroupMessage
  <2>5. QED
    BY <1>1, <1>2, <1>6, <2>1, <2>2, <2>3, <2>4, AcksServed
<1>7. CASE m.type = "buffered" /\ OnBufferedMessages(m)
  <2>1. m \in BufferedMsgs /\ m.room \in Rooms
    BY <1>1, <1>2, <1>7, MessageTypes DEF BufferedMsgs
  <2>2. PICK seqs : ServeAcks(m.room, seqs, Tail(inbox))
    BY <1>7 DEF OnBufferedMessages
  <2>3. ServedOK
    BY <1>3, <1>7, <2>1, OnBufferedMessagesTypes DEF ReadOK
  <2>4. myPeer' = myPeer
    BY <1>7 DEF OnBufferedMessages
  <2>5. QED
    BY <1>1, <1>2, <1>7, <2>1, <2>2, <2>3, <2>4, AcksServed
<1>8. QED
  BY <1>2, <1>4, <1>5, <1>6, <1>7 DEF OnPeerJoined, OnPeerLeft, OnErrorReceived

\* A leave keeps ServerInv: the client forgets its id, and the room says so.
LEMMA LeaveServer ==
  ASSUME TypeInv, ServerInv, NEW e \in Leaves, Leave(e), UNCHANGED <<author, link>>
  PROVE  ServerInv'
<1>1. PICK r \in Rooms : r = e.room
  BY DEF Leaves
<1>2. PICK mp : mp = [myPeer EXCEPT ![r] = None]
  OBVIOUS
<1>3. myPeer' = mp
  BY <1>1, <1>2 DEF Leave
<1>4. PICK rs \in [Rooms -> RoomStates] : rs = rooms'
  BY LeaveTypes DEF RunOK, ServedOK
<1>5. rooms \in [Rooms -> RoomStates] /\ rooms[r] \in RoomStates
  BY WorldTypes
<1>6. PICK f \in [Rooms -> RoomStates] : f = Forgotten(r)
  BY ForgottenTypes
<1>7. /\ \A x \in Rooms : x # r => f[x] = rooms[x]
      /\ f[r].log = rooms[r].log /\ f[r].removed
      /\ f[r].session = rooms[r].session
  BY <1>5, <1>6 DEF Forgotten, RoomStates
<1>8. /\ \A x \in Rooms : x # r => rs[x] = rooms[x]
      /\ rs[r].log = rooms[r].log /\ rs[r].removed
      /\ rs[r].session = "now" => rooms[r].session = "now"
  <2>1. CASE rs = f
    BY <1>7, <2>1
  <2>2. CASE rs = [f EXCEPT ![r].session = "none", ![r].mine = None,
                            ![r].cursor = 0, ![r].left = TRUE]
    <3>1. f[r] \in RoomStates
      OBVIOUS
    <3>2. rs[r] = [f[r] EXCEPT !.session = "none", !.mine = None,
                               !.cursor = 0, !.left = TRUE]
          /\ \A x \in Rooms : x # r => rs[x] = f[x]
      BY <2>2
    <3>3. QED
      BY <1>7, <3>1, <3>2 DEF RoomStates
  <2>3. QED
    BY <1>1, <1>4, <1>6, <2>1, <2>2 DEF Leave, ServeLeave
<1>9. /\ Moves(rooms, rs, myPeer, mp, author, author)
      /\ \A x \in Rooms : rs[x].log = rooms[x].log
      /\ \A x \in Rooms : rs[x].session = "now" => rooms[x].session = "now"
  <2>1. \A x \in Rooms : x # r => mp[x] = myPeer[x]
    BY <1>2, WorldTypes
  <2>2. QED
    BY <1>8, <2>1 DEF Moves, Stays, Extends
<1>10. inbox' = inbox \/ inbox' = Append(inbox, [type |-> "error"])
  BY DEF Leave, ServeLeave
<1>11. QED
  BY <1>3, <1>4, <1>9, <1>10, NothingRead

\* Nothing of the server changes, whoever writes.
LEMMA ServerSame ==
  ASSUME TypeInv, ServerInv, AuthorsMove, UNCHANGED <<rooms, myPeer>>,
         \/ inbox' = inbox
         \/ inbox' = Append(inbox, [type |-> "error"]),
         link = "up" => link' = "up"
  PROVE  ServerInv'
<1>1. PICK au : au = author'
  OBVIOUS
<1>2. PICK socket : socket = link'
  OBVIOUS
<1>3. Extends(author, au)
  BY <1>1, AuthorsMoved DEF Extends
<1>4. Moves(rooms, rooms, myPeer, myPeer, author, au)
  BY <1>3, SameMoves DEF Same
<1>5. QED
  BY <1>1, <1>2, <1>4, NothingRead, WorldTypes

\* What the user does keeps ServerInv.
LEMMA UserServer ==
  ASSUME TypeInv, ServerInv, UserActs
  PROVE  ServerInv'
<1>1. ASSUME NEW r \in Rooms, RequestChat(r)
      PROVE  ServerInv'
  <2>1. UNCHANGED <<myPeer, author>>
        /\ link' = IF IsConnected THEN link ELSE "connecting"
    BY <1>1 DEF RequestChat
  <2>2. CASE link = "up"
    <3>1. ServeJoin(r) /\ link' = "up"
      BY <1>1, <2>1, <2>2 DEF RequestChat, AskToJoin, IsConnected
    <3>2. QED
      BY <2>1, <3>1, JoinServed
  <2>3. CASE link # "up"
    BY <1>1, <2>1, <2>3, ServerSame DEF RequestChat, AskToJoin, AuthorsMove
  <2>4. QED
    BY <2>2, <2>3
<1>2. ASSUME NEW chat, SendMessage(chat) \/ RemoveCurrentChat(chat)
      PROVE  ServerInv'
  BY <1>2, ServerSame DEF SendMessage, RemoveCurrentChat, linkVars, AuthorsMove
<1>3. QED
  BY <1>1, <1>2 DEF UserActs, CreateNewChat, JoinChatById

\* An event of the Qt thread keeps ServerInv.
LEMMA RunEventServer ==
  ASSUME TypeInv, SendInv, TextsInv, ServerInv, RunEvent
  PROVE  ServerInv'
<1>1. PICK e : e = Head(events)
  OBVIOUS
<1>2. /\ events # <<>>
      /\ \/ e.type = "send" /\ SendDirect(e)
         \/ e.type = "send" /\ SendToGroup(e)
         \/ e.type = "leave" /\ Leave(e)
         \/ e.type = "opened" /\ FlushPendingDirectMessages(e)
         \/ e.type = "direct" /\ OnDirectMessage(e)
      /\ UNCHANGED <<author, link>>
  BY <1>1 DEF RunEvent, linkVars
<1>3. CASE UNCHANGED <<rooms, inbox, myPeer>>
  BY <1>2, <1>3, ServerSame DEF AuthorsMove
<1>4. CASE e.type = "send" /\ SendToGroup(e) /\ ServeGroupMessage(e.room, e.text)
  <2>1. PICK r \in Rooms : r = e.room
    BY <1>1, <1>2, <1>4, EventTypes DEF Sends
  <2>2. PICK n \in Nat : n = e.text
    BY <1>1, <1>2, <1>4, EventTypes DEF Sends
  <2>3. myPeer' = myPeer
    BY <1>4 DEF SendToGroup
  <2>4. CASE rooms[r].session = "now"
    <3>1. PICK from \in Nat : from = rooms[r].mine
      BY <2>4, RoomTypes
    <3>2. n \in EventTexts(events)
      BY <1>1, <1>2, <1>4, <2>2, EventTypes DEF EventTexts
    <3>3. n \in DOMAIN author /\ author[n] = Me
      BY <3>2 DEF SendInv, TextsInv
    <3>4. Signed(rooms, author, r, from, n)
      BY <3>1, <3>3, BridgeBounds DEF Signed
    <3>5. /\ rooms' = Logged(r, from, n)
          /\ inbox' = Told(r, GroupMessage(r, from, n))
      BY <1>4, <2>1, <2>2, <2>4, <3>1 DEF ServeGroupMessage, Told
    <3>6. from \in Origins
      BY DEF Origins
    <3>7. QED
      BY <1>2, <2>3, <3>4, <3>5, <3>6, NoAuthor, LogServed
  <2>5. CASE rooms[r].session # "now"
    BY <1>2, <1>4, <2>1, <2>3, <2>5, ServerSame DEF ServeGroupMessage, AuthorsMove
  <2>6. QED
    BY <2>4, <2>5
<1>5. CASE e.type = "leave" /\ Leave(e)
  BY <1>1, <1>2, <1>5, EventTypes, LeaveServer
<1>6. QED
  BY <1>2, <1>3, <1>4, <1>5 DEF SendDirect, SendToGroup,
     FlushPendingDirectMessages, OnDirectMessage

\* Sessions that end, or are taken for lost, keep ServerInv.
LEMMA SessionsServed ==
  ASSUME TypeInv, ServerInv, NEW S, NEW s \in {"none", "old"},
         \A r \in S \cap Rooms : rooms[r].session # "none",
         rooms' = [r \in Rooms |-> IF r \in S
                                   THEN [rooms[r] EXCEPT !.session = s]
                                   ELSE rooms[r]],
         \A r \in Rooms : r \notin S /\ rooms[r].session = "now" =>
           link' = link,
         UNCHANGED <<myPeer, author, inbox>>
  PROVE  ServerInv'
<1>1. PICK rs \in [Rooms -> RoomStates] : rs = rooms'
  BY SessionsTypes
<1>2. PICK socket : socket = link'
  OBVIOUS
<1>3. \A r \in Rooms :
        /\ Same(r, rs[r])
        /\ rs[r].session = "now" =>
             rooms[r].session = "now" /\ (link = "up" => socket = "up")
  <2>1. ASSUME NEW r \in Rooms
        PROVE  /\ Same(r, rs[r])
               /\ rs[r].session = "now" =>
                    rooms[r].session = "now" /\ (link = "up" => socket = "up")
    <3>1. rooms[r] \in RoomStates
      BY WorldTypes
    <3>2. rs[r] = IF r \in S THEN [rooms[r] EXCEPT !.session = s] ELSE rooms[r]
      BY <1>1
    <3>3. QED
      BY <1>2, <3>1, <3>2 DEF Same, RoomStates
  <2>2. QED
    BY <2>1
<1>4. /\ Moves(rooms, rs, myPeer, myPeer, author, author)
      /\ \A r \in Rooms : rs[r].log = rooms[r].log
  BY <1>3, SameMoves, NoAuthor DEF Same
<1>5. QED
  BY <1>1, <1>2, <1>3, <1>4, NothingRead

\* What happens around the client keeps ServerInv.
LEMMA WorldServer ==
  ASSUME TypeInv, ServerInv, WorldActs
  PROVE  ServerInv'
<1>1. CASE OnConnected
  <2>1. /\ link = "connecting" /\ link' = "up" /\ UNCHANGED <<myPeer, author>>
        /\ IF pending = None THEN UNCHANGED <<rooms, inbox, nextId>>
           ELSE ServeJoin(pending)
    BY <1>1 DEF OnConnected, steadyVars, clientSteady
  <2>2. CASE pending = None
    BY <2>1, <2>2, ServerSame DEF AuthorsMove
  <2>3. CASE pending # None
    <3>1. pending \in Rooms
      BY <2>3, WorldTypes
    <3>2. QED
      BY <2>1, <2>3, <3>1, JoinServed
  <2>4. QED
    BY <2>2, <2>3
<1>2. CASE OnErrorOccurred
  BY <1>2, ServerSame DEF OnErrorOccurred, steadyVars, clientSteady, AuthorsMove
<1>3. CASE Retry
  BY <1>3, ServerSame DEF Retry, steadyVars, clientSteady, AuthorsMove
<1>4. CASE Break
  <2>1. PICK S : S = {r \in Rooms : rooms[r].session = "now"}
    OBVIOUS
  <2>2. /\ rooms' = [r \in Rooms |-> IF r \in S
                                     THEN [rooms[r] EXCEPT !.session = "old"]
                                     ELSE rooms[r]]
        /\ UNCHANGED <<myPeer, author, inbox>>
    BY <1>4, <2>1 DEF Break, clientVars
  <2>3. \A r \in S \cap Rooms : rooms[r].session # "none"
    BY <2>1
  <2>4. \A r \in Rooms : r \notin S => rooms[r].session # "now"
    BY <2>1
  <2>5. QED
    BY <2>2, <2>3, <2>4, SessionsServed
<1>5. CASE ServerNotices
  <2>1. PICK S : S = {r \in Rooms : rooms[r].session = "old"}
    OBVIOUS
  <2>2. /\ rooms' = [r \in Rooms |-> IF r \in S
                                     THEN [rooms[r] EXCEPT !.session = "none"]
                                     ELSE rooms[r]]
        /\ UNCHANGED <<myPeer, author, inbox, link>>
    BY <1>5, <2>1 DEF ServerNotices, clientVars, linkVars
  <2>3. \A r \in S \cap Rooms : rooms[r].session # "none"
    BY <2>1
  <2>4. QED
    BY <2>2, <2>3, SessionsServed
<1>6. CASE NoticeBreak
  <2>1. /\ link = "broken" /\ inbox' = <<>> /\ UNCHANGED <<rooms, myPeer, author>>
    BY <1>6 DEF NoticeBreak, steadyVars, clientSteady
  <2>2. PICK socket : socket = link'
    OBVIOUS
  <2>3. \A r \in Rooms : rooms[r].session # "now"
    BY <2>1 DEF ServerInv, SessionsInv
  <2>4. SessionsInv(rooms, myPeer, <<>>, socket)
    BY <2>3 DEF SessionsInv
  <2>5. QueueInv(rooms, myPeer, author, <<>>)
    BY EmptyIs DEF QueueInv
  <2>6. Moves(rooms, rooms, myPeer, myPeer, author, author)
    BY NoAuthor, SameMoves DEF Same
  <2>7. <<>> \in Seq(Msgs) /\ rooms \in [Rooms -> RoomStates]
        /\ LogsInv(rooms, author)
    BY EmptyIs, WorldTypes DEF ServerInv
  <2>8. QED
    BY <2>1, <2>2, <2>4, <2>5, <2>6, <2>7, RoomsServed
<1>7. ASSUME NEW p \in Peers, ChannelOpens(p) \/ PeerWrites(p)
      PROVE  ServerInv'
  BY <1>7, ServerSame DEF ChannelOpens, PeerWrites, clientSteady, linkVars,
     AuthorsMove
<1>8. ASSUME NEW p \in Peers, PeerPosts(p)
      PROVE  ServerInv'
  <2>1. PICK r \in Rooms : r = Home[p]
    BY BridgeBounds
  <2>2. PICK n \in Nat : n = NextText
    BY WorldTypes DEF NextText
  <2>3. PICK au : au = Append(author, p)
    OBVIOUS
  <2>4. /\ author' = au /\ rooms' = Logged(r, p, n)
        /\ inbox' = Told(r, GroupMessage(r, p, n))
        /\ UNCHANGED <<myPeer, link>>
    BY <1>8, <2>1, <2>2, <2>3 DEF PeerPosts, clientVars, linkVars
  <2>5. /\ Extends(author, au) /\ n \in DOMAIN au /\ au[n] = p
    <3>1. author \in Seq(Peers \cup {Me}) /\ p \in Peers \cup {Me}
      BY WorldTypes
    <3>2. QED
      BY <2>2, <2>3, <3>1, AppendIs DEF NextText, Extends
  <2>6. Signed(rooms, au, r, p, n) /\ p \in Origins
    BY <2>5, BridgeBounds DEF Signed, Origins
  <2>7. QED
    BY <2>4, <2>5, <2>6, LogServed
<1>9. ASSUME NEW p \in Peers, PeerMoves(p)
      PROVE  ServerInv'
  <2>1. PICK r \in Rooms : r = Home[p]
    BY BridgeBounds
  <2>2. PICK here \in SUBSET Peers : rooms' = [rooms EXCEPT ![r].here = here]
    <3>1. rooms[r].here \ {p} \in SUBSET Peers
          /\ rooms[r].here \cup {p} \in SUBSET Peers
      BY RoomTypes
    <3>2. QED
      BY <1>9, <2>1, <3>1 DEF PeerMoves
  <2>3. inbox' = inbox \/ \E m \in PeerMsgs : inbox' = Append(inbox, m)
    <3>1. /\ [type |-> "peer left", room |-> r, peer |-> p] \in PeerMsgs
          /\ [type |-> "peer joined", room |-> r, peer |-> p] \in PeerMsgs
      BY DEF PeerMsgs
    <3>2. QED
      BY <1>9, <2>1, <3>1 DEF PeerMoves, Told
  <2>4. rooms \in [Rooms -> RoomStates] /\ rooms[r] \in RoomStates
    BY WorldTypes
  <2>5. PICK rs : rs = [rooms EXCEPT ![r] = [rooms[r] EXCEPT !.here = here]]
    OBVIOUS
  <2>6. rooms' = rs /\ rs \in [Rooms -> RoomStates]
    <3>1. [rooms[r] EXCEPT !.here = here] \in RoomStates
      BY <2>4 DEF RoomStates
    <3>2. QED
      BY <2>2, <2>4, <2>5, <3>1
  <2>7. \A x \in Rooms : Same(x, rs[x]) /\ rs[x].session = rooms[x].session
    BY <2>4, <2>5 DEF Same, RoomStates
  <2>8. /\ Moves(rooms, rs, myPeer, myPeer, author, author)
        /\ \A x \in Rooms : rs[x].log = rooms[x].log
        /\ \A x \in Rooms : rs[x].session = "now" =>
             rooms[x].session = "now" /\ (link = "up" => link = "up")
    BY <2>7, SameMoves, NoAuthor DEF Same
  <2>9. UNCHANGED <<myPeer, author, link>>
    BY <1>9 DEF PeerMoves, clientVars, linkVars
  <2>10. QED
    BY <2>3, <2>6, <2>8, <2>9, NothingRead
<1>10. QED
  BY <1>1, <1>2, <1>3, <1>4, <1>5, <1>6, <1>7, <1>8, <1>9 DEF WorldActs

\* ServerInv is inductive, under what is said of texts.
LEMMA NextServer ==
  ASSUME TypeInv, SendInv, TextsInv, ServerInv, [Next]_vars
  PROVE  ServerInv'
<1>1. CASE UNCHANGED <<rooms, inbox, myPeer, author, link>>
  BY <1>1, ServerSame DEF AuthorsMove
<1>2. CASE Resume \/ UNCHANGED vars
  BY <1>1, <1>2 DEF Resume, vars, clientVars, linkVars, worldVars
<1>3. QED
  BY <1>2, UserServer, OnMessageServer, RunEventServer, WorldServer DEF Next

(***************************************************************************)
(* What is spawned, and what the io thread is left with.                   *)
(***************************************************************************)
RemovedStay == \A r \in Rooms : rooms[r].removed => rooms'[r].removed

\* A room a chat of which was removed stays one.
LEMMA StaysForgotten ==
  ASSUME TypeInv, [Next]_vars
  PROVE  RemovedStay
<1>1. /\ rooms \in [Rooms -> RoomStates]
      /\ \A r \in Rooms : rooms[r] \in RoomStates
  BY WorldTypes
<1>2. CASE rooms' = rooms
  BY <1>2 DEF RemovedStay
<1>3. ASSUME NEW r \in Rooms, NEW room, rooms' = [rooms EXCEPT ![r] = room],
             rooms[r].removed => room.removed
      PROVE  RemovedStay
  BY <1>1, <1>3 DEF RemovedStay
<1>4. ASSUME NEW r \in Rooms, NEW a, NEW b,
             rooms' = [rooms EXCEPT ![r] = [rooms[r] EXCEPT !.session = a, !.mine = b]]
      PROVE  RemovedStay
  BY <1>1, <1>3, <1>4 DEF RoomStates
<1>5. ASSUME NEW r \in Rooms, NEW a,
             \/ rooms' = [rooms EXCEPT ![r] = [rooms[r] EXCEPT !.log = a]]
             \/ rooms' = [rooms EXCEPT ![r] = [rooms[r] EXCEPT !.here = a]]
             \/ rooms' = [rooms EXCEPT ![r] = [rooms[r] EXCEPT !.cursor = a]]
      PROVE  RemovedStay
  BY <1>1, <1>3, <1>5 DEF RoomStates
<1>6. ASSUME NEW r \in Rooms, ServeJoin(r)
      PROVE  RemovedStay
  BY <1>1, <1>2, <1>4, <1>6, ZenonT(30) DEF ServeJoin
<1>7. ASSUME NEW r \in Rooms, NEW from, NEW text, rooms' = Logged(r, from, text)
      PROVE  RemovedStay
  BY <1>1, <1>5, <1>7 DEF Logged
<1>8. ASSUME NEW r \in Rooms, NEW seqs, NEW rest, ServeAcks(r, seqs, rest)
      PROVE  RemovedStay
  BY <1>1, <1>2, <1>5, <1>8 DEF ServeAcks
<1>9. ASSUME NEW S, NEW s,
             rooms' = [r \in Rooms |-> IF r \in S
                                       THEN [rooms[r] EXCEPT !.session = s]
                                       ELSE rooms[r]]
      PROVE  RemovedStay
  BY <1>1, <1>9 DEF RemovedStay, RoomStates
<1>10. CASE UserActs
  BY <1>2, <1>6, <1>10 DEF UserActs, CreateNewChat, JoinChatById, RequestChat,
     AskToJoin, SendMessage, RemoveCurrentChat
<1>11. CASE OnMessage
  <2>1. PICK m : m = Head(inbox)
    OBVIOUS
  <2>2. inbox # <<>>
        /\ \/ UNCHANGED rooms
           \/ m.type = "group" /\ OnGroupMessage(m)
           \/ m.type = "buffered" /\ OnBufferedMessages(m)
    BY <1>11, <2>1 DEF OnMessage, OnJoined, OnPeerJoined, OnPeerLeft,
       OnErrorReceived
  <2>3. m.type \in {"group", "buffered"} => m.room \in Rooms
    BY <2>1, <2>2, MessageTypes DEF GroupMsgs, BufferedMsgs
  <2>4. UNCHANGED rooms
        \/ \E seqs : m.room \in Rooms /\ ServeAcks(m.room, seqs, Tail(inbox))
    BY <2>2, <2>3 DEF OnGroupMessage, OnBufferedMessages
  <2>5. QED
    BY <1>2, <1>8, <2>4
<1>12. CASE RunEvent
  <2>1. PICK e : e = Head(events)
    OBVIOUS
  <2>2. events # <<>>
        /\ \/ UNCHANGED rooms
           \/ e.type = "send" /\ SendToGroup(e)
           \/ e.type = "leave" /\ Leave(e)
    BY <1>12, <2>1 DEF RunEvent, SendDirect, FlushPendingDirectMessages,
       OnDirectMessage
  <2>3. e.type \in {"send", "leave"} => e.room \in Rooms
    BY <2>1, <2>2, EventTypes DEF Sends, Leaves
  <2>4. CASE e.type = "send" /\ SendToGroup(e)
    BY <1>2, <1>7, <2>3, <2>4 DEF SendToGroup, ServeGroupMessage
  <2>5. CASE e.type = "leave" /\ Leave(e)
    <3>1. PICK r \in Rooms : r = e.room
      BY <2>3, <2>5
    <3>2. PICK f : f = Forgotten(r)
      OBVIOUS
    <3>3. PICK gone : gone = [rooms[r] EXCEPT !.removed = TRUE]
      OBVIOUS
    <3>4. f = [rooms EXCEPT ![r] = gone] /\ f[r] = gone /\ gone.removed
          /\ gone \in RoomStates
      BY <1>1, <3>2, <3>3 DEF Forgotten, RoomStates
    <3>5. CASE rooms' = f
      BY <1>3, <3>4, <3>5
    <3>6. CASE rooms' = [f EXCEPT ![r].session = "none", ![r].mine = None,
                                  ![r].cursor = 0, ![r].left = TRUE]
      <4>1. PICK left : left = [gone EXCEPT !.session = "none", !.mine = None,
                                            !.cursor = 0, !.left = TRUE]
        OBVIOUS
      <4>2. left.removed
        BY <3>4, <4>1 DEF RoomStates
      <4>3. rooms' = [rooms EXCEPT ![r] = left]
        BY <1>1, <3>4, <3>6, <4>1
      <4>4. QED
        BY <1>3, <4>2, <4>3
    <3>7. QED
      BY <2>5, <3>1, <3>2, <3>5, <3>6 DEF Leave, ServeLeave
  <2>6. QED
    BY <1>2, <2>2, <2>4, <2>5
<1>13. CASE WorldActs
  <2>1. CASE OnConnected
    BY <1>2, <1>6, <2>1, WorldTypes DEF OnConnected
  <2>2. CASE Break
    <3>1. PICK S : S = {r \in Rooms : rooms[r].session = "now"}
      OBVIOUS
    <3>2. rooms' = [r \in Rooms |-> IF r \in S
                                    THEN [rooms[r] EXCEPT !.session = "old"]
                                    ELSE rooms[r]]
      BY <2>2, <3>1 DEF Break
    <3>3. QED
      BY <1>9, <3>2
  <2>3. CASE ServerNotices
    <3>1. PICK S : S = {r \in Rooms : rooms[r].session = "old"}
      OBVIOUS
    <3>2. rooms' = [r \in Rooms |-> IF r \in S
                                    THEN [rooms[r] EXCEPT !.session = "none"]
                                    ELSE rooms[r]]
      BY <2>3, <3>1 DEF ServerNotices
    <3>3. QED
      BY <1>9, <3>2
  <2>4. ASSUME NEW p \in Peers, PeerPosts(p)
        PROVE  RemovedStay
    BY <1>7, <2>4, BridgeBounds DEF PeerPosts
  <2>5. ASSUME NEW p \in Peers, PeerMoves(p)
        PROVE  RemovedStay
    <3>1. PICK r \in Rooms : r = Home[p]
      BY BridgeBounds
    <3>2. \E a : rooms' = [rooms EXCEPT ![r] = [rooms[r] EXCEPT !.here = a]]
      BY <1>1, <2>5, <3>1 DEF PeerMoves
    <3>3. QED
      BY <1>5, <3>2
  <2>6. CASE rooms' = rooms
    BY <1>2, <2>6
  <2>7. QED
    BY <1>13, <2>1, <2>2, <2>3, <2>4, <2>5, <2>6 DEF WorldActs, OnErrorOccurred,
       Retry, NoticeBreak, ChannelOpens, PeerWrites
<1>14. QED
  BY <1>2, <1>10, <1>11, <1>12, <1>13 DEF Next, Resume, worldVars, vars

\* A text stays written by whom it was.
LEMMA WrittenStays ==
  ASSUME NEW rs, NEW rs2, NEW au, NEW au2, Extends(au, au2),
         \A r \in Rooms : rs[r].removed => rs2[r].removed,
         NEW from, NEW n, WrittenBy(rs, au, from, n)
  PROVE  WrittenBy(rs2, au2, from, n)
BY DEF Extends, WrittenBy

\* The client passes over the echoes of the user's texts: it knows its id.
LEMMA EchoesKnown ==
  ASSUME TypeInv, ServerInv, inbox # <<>>,
         Head(inbox).type \in {"group", "buffered"},
         NEW from, NEW n, from # myPeer[Head(inbox).room],
         Signed(rooms, author, Head(inbox).room, from, n)
  PROVE  WrittenBy(rooms, author, from, n)
<1>1. PICK m : m = Head(inbox)
  OBVIOUS
<1>2. m = inbox[1] /\ 1 \in DOMAIN inbox /\ m.room \in Rooms
  BY <1>1, MessageTypes DEF GroupMsgs, BufferedMsgs
<1>3. KnowsId(rooms, myPeer, inbox, m.room, 1)
  BY <1>1, <1>2 DEF ServerInv, QueueInv
<1>4. \A k \in DOMAIN inbox : ~(k < 1)
  BY WorldTypes
<1>5. QED
  BY <1>1, <1>2, <1>3, <1>4 DEF KnowsId, Signed, WrittenBy

\* The coroutines that are spawned are at their start.
FreshTasks ==
  {t \in ShapedTasks :
     /\ t.at = "start"
     /\ t.op = "send" => author'[t.text] = Me
     /\ t.op = "incoming" => WrittenBy(rooms, author, t.from, t.text)}
TasksSpawned ==
  \/ tasks' = tasks
  \/ \E t \in FreshTasks : tasks' = Append(tasks, t)
  \/ \E s \in Seq(FreshTasks) : tasks' = tasks \o s

\* They have read nothing yet.
LEMMA FreshAre ==
  /\ \A chat, n \in Nat : author'[n] = Me => SendTask(chat, n) \in FreshTasks
  /\ \A chat \in Nat : LeaveTask(chat) \in FreshTasks
  /\ \A chat \in Nat : RemoveTask(chat) \in FreshTasks
  /\ \A r \in Rooms : JoinedTask(r) \in FreshTasks
  /\ \A r \in Rooms : \A from \in Origins : \A n \in Nat :
       WrittenBy(rooms, author, from, n) => Incoming(r, from, n) \in FreshTasks
<1>1. ASSUME NEW chat \in Nat, NEW n \in Nat, author'[n] = Me
      PROVE  SendTask(chat, n) \in FreshTasks
  <2>1. SendTask(chat, n) \in ShapedTasks
    BY Spawned
  <2>2. SendTask(chat, n).at = "start" /\ SendTask(chat, n).op = "send"
        /\ SendTask(chat, n).text = n
    BY DEF SendTask
  <2>3. QED
    BY <1>1, <2>1, <2>2 DEF FreshTasks
<1>2. ASSUME NEW chat \in Nat
      PROVE  LeaveTask(chat) \in FreshTasks /\ RemoveTask(chat) \in FreshTasks
  <2>1. LeaveTask(chat) \in ShapedTasks /\ RemoveTask(chat) \in ShapedTasks
    BY Spawned
  <2>2. QED
    BY <2>1 DEF LeaveTask, RemoveTask, FreshTasks
<1>3. ASSUME NEW r \in Rooms
      PROVE  JoinedTask(r) \in FreshTasks
  <2>1. JoinedTask(r) \in ShapedTasks
    BY Spawned
  <2>2. QED
    BY <2>1 DEF JoinedTask, FreshTasks
<1>4. ASSUME NEW r \in Rooms, NEW from \in Origins, NEW n \in Nat,
             WrittenBy(rooms, author, from, n)
      PROVE  Incoming(r, from, n) \in FreshTasks
  <2>1. PICK t \in ShapedTasks : t = Incoming(r, from, n)
    BY Spawned
  <2>2. t.at = "start" /\ t.op = "incoming" /\ t.from = from /\ t.text = n
    BY <2>1 DEF Incoming
  <2>3. t \in FreshTasks
    BY <1>4, <2>2 DEF FreshTasks
  <2>4. QED
    BY <2>1, <2>3
<1>5. QED
  BY <1>1, <1>2, <1>3, <1>4

\* What the user does spawns such coroutines only.
LEMMA UserSpawns ==
  ASSUME TypeInv, UserActs
  PROVE  /\ TasksSpawned /\ events' = events /\ store' = store
         /\ Extends(author, author')
<1>1. \A i \in DOMAIN store.chats : store.chats[i].id \in Nat
  BY StoreTypes DEF TypeInv
<1>2. ASSUME NEW r \in Rooms, RequestChat(r)
      PROVE  /\ TasksSpawned /\ events' = events /\ store' = store
             /\ Extends(author, author')
  BY <1>2 DEF RequestChat, TasksSpawned, Extends
<1>3. ASSUME NEW chat \in Nat, RemoveCurrentChat(chat)
      PROVE  /\ TasksSpawned /\ events' = events /\ store' = store
             /\ Extends(author, author')
  <2>1. tasks' = Append(tasks, LeaveTask(chat))
        /\ UNCHANGED <<events, store, author>>
    BY <1>3 DEF RemoveCurrentChat, Spawn, LeaveTask
  <2>2. QED
    BY <2>1, FreshAre DEF TasksSpawned, Extends
<1>4. ASSUME NEW chat \in Nat, SendMessage(chat)
      PROVE  /\ TasksSpawned /\ events' = events /\ store' = store
             /\ Extends(author, author')
  <2>1. /\ tasks' = Append(tasks, SendTask(chat, NextText))
        /\ author' = Append(author, Me) /\ UNCHANGED <<events, store>>
    BY <1>4 DEF SendMessage, Spawn, SendTask
  <2>2. author \in Seq(Peers \cup {Me}) /\ Me \in Peers \cup {Me}
    BY WorldTypes
  <2>3. author'[NextText] = Me /\ NextText \in Nat
    BY <2>1, <2>2, AppendIs DEF NextText
  <2>4. Extends(author, author')
    BY <2>1, <2>2, AppendIs DEF Extends
  <2>5. QED
    BY <2>1, <2>3, <2>4, FreshAre DEF TasksSpawned
<1>5. QED
  BY <1>1, <1>2, <1>3, <1>4 DEF UserActs, CreateNewChat, JoinChatById

\* So does a message that is read: they are given who wrote it.
LEMMA MessageSpawns ==
  ASSUME TypeInv, ServerInv, OnMessage
  PROVE  TasksSpawned
<1>1. PICK m : m = Head(inbox)
  OBVIOUS
<1>2. /\ inbox # <<>>
      /\ \/ m.type = "joined" /\ OnJoined(m)
         \/ m.type = "peer joined" /\ OnPeerJoined(m)
         \/ m.type = "peer left" /\ OnPeerLeft(m)
         \/ m.type = "group" /\ OnGroupMessage(m)
         \/ m.type = "buffered" /\ OnBufferedMessages(m)
         \/ m.type = "error" /\ OnErrorReceived
  BY <1>1 DEF OnMessage
<1>3. MessageInv(rooms, author, m)
  BY <1>1, <1>2, MessageTypes DEF ServerInv, QueueInv
<1>4. ASSUME m.type = "joined", OnJoined(m)
      PROVE  TasksSpawned
  <2>1. m.room \in Rooms
    BY <1>1, <1>2, <1>4, MessageTypes DEF JoinedMsgs
  <2>2. tasks' = tasks \/ tasks' = Append(tasks, JoinedTask(m.room))
    BY <1>4 DEF OnJoined, Spawn, JoinedTask
  <2>3. QED
    BY <2>1, <2>2, FreshAre DEF TasksSpawned
<1>5. ASSUME m.type = "group", OnGroupMessage(m)
      PROVE  TasksSpawned
  <2>1. m.room \in Rooms /\ m.from \in Origins /\ m.text \in Nat
    BY <1>1, <1>2, <1>5, MessageTypes DEF GroupMsgs
  <2>2. CASE m.from = myPeer[m.room]
    BY <1>5, <2>2 DEF OnGroupMessage, TasksSpawned
  <2>3. CASE m.from # myPeer[m.room]
    <3>1. tasks' = Append(tasks, Incoming(m.room, m.from, m.text))
      BY <1>5, <2>3 DEF OnGroupMessage, Spawn
    <3>2. Signed(rooms, author, m.room, m.from, m.text)
      BY <1>3, <1>5 DEF MessageInv
    <3>3. WrittenBy(rooms, author, m.from, m.text)
      BY <1>1, <1>2, <1>5, <2>3, <3>2, EchoesKnown
    <3>4. QED
      BY <2>1, <3>1, <3>3, FreshAre DEF TasksSpawned
  <2>4. QED
    BY <2>2, <2>3
<1>6. ASSUME m.type = "buffered", OnBufferedMessages(m)
      PROVE  TasksSpawned
  <2>1. m \in BufferedMsgs /\ m.room \in Rooms /\ m.messages \in Seq(SeqRows)
    BY <1>1, <1>2, <1>6, MessageTypes DEF BufferedMsgs
  <2>2. PICK order \in Ascending(Foreign(m)) : tasks' = tasks \o Copies(m, order)
    BY <1>6 DEF OnBufferedMessages, Foreign, Copies
  <2>3. Foreign(m) \subseteq DOMAIN m.messages
    BY DEF Foreign
  <2>4. PICK s \in Seq(ShapedTasks) :
          /\ s = Copies(m, order) /\ DOMAIN s = DOMAIN order
          /\ \A i \in DOMAIN order : order[i] \in Foreign(m)
          /\ \A i \in DOMAIN order :
               s[i] = Incoming(m.room, m.messages[order[i]].from,
                               m.messages[order[i]].text)
    BY <2>1, <2>3, CopiesAre
  <2>5. ASSUME NEW i \in DOMAIN s
        PROVE  s[i] \in FreshTasks
    <3>1. PICK k \in DOMAIN m.messages :
            k = order[i] /\ m.messages[k].from # myPeer[m.room]
      BY <2>4 DEF Foreign
    <3>2. Signed(rooms, author, m.room, m.messages[k].from, m.messages[k].text)
      BY <1>3, <1>6 DEF MessageInv
    <3>3. WrittenBy(rooms, author, m.messages[k].from, m.messages[k].text)
      BY <1>1, <1>2, <1>6, <3>1, <3>2, EchoesKnown
    <3>4. m.messages[k] \in SeqRows
      BY <2>1
    <3>5. m.messages[k].from \in Origins /\ m.messages[k].text \in Nat
      BY <3>4 DEF SeqRows
    <3>6. QED
      BY <2>1, <2>4, <3>1, <3>3, <3>5, FreshAre
  <2>6. s \in Seq(FreshTasks)
    BY <2>5
  <2>7. QED
    BY <2>2, <2>4, <2>6 DEF TasksSpawned
<1>7. ASSUME OnPeerJoined(m) \/ OnPeerLeft(m) \/ OnErrorReceived
      PROVE  TasksSpawned
  BY <1>7 DEF OnPeerJoined, OnPeerLeft, OnErrorReceived, TasksSpawned
<1>8. QED
  BY <1>2, <1>4, <1>5, <1>6, <1>7

\* So does an event of the Qt thread.
LEMMA EventSpawns ==
  ASSUME TypeInv, TextsInv, RunEvent
  PROVE  TasksSpawned
<1>1. PICK e : e = Head(events)
  OBVIOUS
<1>2. /\ events # <<>>
      /\ \/ e.type = "send" /\ SendDirect(e)
         \/ e.type = "send" /\ SendToGroup(e)
         \/ e.type = "leave" /\ Leave(e)
         \/ e.type = "opened" /\ FlushPendingDirectMessages(e)
         \/ e.type = "direct" /\ OnDirectMessage(e)
  BY <1>1 DEF RunEvent
<1>3. CASE SendDirect(e) \/ SendToGroup(e) \/ FlushPendingDirectMessages(e)
  BY <1>3 DEF SendDirect, SendToGroup, FlushPendingDirectMessages, TasksSpawned
<1>4. CASE e.type = "leave" /\ Leave(e)
  <2>1. e.chat \in Nat
    BY <1>1, <1>2, <1>4, EventTypes DEF Leaves
  <2>2. tasks' = Append(tasks, RemoveTask(e.chat))
    BY <1>4 DEF Leave, Spawn, RemoveTask
  <2>3. QED
    BY <2>1, <2>2, FreshAre DEF TasksSpawned
<1>5. CASE e.type = "direct" /\ OnDirectMessage(e)
  <2>1. e.peer \in Peers /\ e.peer \in Origins /\ e.text \in Nat
    BY <1>1, <1>2, <1>5, EventTypes DEF Directs, Origins
  <2>2. CASE peerToRoom[e.peer] = None
    BY <1>5, <2>2 DEF OnDirectMessage, TasksSpawned
  <2>3. CASE peerToRoom[e.peer] # None
    <3>1. peerToRoom[e.peer] \in Rooms
      BY <2>1, <2>3, WorldTypes
    <3>2. tasks' = Append(tasks, Incoming(peerToRoom[e.peer], e.peer, e.text))
      BY <1>5, <2>3 DEF OnDirectMessage, Spawn
    <3>3. e \in WrittenEvents(author)
      BY <1>1, <1>2, TailIs DEF TextsInv
    <3>4. WrittenBy(rooms, author, e.peer, e.text)
      BY <1>5, <2>1, <3>3, BridgeBounds DEF WrittenEvents, WrittenBy
    <3>5. QED
      BY <2>1, <3>1, <3>2, <3>4, FreshAre DEF TasksSpawned
  <2>4. QED
    BY <2>2, <2>3
<1>6. QED
  BY <1>2, <1>3, <1>4, <1>5

\* A sequence all of whose members are in a set is one over it.
LEMMA EachIsSeq ==
  ASSUME NEW A, NEW B, NEW q \in Seq(A), \A i \in DOMAIN q : q[i] \in B
  PROVE  q \in Seq(B)
OBVIOUS

\* The queue after a step of the Qt thread, or around the client ...
LEMMA SpawnedEach ==
  ASSUME TypeInv, TasksSpawned
  PROVE  /\ DOMAIN tasks \subseteq DOMAIN tasks'
         /\ \A i \in DOMAIN tasks : tasks'[i] = tasks[i]
         /\ \A i \in DOMAIN tasks' :
              i \in DOMAIN tasks \/ tasks'[i] \in FreshTasks
<1>1. tasks \in Seq(ShapedTasks) /\ \A t \in FreshTasks : t \in ShapedTasks
  BY WorldTypes DEF FreshTasks
<1>2. CASE tasks' = tasks
  BY <1>2
<1>3. ASSUME NEW t \in FreshTasks, tasks' = Append(tasks, t)
      PROVE  /\ DOMAIN tasks \subseteq DOMAIN tasks'
             /\ \A i \in DOMAIN tasks : tasks'[i] = tasks[i]
             /\ \A i \in DOMAIN tasks' :
                  i \in DOMAIN tasks \/ tasks'[i] \in FreshTasks
  BY <1>1, <1>3, AppendIs
<1>4. ASSUME NEW s \in Seq(FreshTasks), tasks' = tasks \o s
      PROVE  /\ DOMAIN tasks \subseteq DOMAIN tasks'
             /\ \A i \in DOMAIN tasks : tasks'[i] = tasks[i]
             /\ \A i \in DOMAIN tasks' :
                  i \in DOMAIN tasks \/ tasks'[i] \in FreshTasks
  <2>1. s \in Seq(ShapedTasks)
    BY <1>1, SeqWider
  <2>2. /\ Len(tasks) \in Nat /\ Len(s) \in Nat
        /\ DOMAIN tasks = 1..Len(tasks) /\ DOMAIN s = 1..Len(s)
        /\ DOMAIN (tasks \o s) = 1..(Len(tasks) + Len(s))
        /\ \A i \in DOMAIN tasks : (tasks \o s)[i] = tasks[i]
        /\ \A i \in DOMAIN s : (tasks \o s)[Len(tasks) + i] = s[i]
    BY <1>1, <2>1, ConcatIs
  <2>3. \A i \in DOMAIN s : s[i] \in FreshTasks
    BY <1>4
  <2>4. ASSUME NEW i \in DOMAIN tasks', i \notin DOMAIN tasks
        PROVE  tasks'[i] \in FreshTasks
    <3>1. i - Len(tasks) \in DOMAIN s /\ i = Len(tasks) + (i - Len(tasks))
      BY <1>4, <2>2, <2>4
    <3>2. QED
      BY <1>4, <2>2, <2>3, <3>1
  <2>5. QED
    BY <1>4, <2>2, <2>4
<1>5. QED
  BY <1>2, <1>3, <1>4 DEF TasksSpawned

\* ... and after a turn of the io thread.
LEMMA TurnEach ==
  ASSUME TypeInv, TasksTurn
  PROVE  \A i \in DOMAIN tasks' :
           (\E k \in DOMAIN tasks : tasks'[i] = tasks[k]) \/ SameText(tasks'[i])
<1>1. tasks \in Seq(ShapedTasks) /\ tasks # <<>>
  BY WorldTypes DEF TasksTurn
<1>2. CASE tasks' = Tail(tasks)
  BY <1>1, <1>2, TailIs
<1>3. ASSUME NEW t, SameText(t), tasks' = Append(Tail(tasks), t)
      PROVE  \A i \in DOMAIN tasks' :
               (\E k \in DOMAIN tasks : tasks'[i] = tasks[k]) \/ SameText(tasks'[i])
  <2>1. PICK S : S = ShapedTasks \cup {t}
    OBVIOUS
  <2>2. tasks \in Seq(S) /\ t \in S
    BY <1>1, <2>1, SeqWider
  <2>3. /\ Len(tasks) \in Nat /\ DOMAIN tasks' = 1..Len(tasks)
        /\ \A i \in 1..(Len(tasks) - 1) :
             tasks'[i] = tasks[i + 1] /\ i + 1 \in DOMAIN tasks
        /\ tasks'[Len(tasks)] = t
    BY <1>1, <1>3, <2>2, RotateIs, TailIs
  <2>4. \A i \in DOMAIN tasks' : i \in 1..(Len(tasks) - 1) \/ i = Len(tasks)
    BY <2>3
  <2>5. QED
    BY <1>3, <2>3, <2>4
<1>4. QED
  BY <1>2, <1>3 DEF TasksTurn

\* Every step but the io thread's spawns such coroutines only.
LEMMA OuterMoves ==
  ASSUME TypeInv, TextsInv, ServerInv, [Next]_vars, ~Resume
  PROVE  /\ TasksSpawned /\ EventsMove /\ store' = store
         /\ Extends(author, author')
<1>1. CASE UNCHANGED vars
  BY <1>1 DEF vars, clientVars, worldVars, TasksSpawned, EventsMove, Extends
<1>2. CASE UserActs
  BY <1>2, UserSpawns DEF EventsMove
<1>3. CASE OnMessage
  BY <1>3, MessageSpawns DEF OnMessage, EventsMove, Extends
<1>4. CASE RunEvent
  BY <1>4, EventSpawns DEF RunEvent, EventsMove, Extends
<1>5. CASE WorldActs
  <2>1. Extends(author, author')
    BY <1>5, WorldMoves, AuthorsMoved DEF Extends
  <2>2. QED
    BY <1>5, <2>1, WorldMoves DEF TasksSpawned
<1>6. QED
  BY <1>1, <1>2, <1>3, <1>4, <1>5 DEF Next

\* The io thread leaves the texts, and whom they are from.
LEMMA IoTurns ==
  ASSUME TypeInv, SendInv, Resume
  PROVE  /\ TasksTurn /\ author' = author /\ rooms' = rooms
         /\ TaskTexts(tasks') \subseteq TaskTexts(tasks)
         /\ \/ EventsMove
            \/ \E e \in Sends : /\ e.text \in TaskTexts(tasks)
                                /\ events' = Append(events, e)
<1>1. author' = author /\ rooms' = rooms /\ tasks # <<>>
  BY DEF Resume
<1>2. TasksTurn
  BY <1>1, IoMoves DEF NewMessage, Finish, TasksTurn
<1>3. TaskTexts(tasks') \subseteq TaskTexts(tasks)
  BY <1>2, TasksMoved DEF TasksMove, SendInv
<1>4. CASE ~NewMessage
  BY <1>1, <1>2, <1>3, <1>4, IoMoves
<1>5. CASE NewMessage /\ (task.op # "send" \/ ~MayAddMessage(store, Message))
  BY <1>1, <1>2, <1>3, <1>5 DEF NewMessage, EventsMove
<1>6. CASE NewMessage /\ task.op = "send" /\ MayAddMessage(store, Message)
  <2>1. PICK e : e = [type |-> "send", text |-> task.text, room |-> task.room]
    OBVIOUS
  <2>2. events' = Append(events, e)
    BY <1>6, <2>1 DEF NewMessage
  <2>3. task \in SendTasks /\ TaskShape(task) /\ task.at = "message"
        /\ task = tasks[1] /\ 1 \in DOMAIN tasks
    BY <1>1, <1>6, TaskTypes, NewMessageIs
  <2>4. task.room \in Rooms /\ task.text \in Nat
    BY <1>6, <2>3 DEF TaskShape, SendTasks
  <2>5. e \in Sends /\ e.text \in TaskTexts(tasks)
    BY <1>6, <2>1, <2>3, <2>4 DEF Sends, TaskTexts
  <2>6. QED
    BY <1>1, <1>2, <1>3, <2>2, <2>5
<1>7. QED
  BY <1>4, <1>5, <1>6

\* TextsInv is inductive, under SendInv and WriterInv.
LEMMA NextTexts ==
  ASSUME TypeInv, SendInv, WriterInv, [Next]_vars
  PROVE  TextsInv'
<1>1. PICK au : au = author'
  OBVIOUS
<1>2. Extends(author, au)
  BY <1>1, OuterMoves, IoTurns DEF WriterInv, Extends
<1>3. events \in Seq(WrittenEvents(author)) /\ events \in Seq(WrittenEvents(au))
  <2>1. \A e \in WrittenEvents(author) : e \in WrittenEvents(au)
    BY <1>2 DEF WrittenEvents, Extends
  <2>2. events \in Seq(WrittenEvents(author))
    BY DEF WriterInv, TextsInv
  <2>3. QED
    BY <2>1, <2>2, SeqWider
<1>4. \A n \in TaskTexts(tasks) \cup EventTexts(events) : au[n] = Me
  BY <1>2 DEF SendInv, WriterInv, TextsInv, Extends
<1>5. ASSUME EventsMove
      PROVE  /\ events' \in Seq(WrittenEvents(au))
             /\ EventTexts(events') \subseteq EventTexts(events)
  <2>1. EventTexts(events') \subseteq EventTexts(events)
    BY <1>5, EventsMoved DEF SendInv
  <2>2. CASE events' = events
    BY <1>3, <2>1, <2>2
  <2>3. ASSUME NEW e \in WrittenEvents(au), events' = Append(events, e)
        PROVE  events' \in Seq(WrittenEvents(au))
    BY <1>3, <2>3, AppendIs
  <2>4. ASSUME events # <<>>, events' = Tail(events)
        PROVE  events' \in Seq(WrittenEvents(au))
    BY <1>3, <2>4, TailIs
  <2>5. QED
    BY <1>1, <1>3, <1>5, <2>1, <2>3, <2>4 DEF EventsMove
<1>6. ASSUME NEW e \in Sends, e.text \in TaskTexts(tasks),
             events' = Append(events, e)
      PROVE  /\ events' \in Seq(WrittenEvents(au))
             /\ EventTexts(events') \subseteq
                  EventTexts(events) \cup TaskTexts(tasks)
  <2>1. e \in WrittenEvents(au) /\ e.type = "send"
    BY DEF Sends, Events, WrittenEvents
  <2>2. QED
    BY <1>3, <1>6, <2>1, AppendIs, EventsOfAppend
<1>7. CASE Resume
  <2>1. /\ TaskTexts(tasks') \subseteq TaskTexts(tasks)
        /\ EventTexts(events') \subseteq EventTexts(events) \cup TaskTexts(tasks)
        /\ events' \in Seq(WrittenEvents(au))
    BY <1>5, <1>6, <1>7, IoTurns
  <2>2. QED
    BY <1>1, <1>4, <2>1 DEF TextsInv
<1>8. CASE ~Resume
  <2>1. TasksSpawned /\ EventsMove
    BY <1>8, OuterMoves DEF WriterInv
  <2>2. ASSUME NEW n \in TaskTexts(tasks')
        PROVE  au[n] = Me
    <3>1. PICK i \in DOMAIN tasks' : tasks'[i].op = "send" /\ tasks'[i].text = n
      BY <2>2 DEF TaskTexts
    <3>2. CASE i \in DOMAIN tasks
      <4>1. n \in TaskTexts(tasks)
        BY <2>1, <3>1, <3>2, SpawnedEach DEF TaskTexts
      <4>2. QED
        BY <1>4, <4>1
    <3>3. CASE i \notin DOMAIN tasks
      BY <1>1, <2>1, <3>1, <3>3, SpawnedEach DEF FreshTasks
    <3>4. QED
      BY <3>2, <3>3
  <2>3. /\ EventTexts(events') \subseteq EventTexts(events)
        /\ events' \in Seq(WrittenEvents(au))
    BY <1>5, <2>1
  <2>4. QED
    BY <1>1, <1>4, <2>2, <2>3 DEF TextsInv
<1>9. QED
  BY <1>7, <1>8

\* HeardInv is inductive, under SendInv and WriterInv.
LEMMA NextHeard ==
  ASSUME TypeInv, SendInv, WriterInv, [Next]_vars
  PROVE  HeardInv'
<1>1. PICK au : au = author'
  OBVIOUS
<1>2. PICK rs : rs = rooms'
  OBVIOUS
<1>3. Extends(author, au) /\ \A r \in Rooms : rooms[r].removed => rs[r].removed
  BY <1>1, <1>2, OuterMoves, IoTurns, StaysForgotten
     DEF WriterInv, Extends, RemovedStay
<1>4. PICK S : S = ShapedTasks'
  OBVIOUS
<1>5. tasks' \in Seq(S) /\ \A t \in S : t \in Tasks
  BY <1>4, NextTypes DEF TypeInv, QueuesOK, ShapedTasks
<1>6. \A i \in DOMAIN tasks : tasks[i] \in HeardTasks(rooms, author)
  BY DEF WriterInv, HeardInv
<1>7. ASSUME NEW i \in DOMAIN tasks', tasks'[i].op = "incoming"
      PROVE  WrittenBy(rooms, author, tasks'[i].from, tasks'[i].text)
  <2>1. ASSUME NEW k \in DOMAIN tasks, tasks'[i] = tasks[k]
        PROVE  WrittenBy(rooms, author, tasks'[i].from, tasks'[i].text)
    BY <1>6, <1>7, <2>1 DEF HeardTasks
  <2>2. CASE Resume
    <3>1. (\E k \in DOMAIN tasks : tasks'[i] = tasks[k]) \/ SameText(tasks'[i])
      BY <2>2, IoTurns, TurnEach
    <3>2. CASE SameText(tasks'[i])
      <4>1. /\ task = tasks[1] /\ 1 \in DOMAIN tasks
        BY <2>2, TaskTypes DEF Resume
      <4>2. /\ task.op = "incoming" /\ tasks'[i].text = task.text
            /\ tasks'[i].from = task.from
        BY <1>7, <3>2 DEF SameText
      <4>3. QED
        BY <1>6, <4>1, <4>2 DEF HeardTasks
    <3>3. QED
      BY <2>1, <3>1, <3>2
  <2>3. CASE ~Resume
    <3>1. \/ i \in DOMAIN tasks /\ tasks'[i] = tasks[i]
          \/ tasks'[i] \in FreshTasks
      BY <2>3, OuterMoves, SpawnedEach DEF WriterInv
    <3>2. QED
      BY <1>7, <2>1, <3>1 DEF FreshTasks
  <2>4. QED
    BY <2>2, <2>3
<1>8. \A i \in DOMAIN tasks' : tasks'[i] \in HeardTasks(rs, au)
  <2>1. \A i \in DOMAIN tasks' : tasks'[i] \in Tasks
    BY <1>5
  <2>2. \A i \in DOMAIN tasks' : tasks'[i].op = "incoming" =>
          WrittenBy(rs, au, tasks'[i].from, tasks'[i].text)
    BY <1>3, <1>7, WrittenStays
  <2>3. QED
    BY <2>1, <2>2 DEF HeardTasks
<1>9. tasks' \in Seq(HeardTasks(rs, au))
  BY <1>5, <1>8, EachIsSeq
<1>10. QED
  BY <1>1, <1>2, <1>9 DEF HeardInv

\* WriterInv is inductive, under TypeInv and SendInv.
LEMMA NextWriter ==
  ASSUME TypeInv, SendInv, WriterInv, [Next]_vars
  PROVE  WriterInv'
<1>1. TextsInv /\ ServerInv
  BY DEF WriterInv
<1>2. QED
  BY <1>1, NextTexts, NextServer, NextHeard DEF WriterInv

\* WriterInv holds at the start.
LEMMA InitWriter ==
  ASSUME Init
  PROVE  WriterInv
<1>1. tasks = <<>> /\ events = <<>> /\ inbox = <<>>
  BY DEF Init
<1>2. \A r \in Rooms : rooms[r].log = <<>> /\ rooms[r].session = "none"
  BY DEF Init, EmptyRoom
<1>3. TextsInv
  BY <1>1, EmptyIs DEF TextsInv, TaskTexts, EventTexts
<1>4. ServerInv
  BY <1>1, <1>2, EmptyIs DEF ServerInv, LogsInv, QueueInv, SessionsInv
<1>5. HeardInv
  BY <1>1, EmptyIs DEF HeardInv
<1>6. QED
  BY <1>3, <1>4, <1>5 DEF WriterInv

-----------------------------------------------------------------------------
(* What is stored is stored under its writer: which member that is.        *)

(***************************************************************************)
(* What is found stays as rows are added.                                  *)
(***************************************************************************)
LEMMA NamedStays ==
  ASSUME StoreGrows
  PROVE  /\ \A id, name : IsNamed(id, name) => IsNamed(id, name)'
         /\ \A id : IsUser(id) => IsUser(id)'
         /\ \A id, from : IsSender(id, from) => IsSender(id, from)'
<1>1. ASSUME NEW id, NEW name, IsNamed(id, name)
      PROVE  IsNamed(id, name)'
  BY <1>1 DEF IsNamed, StoreGrows
<1>2. ASSUME NEW id, IsUser(id)
      PROVE  IsUser(id)'
  BY <1>1, <1>2 DEF IsUser
<1>3. ASSUME NEW id, NEW from, IsSender(id, from)
      PROVE  IsSender(id, from)'
  BY <1>1, <1>3 DEF IsSender
<1>4. QED
  BY <1>1, <1>2, <1>3

(***************************************************************************)
(* A chat that is headed stays so, whatever is removed.                    *)
(***************************************************************************)
HeadedStay == \A c : Headed(c) => Headed(c)'

\* Relations go only with their chat, and a chat that is new has a new id.
RowsStay ==
  \A j \in DOMAIN store.relations :
    \/ \E i \in DOMAIN store'.relations : store'.relations[i] = store.relations[j]
    \/ ~HasChat(store', store.relations[j].chat)
ChatsStay ==
  \A k \in DOMAIN store'.chats :
    \/ store'.chats[k].id = nextId
    \/ \E l \in DOMAIN store.chats : store'.chats[k].id = store.chats[l].id

\* So it does when the tables change like that.
LEMMA HeadedStays ==
  ASSUME TypeInv, TypeInv', StoreGrows, RowsStay, ChatsStay
  PROVE  HeadedStay
<1>1. nextId \in Nat /\ nextId' \in Nat /\ nextId <= nextId' /\ ~(nextId < nextId)
  BY StoreTypes DEF TypeInv, StoreTypeOK, StoreGrows
<1>2. \A c \in Nat : c < nextId => c < nextId'
  BY <1>1
<1>3. ASSUME NEW c, HasRow(c)
      PROVE  Headed(c)'
  <2>1. PICK j \in DOMAIN store.relations : store.relations[j].chat = c
    BY <1>3 DEF HasRow
  <2>2. c \in Nat /\ c < nextId'
    BY <1>2, <2>1, StoreTypes DEF TypeInv, IdsFresh
  <2>3. HasRow(c)' \/ ~HasChat(store', c)
    BY <2>1 DEF RowsStay, HasRow
  <2>4. QED
    BY <2>2, <2>3 DEF Headed, Gone
<1>4. ASSUME NEW c, Gone(c)
      PROVE  Headed(c)'
  <2>1. c \in Nat /\ c < nextId /\ c < nextId' /\ c # nextId
    BY <1>1, <1>2, <1>4 DEF Gone
  <2>2. ~HasChat(store', c)
    BY <1>4, <2>1 DEF Gone, HasChat, Has, ChatsStay
  <2>3. QED
    BY <2>1, <2>2 DEF Headed, Gone
<1>5. QED
  BY <1>3, <1>4 DEF HeadedStay, Headed

\* Every step leaves them headed.
LEMMA NextHeads ==
  ASSUME TypeInv, TypeInv', StoreGrows, [Next]_vars
  PROVE  HeadedStay
<1>1. CASE store'.relations = store.relations /\ store'.chats = store.chats
  BY <1>1, HeadedStays DEF RowsStay, ChatsStay
<1>2. ASSUME Resume
      PROVE  HeadedStay
  <2>1. tasks # <<>>
    BY <1>2 DEF Resume
  <2>2. CASE DropChat
    <3>1. PICK id : id = task.chat
      OBVIOUS
    <3>2. store' = RemoveChat(store, id) /\ nextId' = nextId
      BY <2>2, <3>1 DEF DropChat
    <3>3. /\ RowsOf(store.chats, store'.chats)
          /\ \A i \in DOMAIN store'.chats : store'.chats[i].id # id
          /\ \A j \in DOMAIN store.relations : store.relations[j].chat # id =>
               \E i \in DOMAIN store'.relations :
                 store'.relations[i] = store.relations[j]
      BY <3>2, ChatRemoved
    <3>4. RowsStay /\ ChatsStay
      BY <3>3 DEF RowsStay, ChatsStay, RowsOf, HasChat, Has
    <3>5. QED
      BY <3>4, HeadedStays
  <2>3. CASE NewMessage
    BY <1>1, <2>1, <2>3, NewMessageIs
  <2>4. CASE NewChat
    <3>1. PICK room : room = task.room
      OBVIOUS
    <3>2. /\ store' = AddChat(store, [id |-> nextId, room |-> room])
          /\ nextId' = nextId + 1 /\ task \in JoinedTasks
      BY <2>1, <2>4, <3>1, TaskAt DEF NewChat
    <3>3. room \in Rooms
      BY <3>1, <3>2 DEF JoinedTasks
    <3>4. /\ Added(store.chats, store'.chats, [id |-> nextId, room |-> room])
          /\ store'.relations = store.relations
      BY <3>2, <3>3, ChatAdded
    <3>5. RowsStay /\ ChatsStay
      BY <3>4 DEF RowsStay, ChatsStay, Added
    <3>6. QED
      BY <3>5, HeadedStays
  <2>5. CASE NewMember
    BY <1>1, <2>5, StoreTypes DEF NewMember, AddMember, TypeInv
  <2>6. CASE NewRelation
    <3>1. PICK chat \in Nat, member \in Nat :
            /\ store' = AddMemberToChat(store, chat, member)
            /\ nextId' = nextId
      <4>1. task.op = "joined" => task.chat \in Nat /\ task.member \in Nat
        BY <2>1, <2>6, TaskAt DEF NewRelation, JoiningTasks
      <4>2. task.op = "incoming" => task.chat \in Nat /\ task.found[1] \in Nat
        BY <2>1, <2>6, TaskTypes DEF NewRelation, TaskShape, One
      <4>3. QED
        BY <2>6, <4>1, <4>2 DEF NewRelation
    <3>2. /\ store'.chats = store.chats
          /\ \/ store' = store
             \/ Added(store.relations, store'.relations,
                      [chat |-> chat, member |-> member])
      BY <3>1, RelationAdded
    <3>3. RowsStay /\ ChatsStay
      BY <3>2 DEF RowsStay, ChatsStay, Added
    <3>4. QED
      BY <3>3, HeadedStays
  <2>7. CASE UNCHANGED store
    BY <1>1, <2>7
  <2>8. QED
    BY <1>2, <2>2, <2>3, <2>4, <2>5, <2>6, <2>7 DEF Resume, Begin, FindRoom,
       FindChat, ReadRelations, LookUpMember
<1>3. CASE ~Resume
  BY <1>1, <1>3, OnlyIo
<1>4. QED
  BY <1>2, <1>3

\* What a coroutine has found still holds.
LEMMA FoundKept ==
  ASSUME TypeInv, TypeInv', StoreGrows, HeadedStay, NEW t \in ShapedTasks,
         FoundInv(t)
  PROVE  FoundInv(t)'
<1>1. t.op = "joined" /\ t.at \in {"member", "relation"} => t.chat < nextId'
  <2>1. nextId \in Nat /\ nextId' \in Nat /\ nextId <= nextId'
    BY StoreTypes DEF TypeInv, StoreTypeOK, StoreGrows
  <2>2. t.op = "joined" /\ t.at = "relation" => t.chat \in Nat
    BY DEF ShapedTasks, TaskShape
  <2>3. t.op = "joined" /\ t.at = "member" => t.chat \in Nat
    BY DEF ShapedTasks, TaskShape
  <2>4. QED
    BY <2>1, <2>2, <2>3 DEF FoundInv
<1>2. QED
  BY <1>1, NamedStays DEF FoundInv, HeadedStay

\* So it does in the queue after the step.
LEMMA FoundAfter ==
  ASSUME TypeInv, TypeInv', StoreGrows, HeadedStay, tasks \in Seq(FoundTasks),
         \A i \in DOMAIN tasks' :
           \/ \E k \in DOMAIN tasks : tasks'[i] = tasks[k]
           \/ \E t : tasks'[i] = t /\ FoundInv(t)'
  PROVE  tasks' \in Seq(FoundTasks')
<1>1. PICK S : S = ShapedTasks'
  OBVIOUS
<1>2. PICK F : F = FoundTasks'
  OBVIOUS
<1>3. tasks' \in Seq(S) /\ \A t \in S : t \in Tasks
  BY <1>1 DEF TypeInv, QueuesOK, ShapedTasks
<1>4. \A k \in DOMAIN tasks : tasks[k] \in ShapedTasks /\ FoundInv(tasks[k])
  <2>1. \A k \in DOMAIN tasks : tasks[k] \in ShapedTasks /\ tasks[k] \in FoundTasks
    BY WorldTypes
  <2>2. QED
    BY <2>1 DEF FoundTasks
<1>5. ASSUME NEW i \in DOMAIN tasks'
      PROVE  tasks'[i] \in F
  <2>1. PICK t : t = tasks'[i]
    OBVIOUS
  <2>2. t \in Tasks
    BY <1>3, <2>1
  <2>3. FoundInv(t)'
    BY <1>4, <2>1, FoundKept
  <2>4. t \in F
    BY <1>2, <2>2, <2>3 DEF FoundTasks
  <2>5. QED
    BY <2>1, <2>4
<1>6. tasks' \in Seq(F)
  BY <1>3, <1>5, EachIsSeq
<1>7. QED
  BY <1>2, <1>6

\* The first rows stay, where no relation is added.
LEMMA RowsSame ==
  ASSUME StoreGrows, RowsInv, store'.relations = store.relations
  PROVE  RowsInv'
<1>1. ASSUME NEW i \in DOMAIN store.relations, FirstRow(i)'
      PROVE  IsUser(store.relations[i].member)'
  <2>1. FirstRow(i)
    BY <1>1 DEF FirstRow
  <2>2. PICK id : id = store.relations[i].member
    OBVIOUS
  <2>3. IsUser(id)
    BY <2>1, <2>2 DEF RowsInv
  <2>4. IsUser(id)'
    BY <2>3, NamedStays
  <2>5. QED
    BY <2>2, <2>4
<1>2. QED
  BY <1>1 DEF RowsInv

\* The messages that were there.
LEMMA MessagesStay ==
  ASSUME StoreGrows, MessagesInv, RemovedStay, Extends(author, author'),
         NEW i \in DOMAIN store.messages, NEW m, m = store.messages[i]
  PROVE  /\ m.direction = "outgoing" => IsUser(m.sender)'
         /\ m.direction = "incoming" =>
              \E from \in Origins :
                /\ WrittenBy(rooms', author', from, m.text)
                /\ IsSender(m.sender, from)'
<1>1. m = store.messages[i]
  OBVIOUS
<1>2. PICK rs : rs = rooms'
  OBVIOUS
<1>3. PICK au : au = author'
  OBVIOUS
<1>4. Extends(author, au) /\ \A r \in Rooms : rooms[r].removed => rs[r].removed
  BY <1>2, <1>3 DEF RemovedStay
<1>5. m.direction = "outgoing" => IsUser(m.sender)'
  BY <1>1, NamedStays DEF MessagesInv
<1>6. ASSUME m.direction = "incoming"
      PROVE  \E from \in Origins :
               WrittenBy(rs, au, from, m.text) /\ IsSender(m.sender, from)'
  <2>1. PICK from \in Origins :
          WrittenBy(rooms, author, from, m.text) /\ IsSender(m.sender, from)
    BY <1>1, <1>6 DEF MessagesInv
  <2>2. WrittenBy(rs, au, from, m.text)
    BY <1>4, <2>1, WrittenStays
  <2>3. IsSender(m.sender, from)'
    BY <2>1, NamedStays
  <2>4. QED
    BY <2>2, <2>3
<1>7. QED
  BY <1>2, <1>3, <1>5, <1>6

\* MessagesInv is kept by a step that stores no message.
LEMMA MessagesSame ==
  ASSUME StoreGrows, MessagesInv, RemovedStay, Extends(author, author'),
         store'.messages = store.messages
  PROVE  MessagesInv'
<1>1. PICK rs : rs = rooms'
  OBVIOUS
<1>2. PICK au : au = author'
  OBVIOUS
<1>3. ASSUME NEW i \in DOMAIN store.messages, NEW m, m = store.messages[i]
      PROVE  /\ m.direction = "outgoing" => IsUser(m.sender)'
             /\ m.direction = "incoming" =>
                  \E from \in Origins :
                    WrittenBy(rs, au, from, m.text) /\ IsSender(m.sender, from)'
  BY <1>1, <1>2, <1>3, MessagesStay
<1>4. QED
  BY <1>1, <1>2, <1>3 DEF MessagesInv, IsUser, IsSender, IsNamed

(***************************************************************************)
(* Around the io thread.                                                   *)
(***************************************************************************)
LEMMA OuterMember ==
  ASSUME TypeInv, TypeInv', StoreGrows, HeadedStay, RemovedStay,
         Extends(author, author'), MemberInv, TasksSpawned, store' = store
  PROVE  MemberInv'
<1>1. /\ RowsInv /\ FirstInv /\ MessagesInv /\ tasks \in Seq(FoundTasks)
      /\ \A t \in FreshTasks : t.at = "start"
  BY DEF MemberInv, FreshTasks
<1>2. RowsInv' /\ MessagesInv'
  BY <1>1, RowsSame, MessagesSame
<1>3. /\ DOMAIN tasks \subseteq DOMAIN tasks'
      /\ \A i \in DOMAIN tasks : tasks'[i] = tasks[i]
      /\ \A i \in DOMAIN tasks' : i \in DOMAIN tasks \/ tasks'[i] \in FreshTasks
  BY SpawnedEach
<1>4. tasks' \in Seq(FoundTasks')
  <2>1. \A t \in FreshTasks : FoundInv(t)'
    BY <1>1 DEF FoundInv
  <2>2. QED
    BY <1>1, <1>3, <2>1, FoundAfter
<1>5. FirstInv'
  <2>1. ASSUME NEW i \in DOMAIN tasks', Adds(tasks'[i])
        PROVE  \E c : /\ c = tasks'[i].chat
                      /\ Headed(c)' \/ ComesFirst(tasks', c, i)
    <3>1. i \in DOMAIN tasks /\ tasks'[i] = tasks[i]
      BY <1>1, <1>3, <2>1 DEF Adds
    <3>2. Headed(tasks[i].chat) \/ ComesFirst(tasks, tasks[i].chat, i)
      BY <1>1, <2>1, <3>1 DEF FirstInv
    <3>3. ComesFirst(tasks, tasks[i].chat, i) => ComesFirst(tasks', tasks[i].chat, i)
      BY <1>3, <3>1 DEF ComesFirst
    <3>4. QED
      BY <3>1, <3>2, <3>3 DEF HeadedStay
  <2>2. ASSUME NEW k \in DOMAIN store.chats
        PROVE  \E c : /\ c = store.chats[k].id
                      /\ Headed(c)' \/ \E j \in DOMAIN tasks' : Joins(tasks'[j], c)
    BY <1>1, <1>3 DEF FirstInv, HeadedStay
  <2>3. QED
    BY <2>1, <2>2 DEF FirstInv, Headed, HasRow, Gone
<1>6. QED
  BY <1>2, <1>4, <1>5 DEF MemberInv

(***************************************************************************)
(* A turn of the io thread: the user still comes first.                    *)
(***************************************************************************)
LEMMA TurnsIn == \A t : Turns(t) \in {1, 2, 3}
BY DEF Turns

\* One of "joined" that has its chat has one or two.
LEMMA JoinsTurns == \A t, c : Joins(t, c) => Turns(t) \in {1, 2}
BY DEF Joins, Turns

\* q loses its head, and it or another coroutine of its is put to the end.
Turned(q, q2, c) ==
  /\ Len(q) \in Nat /\ Len(q) > 0 /\ DOMAIN q = 1..Len(q)
  /\ DOMAIN q2 \subseteq 1..Len(q) /\ 1..(Len(q) - 1) \subseteq DOMAIN q2
  /\ \A i \in 1..(Len(q) - 1) : q2[i] = q[i + 1]
  /\ Joins(q[1], c) => /\ Len(q) \in DOMAIN q2 /\ Joins(q2[Len(q)], c)
                       /\ Turns(q2[Len(q)]) < Turns(q[1])

\* What came first in q comes first one place further up.
LEMMA FirstMovesUp ==
  ASSUME NEW q, NEW q2, NEW c, Turned(q, q2, c),
         NEW i \in 1..(Len(q) - 1), ComesFirst(q, c, i + 1)
  PROVE  ComesFirst(q2, c, i)
<1>1. PICK j \in DOMAIN q :
        /\ Joins(q[j], c)
        /\ \/ Turns(q[j]) < Turns(q[i + 1])
           \/ Turns(q[j]) = Turns(q[i + 1]) /\ j < i + 1
  BY DEF ComesFirst
<1>2. /\ Len(q) \in Nat /\ Len(q) > 0 /\ j \in 1..Len(q)
      /\ \A k \in 1..(Len(q) - 1) : q2[k] = q[k + 1] /\ k \in DOMAIN q2
  BY DEF Turned
<1>3. q2[i] = q[i + 1]
  BY <1>2
<1>4. CASE j = 1
  <2>1. /\ Len(q) \in DOMAIN q2 /\ Joins(q2[Len(q)], c)
        /\ Turns(q2[Len(q)]) < Turns(q[1])
    BY <1>1, <1>4 DEF Turned
  <2>2. Turns(q2[Len(q)]) < Turns(q2[i])
    BY <1>1, <1>3, <1>4, <2>1, TurnsIn
  <2>3. QED
    BY <2>1, <2>2 DEF ComesFirst
<1>5. CASE j # 1
  <2>1. PICK k \in 1..(Len(q) - 1) : k = j - 1
    BY <1>2, <1>5
  <2>2. q2[k] = q[j] /\ k \in DOMAIN q2
    BY <1>2, <2>1
  <2>3. j < i + 1 => k < i
    BY <1>2, <2>1
  <2>4. QED
    BY <1>1, <1>3, <2>2, <2>3 DEF ComesFirst
<1>6. QED
  BY <1>4, <1>5

\* Some coroutine makes the user a member, now at its last turn or before the
\* one that is put to the end.
LEMMA FirstOfLast ==
  ASSUME NEW q, NEW q2, NEW c, Turned(q, q2, c), ~Joins(q[1], c),
         Len(q) \in DOMAIN q2, NEW j \in DOMAIN q, Joins(q[j], c),
         Turns(q[j]) <= Turns(q2[Len(q)])
  PROVE  ComesFirst(q2, c, Len(q))
<1>1. Len(q) \in Nat /\ j \in 1..Len(q) /\ j # 1
  BY DEF Turned
<1>2. PICK k \in 1..(Len(q) - 1) : k = j - 1
  BY <1>1
<1>3. q2[k] = q[j] /\ k \in DOMAIN q2
  BY <1>1, <1>2 DEF Turned
<1>4. k < Len(q)
  BY <1>1, <1>2
<1>5. Turns(q[j]) < Turns(q2[Len(q)]) \/ Turns(q[j]) = Turns(q2[Len(q)])
  BY TurnsIn
<1>6. QED
  BY <1>3, <1>4, <1>5 DEF ComesFirst

\* The coroutine that makes the user a member is still there.
LEMMA JoinsTurn ==
  ASSUME NEW q, NEW q2, NEW c, Turned(q, q2, c), \E j \in DOMAIN q : Joins(q[j], c)
  PROVE  \E j \in DOMAIN q2 : Joins(q2[j], c)
<1>1. PICK j \in DOMAIN q : Joins(q[j], c)
  OBVIOUS
<1>2. Len(q) \in Nat /\ j \in 1..Len(q)
  BY DEF Turned
<1>3. CASE j = 1
  BY <1>1, <1>3 DEF Turned
<1>4. CASE j # 1
  <2>1. PICK k \in 1..(Len(q) - 1) : k = j - 1
    BY <1>2, <1>4
  <2>2. q2[k] = q[j] /\ k \in DOMAIN q2
    BY <1>2, <2>1 DEF Turned
  <2>3. QED
    BY <1>1, <2>2
<1>5. QED
  BY <1>3, <1>4

\* The queue of the coroutines.
LEMMA TurnIs ==
  ASSUME TypeInv, tasks # <<>>
  PROVE  /\ Len(tasks) \in Nat /\ Len(tasks) > 0
         /\ tasks[1] = task /\ DOMAIN tasks = 1..Len(tasks)
         /\ Ends => /\ DOMAIN tasks' = 1..(Len(tasks) - 1)
                    /\ \A i \in 1..(Len(tasks) - 1) : tasks'[i] = tasks[i + 1]
         /\ \A t : Suspend(t) =>
              /\ DOMAIN tasks' = 1..Len(tasks) /\ tasks'[Len(tasks)] = t
              /\ \A i \in 1..(Len(tasks) - 1) : tasks'[i] = tasks[i + 1]
<1>1. tasks \in Seq(ShapedTasks)
  BY WorldTypes
<1>2. /\ Len(tasks) \in Nat /\ Len(tasks) > 0
      /\ tasks[1] = task /\ DOMAIN tasks = 1..Len(tasks)
      /\ DOMAIN Tail(tasks) = 1..(Len(tasks) - 1)
      /\ \A i \in DOMAIN Tail(tasks) : Tail(tasks)[i] = tasks[i + 1]
  BY <1>1, TailIs DEF task
<1>3. ASSUME NEW t, Suspend(t)
      PROVE  /\ DOMAIN tasks' = 1..Len(tasks) /\ tasks'[Len(tasks)] = t
             /\ \A i \in 1..(Len(tasks) - 1) : tasks'[i] = tasks[i + 1]
  <2>1. PICK S : S = ShapedTasks \cup {t}
    OBVIOUS
  <2>2. tasks \in Seq(S) /\ t \in S
    BY <1>1, <2>1, SeqWider
  <2>3. QED
    BY <1>3, <2>2, RotateIs DEF Suspend
<1>4. QED
  BY <1>2, <1>3 DEF Ends

\* The head ends: a chat it made the user a member of is headed.
LEMMA FirstEnds ==
  ASSUME TypeInv, FirstInv, HeadedStay, tasks # <<>>, Ends,
         \A c : Joins(task, c) => Headed(c)',
         \A k \in DOMAIN store'.chats : \E l \in DOMAIN store.chats :
           store'.chats[k].id = store.chats[l].id
  PROVE  FirstInv'
<1>1. /\ Len(tasks) \in Nat /\ Len(tasks) > 0 /\ DOMAIN tasks = 1..Len(tasks)
      /\ tasks[1] = task
      /\ DOMAIN tasks' = 1..(Len(tasks) - 1)
      /\ \A i \in 1..(Len(tasks) - 1) : tasks'[i] = tasks[i + 1]
  BY TurnIs
<1>2. \A c : Headed(c)' \/ (Turned(tasks, tasks', c) /\ ~Headed(c))
  <2>1. ASSUME NEW c, ~Headed(c)'
        PROVE  Turned(tasks, tasks', c) /\ ~Headed(c)
    <3>1. ~Joins(tasks[1], c) /\ ~Headed(c)
      BY <1>1, <2>1 DEF HeadedStay
    <3>2. 1..(Len(tasks) - 1) \subseteq 1..Len(tasks)
      BY <1>1
    <3>3. QED
      BY <1>1, <3>1, <3>2 DEF Turned
  <2>2. QED
    BY <2>1
<1>3. ASSUME NEW i \in DOMAIN tasks', Adds(tasks'[i])
      PROVE  \E c : /\ c = tasks'[i].chat
                    /\ Headed(c)' \/ ComesFirst(tasks', c, i)
  <2>1. PICK c : c = tasks'[i].chat
    OBVIOUS
  <2>2. tasks'[i] = tasks[i + 1] /\ i + 1 \in DOMAIN tasks
        /\ i \in 1..(Len(tasks) - 1)
    BY <1>1
  <2>3. Headed(c) \/ ComesFirst(tasks, c, i + 1)
    BY <1>3, <2>1, <2>2 DEF FirstInv
  <2>4. QED
    BY <1>2, <2>1, <2>2, <2>3, FirstMovesUp
<1>4. ASSUME NEW k \in DOMAIN store'.chats
      PROVE  \E c : /\ c = store'.chats[k].id
                    /\ Headed(c)' \/ \E j \in DOMAIN tasks' : Joins(tasks'[j], c)
  <2>1. PICK l \in DOMAIN store.chats : store'.chats[k].id = store.chats[l].id
    OBVIOUS
  <2>2. PICK c : c = store.chats[l].id
    OBVIOUS
  <2>3. Headed(c) \/ \E j \in DOMAIN tasks : Joins(tasks[j], c)
    BY <2>2 DEF FirstInv
  <2>4. QED
    BY <1>2, <2>1, <2>2, <2>3, JoinsTurn
<1>5. QED
  BY <1>3, <1>4 DEF FirstInv, Headed, HasRow, Gone

\* The head goes on as t.
LEMMA FirstGoesOn ==
  ASSUME TypeInv, FirstInv, HeadedStay, tasks # <<>>, NEW t, Suspend(t),
         \A c : Joins(task, c) => Joins(t, c) /\ Turns(t) < Turns(task),
         Adds(t) =>
           \/ Headed(t.chat)'
           \/ Adds(task) /\ t.chat = task.chat /\ Turns(task) = Turns(t) + 1
           \/ Turns(t) = 3 /\ ~Joins(task, t.chat)
              /\ \E k \in DOMAIN store.chats : store.chats[k].id = t.chat,
         \A k \in DOMAIN store'.chats :
           \/ \E l \in DOMAIN store.chats : store'.chats[k].id = store.chats[l].id
           \/ Joins(t, store'.chats[k].id)
  PROVE  FirstInv'
<1>1. /\ Len(tasks) \in Nat /\ Len(tasks) > 0 /\ DOMAIN tasks = 1..Len(tasks)
      /\ tasks[1] = task
      /\ DOMAIN tasks' = 1..Len(tasks) /\ tasks'[Len(tasks)] = t
      /\ \A i \in 1..(Len(tasks) - 1) : tasks'[i] = tasks[i + 1]
  BY TurnIs
<1>2. \A c : Turned(tasks, tasks', c)
  <2>1. ASSUME NEW c
        PROVE  Turned(tasks, tasks', c)
    <3>1. 1..(Len(tasks) - 1) \subseteq 1..Len(tasks) /\ Len(tasks) \in 1..Len(tasks)
      BY <1>1
    <3>2. QED
      BY <1>1, <3>1 DEF Turned
  <2>2. QED
    BY <2>1
<1>3. \A c : Headed(c) => Headed(c)'
  BY DEF HeadedStay
<1>4. ASSUME NEW i \in DOMAIN tasks', Adds(tasks'[i])
      PROVE  \E c : /\ c = tasks'[i].chat
                    /\ Headed(c)' \/ ComesFirst(tasks', c, i)
  <2>1. PICK c : c = tasks'[i].chat
    OBVIOUS
  <2>2. CASE i # Len(tasks)
    <3>1. tasks'[i] = tasks[i + 1] /\ i + 1 \in DOMAIN tasks
          /\ i \in 1..(Len(tasks) - 1)
      BY <1>1, <2>2
    <3>2. Headed(c) \/ ComesFirst(tasks, c, i + 1)
      BY <1>4, <2>1, <3>1 DEF FirstInv
    <3>3. QED
      BY <1>2, <1>3, <2>1, <3>1, <3>2, FirstMovesUp
  <2>3. CASE i = Len(tasks)
    <3>1. tasks'[i] = t /\ Adds(t) /\ c = t.chat
      BY <1>1, <1>4, <2>1, <2>3
    <3>2. ASSUME Adds(task), c = task.chat, Turns(task) = Turns(t) + 1, ~Headed(c)
          PROVE  ComesFirst(tasks', c, i)
      <4>1. ComesFirst(tasks, c, 1)
        BY <1>1, <3>2 DEF FirstInv
      <4>2. PICK j \in DOMAIN tasks :
              /\ Joins(tasks[j], c)
              /\ \/ Turns(tasks[j]) < Turns(tasks[1])
                 \/ Turns(tasks[j]) = Turns(tasks[1]) /\ j < 1
        BY <4>1 DEF ComesFirst
      <4>3. Turns(tasks[j]) <= Turns(t)
        BY <1>1, <3>2, <4>2, TurnsIn
      <4>4. ~Joins(tasks[1], c)
        BY <1>1, <3>2 DEF Adds, Joins
      <4>5. QED
        BY <1>1, <1>2, <2>3, <3>1, <4>2, <4>3, <4>4, FirstOfLast
    <3>3. ASSUME Turns(t) = 3, ~Joins(task, c), ~Headed(c),
                 NEW k \in DOMAIN store.chats, store.chats[k].id = c
          PROVE  ComesFirst(tasks', c, i)
      <4>1. PICK j \in DOMAIN tasks : Joins(tasks[j], c)
        BY <3>3 DEF FirstInv
      <4>2. Turns(tasks[j]) <= Turns(t)
        BY <3>3, <4>1, JoinsTurns
      <4>3. QED
        BY <1>1, <1>2, <2>3, <3>1, <3>3, <4>1, <4>2, FirstOfLast
    <3>4. Headed(c) \/ Headed(c)' \/ ComesFirst(tasks', c, i)
      BY <3>1, <3>2, <3>3
    <3>5. QED
      BY <1>3, <2>1, <3>4
  <2>4. QED
    BY <2>2, <2>3
<1>5. ASSUME NEW k \in DOMAIN store'.chats
      PROVE  \E c : /\ c = store'.chats[k].id
                    /\ Headed(c)' \/ \E j \in DOMAIN tasks' : Joins(tasks'[j], c)
  <2>1. PICK c : c = store'.chats[k].id
    OBVIOUS
  <2>2. CASE Joins(t, c)
    <3>1. Joins(tasks'[Len(tasks)], c) /\ Len(tasks) \in DOMAIN tasks'
      BY <1>1, <2>2
    <3>2. QED
      BY <2>1, <3>1
  <2>3. ASSUME NEW l \in DOMAIN store.chats, c = store.chats[l].id
        PROVE  Headed(c)' \/ \E j \in DOMAIN tasks' : Joins(tasks'[j], c)
    <3>1. Headed(c) \/ \E j \in DOMAIN tasks : Joins(tasks[j], c)
      BY <2>3 DEF FirstInv
    <3>2. QED
      BY <1>2, <1>3, <3>1, JoinsTurn
  <2>4. QED
    BY <2>1, <2>2, <2>3
<1>6. QED
  BY <1>4, <1>5 DEF FirstInv, Headed, HasRow, Gone

(***************************************************************************)
(* The io thread, call by call.                                            *)
(***************************************************************************)
LEMMA IoMember ==
  ASSUME TypeInv, TypeInv', StoreGrows, HeadedStay, MemberInv, tasks # <<>>,
         RowsInv', FirstInv', MessagesInv',
         Ends \/ \E t : Suspend(t) /\ FoundInv(t)'
  PROVE  MemberInv'
<1>1. tasks \in Seq(FoundTasks)
  BY DEF MemberInv
<1>2. /\ Len(tasks) \in Nat /\ DOMAIN tasks = 1..Len(tasks)
      /\ \A i \in 1..(Len(tasks) - 1) : i + 1 \in DOMAIN tasks
  BY TurnIs
<1>3. CASE Ends
  BY <1>1, <1>2, <1>3, TurnIs, FoundAfter DEF MemberInv
<1>4. ASSUME NEW t, Suspend(t), FoundInv(t)'
      PROVE  MemberInv'
  <2>1. /\ DOMAIN tasks' = 1..Len(tasks) /\ tasks'[Len(tasks)] = t
        /\ \A i \in 1..(Len(tasks) - 1) : tasks'[i] = tasks[i + 1]
    BY <1>4, TurnIs
  <2>2. \A i \in DOMAIN tasks' : i \in 1..(Len(tasks) - 1) \/ i = Len(tasks)
    BY <1>2, <2>1
  <2>3. \A i \in DOMAIN tasks' : (\E k \in DOMAIN tasks : tasks'[i] = tasks[k])
                                 \/ tasks'[i] = t
    BY <1>2, <2>1, <2>2
  <2>4. QED
    BY <1>1, <1>4, <2>3, FoundAfter DEF MemberInv
<1>5. QED
  BY <1>3, <1>4

\* A turn that only reads.
LEMMA ReadsMember ==
  ASSUME TypeInv, TypeInv', StoreGrows, HeadedStay, MemberInv, tasks # <<>>,
         UNCHANGED <<rooms, author, store, nextId>>, \A c : ~Joins(task, c),
         \/ Ends
         \/ \E t : /\ Suspend(t) /\ FoundInv(t)
                   /\ Adds(t) =>
                        \/ Headed(t.chat)
                        \/ /\ Adds(task) /\ t.chat = task.chat
                           /\ Turns(task) = Turns(t) + 1
                        \/ /\ Turns(t) = 3
                           /\ \E k \in DOMAIN store.chats :
                                store.chats[k].id = t.chat
  PROVE  MemberInv'
<1>1. RemovedStay /\ Extends(author, author')
  BY DEF RemovedStay, Extends
<1>2. RowsInv' /\ MessagesInv' /\ FirstInv
  BY <1>1, RowsSame, MessagesSame DEF MemberInv
<1>3. CASE Ends
  BY <1>2, <1>3, FirstEnds, IoMember
<1>4. ASSUME NEW t, Suspend(t), FoundInv(t),
             Adds(t) =>
               \/ Headed(t.chat)
               \/ /\ Adds(task) /\ t.chat = task.chat
                  /\ Turns(task) = Turns(t) + 1
               \/ /\ Turns(t) = 3
                  /\ \E k \in DOMAIN store.chats : store.chats[k].id = t.chat
      PROVE  MemberInv'
  <2>1. FoundInv(t)'
    BY <1>4 DEF FoundInv, IsUser, IsSender, IsNamed, Headed, HasRow, Gone
  <2>2. Headed(t.chat) => Headed(t.chat)'
    BY DEF HeadedStay
  <2>3. FirstInv'
    BY <1>2, <1>4, <2>2, FirstGoesOn
  <2>4. QED
    BY <1>2, <1>4, <2>1, <2>3, IoMember
<1>5. QED
  BY <1>3, <1>4

\* A coroutine starts.
LEMMA BeginMember ==
  ASSUME TypeInv, TypeInv', StoreGrows, HeadedStay, MemberInv, tasks # <<>>,
         UNCHANGED <<rooms, author>>, Begin
  PROVE  MemberInv'
<1>1. /\ task.at = "start" /\ UNCHANGED <<store, nextId>>
      /\ \E a \in {"chats", "chat", "remove"} : Suspend([task EXCEPT !.at = a])
  BY TaskTypes DEF Begin, Goto
<1>2. PICK a \in {"chats", "chat", "remove"} : Suspend([task EXCEPT !.at = a])
  BY <1>1
<1>3. PICK t : t = [task EXCEPT !.at = a]
  OBVIOUS
<1>4. t.at = a
  BY <1>3, TaskTypes DEF Tasks, SendTasks, IncomingTasks, JoinedTasks,
     JoiningTasks, LeaveTasks, RemoveTasks
<1>5. FoundInv(t) /\ ~Adds(t) /\ \A c : ~Joins(task, c)
  BY <1>1, <1>4 DEF FoundInv, Adds, Joins
<1>6. QED
  BY <1>1, <1>2, <1>3, <1>5, ReadsMember

\* The chats of its room are looked up.
LEMMA FindRoomMember ==
  ASSUME TypeInv, TypeInv', StoreGrows, HeadedStay, MemberInv, tasks # <<>>,
         UNCHANGED <<rooms, author>>, FindRoom
  PROVE  MemberInv'
<1>1. PICK k : k = Min(ChatsOf(store, task.room))
  OBVIOUS
<1>2. PICK chat : chat = store.chats[k].id
  OBVIOUS
<1>3. /\ task.at = "chats" /\ UNCHANGED <<store, nextId>>
      /\ \/ Ends
         \/ /\ ChatsOf(store, task.room) # {} /\ task.op = "incoming"
            /\ Suspend([task EXCEPT !.at = "relations", !.chat = chat])
         \/ /\ ChatsOf(store, task.room) # {} /\ task.op = "joined"
            /\ Suspend([task EXCEPT !.at = "member", !.chat = chat])
         \/ task.op = "joined" /\ Suspend([task EXCEPT !.at = "new chat"])
  BY <1>1, <1>2 DEF FindRoom, Goto, Finish, Ends
<1>4. \A c : ~Joins(task, c)
  BY <1>3 DEF Joins
<1>5. CASE Ends
  BY <1>3, <1>4, <1>5, ReadsMember
<1>6. CASE /\ ChatsOf(store, task.room) # {} /\ task.op = "incoming"
           /\ Suspend([task EXCEPT !.at = "relations", !.chat = chat])
  <2>1. PICK t : t = [task EXCEPT !.at = "relations", !.chat = chat]
    OBVIOUS
  <2>2. t.op = "incoming" /\ t.at = "relations" /\ t.chat = chat
    BY <1>6, <2>1, TaskTypes DEF IncomingTasks
  <2>3. k \in DOMAIN store.chats /\ store.chats[k].id = t.chat
    BY <1>1, <1>2, <1>6, <2>2, ChatFound
  <2>4. FoundInv(t) /\ Turns(t) = 3
    BY <2>2 DEF FoundInv, Turns
  <2>5. QED
    BY <1>3, <1>4, <1>6, <2>1, <2>3, <2>4, ReadsMember
<1>7. ASSUME NEW t, task.op = "joined", Suspend(t),
             \/ /\ ChatsOf(store, task.room) # {}
                /\ t = [task EXCEPT !.at = "member", !.chat = chat]
             \/ t = [task EXCEPT !.at = "new chat"]
      PROVE  MemberInv'
  <2>1. /\ t.op = "joined"
        /\ \/ t.at = "new chat"
           \/ ChatsOf(store, task.room) # {} /\ t.at = "member" /\ t.chat = chat
    BY <1>3, <1>7, TaskAt DEF JoinedTasks
  <2>2. ChatsOf(store, task.room) # {} => chat < nextId
    BY <1>1, <1>2, ChatFound DEF TypeInv, IdsFresh
  <2>3. FoundInv(t) /\ ~Adds(t)
    BY <2>1, <2>2 DEF FoundInv, Adds
  <2>4. QED
    BY <1>3, <1>4, <1>7, <2>3, ReadsMember
<1>8. QED
  BY <1>3, <1>5, <1>6, <1>7

\* Its chat is looked up.
LEMMA FindChatMember ==
  ASSUME TypeInv, TypeInv', StoreGrows, HeadedStay, MemberInv, tasks # <<>>,
         UNCHANGED <<rooms, author>>, FindChat
  PROVE  MemberInv'
<1>1. PICK room : room = GetChatById(store, task.chat).room
  OBVIOUS
<1>2. /\ task.at = "chat" /\ UNCHANGED <<store, nextId>>
      /\ \/ Ends
         \/ /\ task.op = "send"
            /\ Suspend([task EXCEPT !.at = "relations", !.room = room])
  BY <1>1 DEF FindChat, Finish, Ends
<1>3. \A c : ~Joins(task, c)
  BY <1>2 DEF Joins
<1>4. CASE Ends
  BY <1>2, <1>3, <1>4, ReadsMember
<1>5. CASE /\ task.op = "send"
           /\ Suspend([task EXCEPT !.at = "relations", !.room = room])
  <2>1. PICK t : t = [task EXCEPT !.at = "relations", !.room = room]
    OBVIOUS
  <2>2. t.op = "send" /\ t.at = "relations"
    BY <1>5, <2>1, TaskTypes DEF SendTasks
  <2>3. FoundInv(t) /\ ~Adds(t)
    BY <2>2 DEF FoundInv, Adds
  <2>4. QED
    BY <1>2, <1>3, <1>5, <2>1, <2>3, ReadsMember
<1>6. QED
  BY <1>2, <1>4, <1>5

\* The members of the chat have been read; the first of them is the user.
LEMMA ResolvedMember ==
  ASSUME TypeInv, TypeInv', StoreGrows, HeadedStay, MemberInv, tasks # <<>>,
         UNCHANGED <<rooms, author, store, nextId>>,
         task.at \in {"relations", "lookup"}, task.op \in {"send", "incoming"},
         NEW members \in Seq(MemberRows), Resolved(members),
         \A i \in DOMAIN members :
           \E k \in DOMAIN store.members : store.members[k] = members[i],
         task.op = "send" /\ members # <<>> => members[1].name = [user |-> Me],
         task.op = "incoming" => task.at = "relations" \/ Headed(task.chat)
  PROVE  MemberInv'
<1>1. \A c : ~Joins(task, c)
  BY DEF Joins
<1>2. CASE Ends
  BY <1>1, <1>2, ReadsMember
<1>3. DOMAIN members = 1..Len(members) /\ Len(members) \in Nat
  OBVIOUS
<1>4. CASE task.op = "send" /\ ~Ends
  <2>1. PICK id : id = members[1].id
    OBVIOUS
  <2>2. PICK t : t = [task EXCEPT !.at = "message", !.left = <<>>, !.found = <<id>>]
    OBVIOUS
  <2>3. members # <<>> /\ Suspend(t)
    BY <1>4, <2>1, <2>2 DEF Resolved, Finish, Ends
  <2>4. t.op = "send" /\ t.at = "message" /\ t.found[1] = id
    BY <1>4, <2>2, TaskTypes DEF SendTasks
  <2>5. 1 \in DOMAIN members
    BY <1>3, <2>3
  <2>6. IsUser(id)
    BY <1>4, <2>1, <2>3, <2>5 DEF IsUser, IsNamed
  <2>7. FoundInv(t) /\ ~Adds(t)
    BY <2>4, <2>6 DEF FoundInv, Adds
  <2>8. QED
    BY <1>1, <2>3, <2>7, ReadsMember
<1>5. CASE task.op = "incoming" /\ ~Ends
  <2>1. PICK name : name = NameOf(task.room, task.from)
    OBVIOUS
  <2>2. name \in NamesOf(task.from)
    BY <2>1 DEF NameOf, NamesOf
  <2>3. PICK same : same = {i \in DOMAIN members : members[i].name = name}
    OBVIOUS
  <2>4. task \in IncomingTasks
    BY <1>5, TaskTypes
  <2>5. CASE same = {}
    <3>1. PICK t : t = [task EXCEPT !.at = "member", !.left = <<>>, !.found = <<>>,
                                    !.name = name]
      OBVIOUS
    <3>2. Suspend(t)
      BY <1>5, <2>1, <2>3, <2>5, <3>1 DEF Resolved
    <3>3. /\ t.op = "incoming" /\ t.at = "member" /\ t.name = name
          /\ t.chat = task.chat /\ t.from = task.from
      BY <2>4, <3>1 DEF IncomingTasks
    <3>4. FoundInv(t)
      BY <2>2, <3>3 DEF FoundInv
    <3>5. task.at = "relations" => Adds(task) /\ Turns(task) = Turns(t) + 1
      BY <1>5, <3>3 DEF Adds, Turns
    <3>6. QED
      BY <1>1, <1>5, <3>2, <3>3, <3>4, <3>5, ReadsMember
  <2>6. CASE same # {}
    <3>1. PICK i : i = Min(same)
      OBVIOUS
    <3>2. i \in DOMAIN members /\ members[i].name = name
      <4>1. same \subseteq Nat
        BY <1>3, <2>3
      <4>2. i \in same
        BY <2>6, <3>1, <4>1, MinOf
      <4>3. QED
        BY <2>3, <4>2
    <3>3. PICK id : id = members[i].id
      OBVIOUS
    <3>4. PICK t : t = [task EXCEPT !.at = "message", !.left = <<>>,
                                    !.found = <<id>>]
      OBVIOUS
    <3>5. Suspend(t)
      BY <1>5, <2>1, <2>3, <2>6, <3>1, <3>3, <3>4 DEF Resolved
    <3>6. /\ t.op = "incoming" /\ t.at = "message" /\ t.found[1] = id
          /\ t.from = task.from
      BY <2>4, <3>4 DEF IncomingTasks
    <3>7. IsNamed(id, name)
      BY <3>2, <3>3 DEF IsNamed
    <3>8. FoundInv(t) /\ ~Adds(t)
      BY <2>2, <3>6, <3>7 DEF FoundInv, IsSender, Adds
    <3>9. QED
      BY <1>1, <3>5, <3>8, ReadsMember
  <2>7. QED
    BY <2>5, <2>6
<1>6. QED
  BY <1>2, <1>4, <1>5

\* The relations of its chat are read.
LEMMA ReadRelationsMember ==
  ASSUME TypeInv, TypeInv', StoreGrows, HeadedStay, MemberInv, tasks # <<>>,
         UNCHANGED <<rooms, author>>, ReadRelations
  PROVE  MemberInv'
<1>1. PICK read : read = RelationsOfChat(store, task.chat)
  OBVIOUS
<1>2. /\ task.at = "relations" /\ task.op \in {"send", "incoming"}
      /\ UNCHANGED <<store, nextId>>
      /\ \/ read = <<>> /\ Resolved(<<>>)
         \/ read # <<>> /\ Suspend([task EXCEPT !.at = "lookup", !.left = read])
  BY <1>1, TaskAt DEF ReadRelations
<1>3. CASE read = <<>> /\ Resolved(<<>>)
  <2>1. PICK none \in Seq(MemberRows) : none = <<>> /\ DOMAIN none = {}
    BY EmptyIs
  <2>2. Resolved(none)
    BY <1>3, <2>1
  <2>3. QED
    BY <1>2, <2>1, <2>2, ResolvedMember
<1>4. CASE read # <<>> /\ Suspend([task EXCEPT !.at = "lookup", !.left = read])
  <2>1. PICK t : t = [task EXCEPT !.at = "lookup", !.left = read]
    OBVIOUS
  <2>2. /\ t.op = task.op /\ t.at = "lookup" /\ t.left = read
        /\ t.found = task.found /\ t.chat = task.chat
    <3>1. task \in SendTasks \/ task \in IncomingTasks
      BY <1>2, TaskTypes
    <3>2. QED
      BY <2>1, <3>1 DEF SendTasks, IncomingTasks
  <2>3. task.found = <<>>
    BY <1>2, TaskTypes DEF TaskShape, Idle
  <2>4. PICK of : of = OfChat(store.relations, task.chat)
    OBVIOUS
  <2>5. PICK at : Follows(store.relations, of, read, at)
    BY <1>1, <2>4, RelationsRead
  <2>6. read \in Seq(RelationRows)
    BY <1>1, RelationsRead
  <2>7. /\ 1 \in DOMAIN read /\ DOMAIN read = 1..Len(read) /\ Len(read) \in Nat
        /\ Head(read) = read[1]
    BY <1>4, <2>6
  <2>8. PICK k : k = at[1]
    OBVIOUS
  <2>9. /\ k \in of /\ Head(read) = store.relations[k]
        /\ \A j \in of : k = j \/ k < j
    <3>1. \A i \in DOMAIN read : i = 1 \/ 1 < i
      BY <2>7
    <3>2. QED
      BY <2>5, <2>7, <2>8, <3>1 DEF Follows
  <2>10. /\ \A j \in DOMAIN store.relations :
              store.relations[j].chat = task.chat => j \in of
         /\ k \in DOMAIN store.relations /\ store.relations[k].chat = task.chat
         /\ \A j \in of : k <= j
    <3>1. of \subseteq Nat
      BY <2>4, StoreTypes DEF OfChat, TypeInv
    <3>2. QED
      BY <2>4, <2>9, <3>1 DEF OfChat
  <2>11. FirstRow(k)
    BY <2>10 DEF FirstRow
  <2>12. IsUser(Head(read).member) /\ Headed(t.chat)
    BY <2>2, <2>9, <2>10, <2>11 DEF MemberInv, RowsInv, Headed, HasRow
  <2>13. FoundInv(t) /\ ~Adds(t) /\ \A c : ~Joins(task, c)
    BY <1>2, <2>2, <2>3, <2>12 DEF FoundInv, Adds, Joins
  <2>14. QED
    BY <1>2, <1>4, <2>1, <2>13, ReadsMember
<1>5. QED
  BY <1>2, <1>3, <1>4

\* A member is found by its id.
LEMMA UserFound ==
  ASSUME TypeInv, NEW id, NEW name, IsNamed(id, name)
  PROVE  \E i \in DOMAIN store.members :
           /\ ById(store.members, id) = <<store.members[i]>>
           /\ store.members[i].name = name
<1>1. PICK k \in DOMAIN store.members :
        store.members[k].id = id /\ store.members[k].name = name
  BY DEF IsNamed
<1>2. Has(store.members, id)
  BY <1>1 DEF Has
<1>3. PICK i \in DOMAIN store.members :
        store.members[i].id = id /\ ById(store.members, id) = <<store.members[i]>>
  BY <1>2, RowFound, StoreTypes DEF TypeInv
<1>4. i = k
  BY <1>1, <1>3 DEF TypeInv, IdsFresh
<1>5. QED
  BY <1>1, <1>3, <1>4

\* A member of its chat is read.
LEMMA LookUpMemberMember ==
  ASSUME TypeInv, TypeInv', StoreGrows, HeadedStay, MemberInv, tasks # <<>>,
         UNCHANGED <<rooms, author>>, LookUpMember
  PROVE  MemberInv'
<1>1. PICK rest : rest = Tail(task.left)
  OBVIOUS
<1>2. PICK id : id = Head(task.left).member
  OBVIOUS
<1>3. PICK found : found = task.found \o ById(store.members, id)
  OBVIOUS
<1>4. /\ task.at = "lookup" /\ task.op \in {"send", "incoming"}
      /\ UNCHANGED <<store, nextId>>
      /\ \/ Resolved(found)
         \/ Suspend([task EXCEPT !.left = rest, !.found = found])
  BY <1>1, <1>2, <1>3, TaskAt DEF LookUpMember
<1>5. FoundInv(task)
  BY TailIs DEF MemberInv, FoundTasks, task
<1>6. Looking(task)
  BY <1>4, TaskTypes DEF TaskShape
<1>7. /\ found \in Seq(MemberRows)
      /\ \A i \in DOMAIN found :
           \E k \in DOMAIN store.members : store.members[k] = found[i]
  <2>1. PICK s \in Seq(MemberRows) :
          /\ s = task.found
          /\ \A i \in DOMAIN s :
               \E k \in DOMAIN store.members : store.members[k] = s[i]
    BY <1>6 DEF Looking
  <2>2. QED
    BY ZenonT(30), <1>3, <2>1, FoundMore
<1>8. task.op = "send" => found # <<>> /\ found[1].name = [user |-> Me]
  <2>1. CASE task.op = "send" /\ task.found = <<>>
    <3>1. IsUser(id)
      BY <1>1, <1>2, <1>4, <1>5, <2>1 DEF FoundInv
    <3>2. PICK i \in DOMAIN store.members :
            /\ ById(store.members, id) = <<store.members[i]>>
            /\ store.members[i].name = [user |-> Me]
      BY <3>1, UserFound DEF IsUser
    <3>3. found = <<store.members[i]>>
      BY <1>3, <2>1, <3>2
    <3>4. QED
      BY <3>2, <3>3
  <2>2. CASE task.op = "send" /\ task.found # <<>>
    <3>1. task.found[1].name = [user |-> Me]
      BY <1>4, <1>5, <2>2 DEF FoundInv
    <3>2. PICK s \in Seq(MemberRows) : s = task.found
      BY <1>6 DEF Looking
    <3>3. PICK more \in Seq(MemberRows) : more = ById(store.members, id)
      <4>1. store.members \in Seq(MemberRows)
        BY StoreTypes DEF TypeInv
      <4>2. ById(store.members, id) = <<>>
            \/ \E i \in DOMAIN store.members :
                 ById(store.members, id) = <<store.members[i]>>
        BY <4>1, RowFound
      <4>3. \A i \in DOMAIN store.members :
              <<store.members[i]>> \in Seq(MemberRows)
        <5>1. \A i \in DOMAIN store.members : store.members[i] \in MemberRows
          BY <4>1
        <5>2. QED
          BY <5>1
      <4>4. QED
        BY <4>2, <4>3, EmptyIs
    <3>4. found = s \o more /\ s # <<>>
      BY <1>3, <2>2, <3>2, <3>3
    <3>5. 1 \in DOMAIN s /\ (s \o more)[1] = s[1] /\ s \o more # <<>>
      BY <3>4
    <3>6. QED
      BY <3>1, <3>2, <3>4, <3>5
  <2>3. QED
    BY <2>1, <2>2
<1>9. task.op = "incoming" => Headed(task.chat)
  BY <1>4, <1>5 DEF FoundInv
<1>10. CASE Resolved(found)
  BY <1>4, <1>7, <1>8, <1>9, <1>10, ResolvedMember
<1>11. CASE Suspend([task EXCEPT !.left = rest, !.found = found])
  <2>1. PICK t : t = [task EXCEPT !.left = rest, !.found = found]
    OBVIOUS
  <2>2. t.op = task.op /\ t.at = "lookup" /\ t.found = found /\ t.chat = task.chat
    <3>1. task \in SendTasks \/ task \in IncomingTasks
      BY <1>4, TaskTypes
    <3>2. QED
      BY <1>4, <2>1, <3>1 DEF SendTasks, IncomingTasks
  <2>3. FoundInv(t) /\ ~Adds(t) /\ \A c : ~Joins(task, c)
    BY <1>4, <1>8, <1>9, <2>2 DEF FoundInv, Adds, Joins
  <2>4. QED
    BY <1>4, <1>11, <2>1, <2>3, ReadsMember
<1>12. QED
  BY <1>4, <1>10, <1>11

\* A chat is added: the coroutine makes the user its member later.
LEMMA NewChatMember ==
  ASSUME TypeInv, TypeInv', StoreGrows, HeadedStay, MemberInv, tasks # <<>>,
         UNCHANGED <<rooms, author>>, NewChat
  PROVE  MemberInv'
<1>1. PICK t : t = [task EXCEPT !.at = "member", !.chat = nextId]
  OBVIOUS
<1>2. /\ task.at = "new chat" /\ task.op = "joined" /\ task \in JoinedTasks
      /\ Suspend(t) /\ nextId' = nextId + 1
      /\ store' = AddChat(store, [id |-> nextId, room |-> task.room])
  BY <1>1, TaskAt DEF NewChat
<1>3. task.room \in Rooms
  BY <1>2 DEF JoinedTasks
<1>4. /\ Added(store.chats, store'.chats, [id |-> nextId, room |-> task.room])
      /\ store'.relations = store.relations /\ store'.messages = store.messages
  BY <1>2, <1>3, ChatAdded
<1>5. t.op = "joined" /\ t.at = "member" /\ t.chat = nextId
  BY <1>1, <1>2 DEF JoinedTasks
<1>6. RowsInv' /\ MessagesInv'
  BY <1>4, RowsSame, MessagesSame DEF MemberInv, RemovedStay, Extends
<1>7. FoundInv(t)' /\ ~Adds(t) /\ Joins(t, nextId) /\ \A c : ~Joins(task, c)
  <2>1. nextId < nextId'
    <3>1. nextId \in Nat
      BY DEF TypeInv, StoreTypeOK
    <3>2. nextId' = nextId + 1
      BY <1>2
    <3>3. QED
      BY <3>1, <3>2
  <2>2. t.chat < nextId' /\ t.at # "relation" /\ t.op # "send" /\ t.op # "incoming"
    BY <1>5, <2>1
  <2>3. FoundInv(t)'
    BY <2>2 DEF FoundInv
  <2>4. \A c : ~Joins(task, c)
    BY <1>2 DEF Joins
  <2>5. QED
    BY <1>5, <2>3, <2>4 DEF Adds, Joins
<1>8. ASSUME NEW k \in DOMAIN store'.chats
      PROVE  \/ \E l \in DOMAIN store.chats :
                  store'.chats[k].id = store.chats[l].id
             \/ Joins(t, store'.chats[k].id)
  BY <1>4, <1>7 DEF Added
<1>9. FirstInv'
  BY <1>2, <1>7, <1>8, FirstGoesOn DEF MemberInv
<1>10. QED
  BY <1>2, <1>6, <1>7, <1>9, IoMember

\* The row of a table that is added.
LEMMA AddedRow ==
  ASSUME NEW s, NEW t, NEW row, Added(s, t, row)
  PROVE  \E i \in DOMAIN t : t[i] = row
BY DEF Added

\* A member is added, which no chat has yet.
LEMMA NewMemberMember ==
  ASSUME TypeInv, TypeInv', StoreGrows, HeadedStay, MemberInv, tasks # <<>>,
         UNCHANGED <<rooms, author>>, NewMember
  PROVE  MemberInv'
<1>1. PICK id : id = nextId
  OBVIOUS
<1>2. PICK name : name = IF task.op = "joined" THEN [user |-> Me] ELSE task.name
  OBVIOUS
<1>3. /\ task.at = "member" /\ task.op \in {"incoming", "joined"}
      /\ task.op = "joined" => task \in JoinedTasks
      /\ task.op = "incoming" => task \in IncomingTasks /\ task.name \in Names
      /\ nextId' = nextId + 1
      /\ store' = AddMember(store, [id |-> nextId, name |-> name])
  BY <1>2, TaskAt, TaskTypes DEF NewMember, TaskShape
<1>4. name \in Names
  BY <1>2, <1>3 DEF Names
<1>5. PICK row : row = [id |-> nextId, name |-> name]
  OBVIOUS
<1>6. /\ Added(store.members, store'.members, row)
      /\ store'.relations = store.relations /\ store'.messages = store.messages
      /\ store'.chats = store.chats
  BY <1>3, <1>4, <1>5, MemberAdded
<1>7. IsNamed(id, name)'
  <2>1. PICK i \in DOMAIN store'.members : store'.members[i] = row
    BY <1>6, AddedRow
  <2>2. store'.members[i].id = id /\ store'.members[i].name = name
    BY <1>1, <1>5, <2>1
  <2>3. QED
    BY <2>2 DEF IsNamed
<1>8. RowsInv' /\ MessagesInv' /\ FirstInv
  BY <1>6, RowsSame, MessagesSame DEF MemberInv, RemovedStay, Extends
<1>9. CASE task.op = "joined"
  <2>1. PICK t : t = [op |-> "joined", at |-> "relation", room |-> task.room,
                      chat |-> task.chat, member |-> id]
    OBVIOUS
  <2>2. Suspend(t)
    BY <1>1, <1>9, <2>1 DEF NewMember
  <2>3. /\ t.op = "joined" /\ t.at = "relation" /\ t.chat = task.chat
        /\ t.member = id
    BY <2>1
  <2>4. IsUser(id)'
    BY <1>2, <1>7, <1>9 DEF IsUser
  <2>5. FoundInv(t)' /\ ~Adds(t)
    <3>1. FoundInv(task)
      BY TailIs DEF MemberInv, FoundTasks, task
    <3>2. task.chat \in Nat /\ task.chat < nextId
      BY <1>3, <1>9, <3>1, TaskTypes DEF FoundInv, TaskShape
    <3>3. t.chat < nextId'
      BY <1>3, <2>3, <3>2, StoreTypes DEF TypeInv
    <3>4. QED
      BY <2>3, <2>4, <3>3 DEF FoundInv, Adds
  <2>6. \A c : Joins(task, c) => Joins(t, c) /\ Turns(t) < Turns(task)
    BY <1>3, <2>3 DEF Joins, Turns
  <2>7. FirstInv'
    BY <1>6, <1>8, <2>2, <2>5, <2>6, FirstGoesOn
  <2>8. QED
    BY <1>8, <2>2, <2>5, <2>7, IoMember
<1>10. CASE task.op = "incoming"
  <2>1. PICK t : t = [task EXCEPT !.at = "relation", !.found = <<id>>]
    OBVIOUS
  <2>2. Suspend(t)
    BY <1>1, <1>10, <2>1 DEF NewMember
  <2>3. /\ t.op = "incoming" /\ t.at = "relation" /\ t.chat = task.chat
        /\ t.found[1] = id /\ t.name = task.name /\ t.from = task.from
    BY <1>3, <1>10, <2>1 DEF IncomingTasks
  <2>4. FoundInv(task)
    BY TailIs DEF MemberInv, FoundTasks, task
  <2>5. name \in NamesOf(t.from) /\ t.name = name
    BY <1>2, <1>3, <1>10, <2>3, <2>4 DEF FoundInv
  <2>6. PICK from : from = t.from
    OBVIOUS
  <2>7. IsSender(id, from)'
    BY <1>7, <2>5, <2>6 DEF IsSender
  <2>8. FoundInv(t)'
    BY <2>3, <2>5, <2>6, <2>7 DEF FoundInv
  <2>9. /\ \A c : ~Joins(task, c)
        /\ Adds(task) /\ Turns(task) = Turns(t) + 1
    BY <1>3, <1>10, <2>3 DEF Joins, Adds, Turns
  <2>10. FirstInv'
    BY <1>6, <1>8, <2>2, <2>3, <2>9, FirstGoesOn
  <2>11. QED
    BY <1>8, <2>2, <2>8, <2>10, IoMember
<1>11. QED
  BY <1>3, <1>9, <1>10

\* A relation is added: to a chat with none, the user's; or it is refused.
LEMMA RowsMore ==
  ASSUME TypeInv, StoreGrows, HeadedStay, RowsInv,
         NEW chat \in Nat, NEW member \in Nat,
         nextId' = nextId, store' = AddMemberToChat(store, chat, member),
         Headed(chat) \/ (IsUser(member) /\ chat < nextId)
  PROVE  RowsInv' /\ Headed(chat)'
<1>1. PICK row : row = [chat |-> chat, member |-> member]
  OBVIOUS
<1>2. \/ /\ HasRelation(store, chat, member) \/ ~HasBoth(store, chat, member)
         /\ store' = store
      \/ /\ HasChat(store, chat)
         /\ Added(store.relations, store'.relations, row)
  BY <1>1, RelationAdded
<1>3. CASE /\ HasRelation(store, chat, member) \/ ~HasBoth(store, chat, member)
           /\ store' = store
  <2>1. RowsInv'
    BY <1>3, RowsSame
  <2>2. HasRelation(store, chat, member) => HasRow(chat)
    BY DEF HasRelation, HasRow
  <2>3. IsUser(member) => HasMember(store, member)
    BY DEF IsUser, IsNamed, HasMember, Has
  <2>4. Headed(chat)
    BY <1>3, <2>2, <2>3 DEF HasBoth, Headed, Gone
  <2>5. QED
    BY <2>1, <2>4 DEF HeadedStay
<1>4. CASE HasChat(store, chat) /\ Added(store.relations, store'.relations, row)
  <2>1. PICK n \in Nat : /\ n = Len(store.relations) + 1
                         /\ DOMAIN store'.relations = DOMAIN store.relations \cup {n}
                         /\ \A i \in DOMAIN store.relations :
                              i < n /\ store'.relations[i] = store.relations[i]
                         /\ store'.relations[n] = row
    BY <1>4 DEF Added
  <2>2. Headed(chat)'
    BY <1>1, <2>1 DEF Headed, HasRow
  <2>3. ASSUME NEW i \in DOMAIN store'.relations, FirstRow(i)'
        PROVE  \E id : id = store'.relations[i].member /\ IsUser(id)'
    <3>1. CASE i \in DOMAIN store.relations
      <4>1. FirstRow(i)
        BY <2>1, <2>3, <3>1 DEF FirstRow
      <4>2. PICK id : id = store.relations[i].member
        OBVIOUS
      <4>3. IsUser(id)
        BY <3>1, <4>1, <4>2 DEF RowsInv
      <4>4. QED
        BY <2>1, <3>1, <4>2, <4>3, NamedStays
    <3>2. CASE i = n
      <4>1. store'.relations[i].chat = chat /\ store'.relations[i].member = member
        BY <1>1, <2>1, <3>2
      <4>2. ~HasRow(chat)
        <5>1. ASSUME NEW j \in DOMAIN store.relations,
                     store.relations[j].chat = chat
              PROVE  FALSE
          <6>1. j \in DOMAIN store'.relations /\ store'.relations[j].chat = chat
                /\ j < n /\ j \in Nat
            BY <2>1, <5>1, StoreTypes DEF TypeInv
          <6>2. i <= j
            BY <2>3, <4>1, <6>1 DEF FirstRow
          <6>3. QED
            BY <3>2, <6>1, <6>2
        <5>2. QED
          BY <5>1 DEF HasRow
      <4>3. IsUser(member)'
        BY <1>4, <4>2, NamedStays DEF Headed, Gone
      <4>4. QED
        BY <4>1, <4>3
    <3>3. QED
      BY <2>1, <3>1, <3>2
  <2>4. RowsInv'
    BY <2>3 DEF RowsInv, IsUser, IsNamed
  <2>5. QED
    BY <2>2, <2>4
<1>5. QED
  BY <1>2, <1>3, <1>4

\* A relation is added: the first of a chat is the user's, by FirstInv.
LEMMA NewRelationMember ==
  ASSUME TypeInv, TypeInv', StoreGrows, HeadedStay, MemberInv, tasks # <<>>,
         UNCHANGED <<rooms, author>>, nextId' = nextId, NewRelation
  PROVE  MemberInv'
<1>1. /\ task.at = "relation" /\ task.op \in {"incoming", "joined"}
      /\ task.op = "joined" => task \in JoiningTasks
      /\ task.op = "incoming" => task \in IncomingTasks /\ task.chat \in Nat
      /\ task.op = "incoming" => \E id \in Nat : task.found = <<id>>
  BY TaskAt, TaskTypes DEF NewRelation, TaskShape, One
<1>2. FoundInv(task) /\ RowsInv /\ FirstInv /\ MessagesInv
  BY TailIs DEF MemberInv, FoundTasks, task
<1>3. CASE task.op = "joined"
  <2>1. task.chat \in Nat /\ task.member \in Nat
    BY <1>1, <1>3 DEF JoiningTasks
  <2>2. store' = AddMemberToChat(store, task.chat, task.member) /\ Ends
    BY <1>3 DEF NewRelation, Finish, Ends
  <2>3. IsUser(task.member) /\ task.chat < nextId
    BY <1>1, <1>2, <1>3 DEF FoundInv
  <2>4. PICK chat : chat = task.chat
    OBVIOUS
  <2>5. RowsInv' /\ Headed(chat)'
    BY <1>2, <2>1, <2>2, <2>3, <2>4, RowsMore
  <2>6. store'.messages = store.messages /\ store'.chats = store.chats
    BY <2>1, <2>2, RelationAdded
  <2>7. MessagesInv'
    BY <1>2, <2>6, MessagesSame DEF RemovedStay, Extends
  <2>8. \A c : Joins(task, c) => Headed(c)'
    BY <2>4, <2>5 DEF Joins
  <2>9. FirstInv'
    BY <1>2, <2>2, <2>6, <2>8, FirstEnds
  <2>10. QED
    BY <2>2, <2>5, <2>7, <2>9, IoMember
<1>4. CASE task.op = "incoming"
  <2>1. PICK id \in Nat : task.found = <<id>> /\ task.found[1] = id
    BY <1>1, <1>4
  <2>2. PICK t : t = [task EXCEPT !.at = "message"]
    OBVIOUS
  <2>3. store' = AddMemberToChat(store, task.chat, id) /\ Suspend(t)
    BY <1>4, <2>1, <2>2 DEF NewRelation, Goto
  <2>4. Headed(task.chat)
    <3>1. Adds(tasks[1]) /\ Turns(tasks[1]) = 1 /\ 1 \in DOMAIN tasks
          /\ tasks[1] = task
      BY <1>1, <1>4, TaskTypes DEF Adds, Turns
    <3>2. ~ComesFirst(tasks, task.chat, 1)
      <4>1. \A j \in DOMAIN tasks : ~(Turns(tasks[j]) < 1) /\ ~(j < 1)
        BY TurnsIn, TurnIs
      <4>2. QED
        BY <3>1, <4>1 DEF ComesFirst
    <3>3. QED
      BY <1>2, <3>1, <3>2 DEF FirstInv
  <2>5. RowsInv'
    BY <1>1, <1>2, <1>4, <2>3, <2>4, RowsMore
  <2>6. store'.messages = store.messages /\ store'.chats = store.chats
    BY <1>1, <1>4, <2>3, RelationAdded
  <2>7. MessagesInv'
    BY <1>2, <2>6, MessagesSame DEF RemovedStay, Extends
  <2>8. /\ t.op = "incoming" /\ t.at = "message" /\ t.found = task.found
        /\ t.from = task.from
    BY <1>1, <1>4, <2>2 DEF IncomingTasks
  <2>9. PICK from : from = task.from
    OBVIOUS
  <2>10. IsSender(id, from)
    BY <1>1, <1>2, <1>4, <2>1, <2>9 DEF FoundInv
  <2>11. IsSender(id, from)'
    BY <2>10, NamedStays
  <2>12. FoundInv(t)' /\ ~Adds(t) /\ \A c : ~Joins(task, c)
    BY <1>4, <2>1, <2>8, <2>9, <2>11 DEF FoundInv, Adds, Joins
  <2>13. FirstInv'
    BY <1>2, <2>3, <2>6, <2>12, FirstGoesOn
  <2>14. QED
    BY <2>3, <2>5, <2>7, <2>12, <2>13, IoMember
<1>5. QED
  BY <1>1, <1>3, <1>4

\* A message is stored under the member that was found.
LEMMA NewMessageMember ==
  ASSUME TypeInv, TypeInv', StoreGrows, HeadedStay, HeardInv, MemberInv,
         tasks # <<>>,
         UNCHANGED <<rooms, author>>, NewMessage
  PROVE  MemberInv'
<1>1. PICK id \in Nat : task.found[1] = id
  BY NewMessageIs
<1>2. PICK row : row = Message
  OBVIOUS
<1>3. /\ row \in MessageRows /\ row.id = nextId /\ row.text = task.text
      /\ row.sender = id
      /\ row.direction = IF task.op = "send" THEN "outgoing" ELSE "incoming"
  BY <1>1, <1>2, NewMessageIs DEF Message
<1>4. nextId' = nextId + 1 /\ Ends /\ task.at = "message"
      /\ task.op \in {"send", "incoming"}
  BY NewMessageIs
<1>5. /\ \/ Added(store.messages, store'.messages, row)
         \/ store'.messages = store.messages
      /\ store'.chats = store.chats /\ store'.members = store.members
      /\ store'.relations = store.relations
  BY <1>2, NewMessageIs
<1>6. /\ FoundInv(task) /\ RowsInv /\ FirstInv /\ MessagesInv
  BY TailIs DEF MemberInv, FoundTasks, task
<1>7. RowsInv'
  BY <1>5, <1>6, RowsSame
<1>8. row.direction = "outgoing" => IsUser(id)'
  BY <1>3, <1>4, <1>1, <1>6, NamedStays DEF FoundInv
<1>9. ASSUME row.direction = "incoming"
      PROVE  \E from \in Origins :
               WrittenBy(rooms, author, from, row.text) /\ IsSender(id, from)'
  <2>1. task.op = "incoming"
    BY <1>3, <1>4, <1>9
  <2>2. PICK from : from = task.from
    OBVIOUS
  <2>3. from \in Origins
    BY <2>1, <2>2, TaskTypes DEF IncomingTasks
  <2>4. IsSender(id, from)'
    BY <1>1, <1>4, <1>6, <2>1, <2>2, NamedStays DEF FoundInv
  <2>5. task \in HeardTasks(rooms, author)
    BY TailIs DEF HeardInv, task
  <2>6. WrittenBy(rooms, author, from, row.text)
    BY <1>3, <2>1, <2>2, <2>5 DEF HeardTasks
  <2>7. QED
    BY <2>3, <2>4, <2>6
<1>10. MessagesInv'
  <2>1. RemovedStay /\ Extends(author, author')
    BY DEF RemovedStay, Extends
  <2>2. CASE store'.messages = store.messages
    BY <1>6, <2>1, <2>2, MessagesSame
  <2>3. ASSUME Added(store.messages, store'.messages, row),
               NEW i \in DOMAIN store'.messages, NEW m, m = store'.messages[i]
        PROVE  /\ m.direction = "outgoing" => IsUser(m.sender)'
               /\ m.direction = "incoming" =>
                    \E from \in Origins :
                      /\ WrittenBy(rooms, author, from, m.text)
                      /\ IsSender(m.sender, from)'
    <3>1. CASE i \in DOMAIN store.messages
      <4>1. m = store.messages[i]
        BY <2>3, <3>1 DEF Added
      <4>2. QED
        BY <1>6, <2>1, <3>1, <4>1, MessagesStay
    <3>2. CASE i \notin DOMAIN store.messages
      <4>1. m = row
        BY <2>3, <3>2 DEF Added
      <4>2. m.sender = id
        BY <1>3, <4>1
      <4>3. QED
        BY <1>8, <1>9, <4>1, <4>2
    <3>3. QED
      BY <3>1, <3>2
  <2>4. CASE Added(store.messages, store'.messages, row)
    BY <2>3, <2>4 DEF MessagesInv, IsUser, IsSender, IsNamed
  <2>5. QED
    BY <1>5, <2>2, <2>4
<1>11. FirstInv'
  <2>1. \A c : ~Joins(task, c)
    BY <1>4 DEF Joins
  <2>2. QED
    BY <1>4, <1>5, <1>6, <2>1, FirstEnds
<1>12. QED
  BY <1>4, <1>7, <1>10, <1>11, IoMember

\* The first row of a chat is still its first when another chat is removed.
LEMMA RowsLess ==
  ASSUME TypeInv, StoreGrows, RowsInv, NEW id, nextId' = nextId,
         store' = RemoveChat(store, id)
  PROVE  RowsInv'
<1>1. PICK rest : rest = DOMAIN store.relations \ OfChat(store.relations, id)
  OBVIOUS
<1>2. PICK t : t = store'.relations
  OBVIOUS
<1>3. t = Keep(store.relations, rest)
  BY <1>1, <1>2, ChatRemoved DEF NotOfChat
<1>4. rest \subseteq DOMAIN store.relations /\ rest \subseteq Nat
      /\ store.relations \in Seq(RelationRows)
  BY <1>1, StoreTypes DEF TypeInv
<1>5. t \in Seq(RelationRows)
      /\ \E at : Follows(store.relations, rest, t, at)
  BY <1>3, <1>4, KeepIs
<1>6. PICK at : Follows(store.relations, rest, t, at)
  BY <1>5
<1>7. /\ \A i \in DOMAIN t : at[i] \in rest /\ t[i] = store.relations[at[i]]
      /\ \A j \in rest : \E i \in DOMAIN t : at[i] = j
      /\ \A i, j \in DOMAIN t : i < j => at[i] < at[j]
  BY <1>6 DEF Follows
<1>8. ASSUME NEW i \in DOMAIN t,
             \A j \in DOMAIN t : t[j].chat = t[i].chat => i <= j
      PROVE  IsUser(t[i].member)'
  <2>1. PICK k : k = at[i]
    OBVIOUS
  <2>2. k \in rest /\ t[i] = store.relations[k]
    BY <1>7, <2>1
  <2>3. ASSUME NEW j \in DOMAIN store.relations,
               store.relations[j].chat = store.relations[k].chat
        PROVE  k <= j
    <3>1. j \in rest
      BY <1>1, <2>2, <2>3 DEF OfChat
    <3>2. PICK l \in DOMAIN t : at[l] = j
      BY <1>7, <3>1
    <3>3. i <= l
      BY <1>7, <1>8, <2>2, <2>3, <3>2
    <3>4. i = l \/ i < l
      BY <1>5, <3>3
    <3>5. k = j \/ k < j
      BY <1>7, <2>1, <3>2, <3>4
    <3>6. QED
      BY <1>4, <2>2, <3>1, <3>5
  <2>4. FirstRow(k)
    BY <2>3 DEF FirstRow
  <2>5. PICK member : member = store.relations[k].member
    OBVIOUS
  <2>6. IsUser(member)
    BY <1>4, <2>2, <2>4, <2>5 DEF RowsInv
  <2>7. IsUser(member)'
    BY <2>6, NamedStays
  <2>8. QED
    BY <2>2, <2>5, <2>7
<1>9. QED
  BY <1>2, <1>8 DEF RowsInv, FirstRow, IsUser, IsNamed

\* A chat is removed, with what refers to it.
LEMMA DropChatMember ==
  ASSUME TypeInv, TypeInv', StoreGrows, HeadedStay, MemberInv, tasks # <<>>,
         UNCHANGED <<rooms, author>>, nextId' = nextId, DropChat
  PROVE  MemberInv'
<1>1. PICK id : id = task.chat
  OBVIOUS
<1>2. task.at = "remove" /\ store' = RemoveChat(store, id) /\ Ends
  BY <1>1 DEF DropChat, Finish, Ends
<1>3. /\ RowsOf(store.chats, store'.chats)
      /\ RowsOf(store.messages, store'.messages)
  BY <1>2, ChatRemoved
<1>4. RowsInv /\ MessagesInv /\ FirstInv
  BY DEF MemberInv
<1>5. RowsInv'
  BY <1>2, <1>4, RowsLess
<1>6. MessagesInv'
  <2>1. RemovedStay /\ Extends(author, author')
    BY DEF RemovedStay, Extends
  <2>2. ASSUME NEW i \in DOMAIN store'.messages, NEW m, m = store'.messages[i]
        PROVE  /\ m.direction = "outgoing" => IsUser(m.sender)'
               /\ m.direction = "incoming" =>
                    \E from \in Origins :
                      /\ WrittenBy(rooms, author, from, m.text)
                      /\ IsSender(m.sender, from)'
    <3>1. PICK j \in DOMAIN store.messages : m = store.messages[j]
      BY <1>3, <2>2 DEF RowsOf
    <3>2. QED
      BY <1>4, <2>1, <3>1, MessagesStay
  <2>3. QED
    BY <2>2 DEF MessagesInv, IsUser, IsSender, IsNamed
<1>7. FirstInv'
  <2>1. \A c : ~Joins(task, c)
    BY <1>2 DEF Joins
  <2>2. \A k \in DOMAIN store'.chats : \E l \in DOMAIN store.chats :
          store'.chats[k].id = store.chats[l].id
    BY <1>3 DEF RowsOf
  <2>3. QED
    BY <1>2, <1>4, <2>1, <2>2, FirstEnds
<1>8. QED
  BY <1>2, <1>5, <1>6, <1>7, IoMember

\* MemberInv is inductive, under the other parts.
LEMMA NextMember ==
  ASSUME TypeInv, SendInv, WriterInv, MemberInv, [Next]_vars
  PROVE  MemberInv'
<1>1. TypeInv' /\ StoreGrows /\ RemovedStay /\ HeadedStay
  <2>1. TypeInv' /\ StoreGrows /\ RemovedStay
    BY NextTypes, StaysForgotten
  <2>2. QED
    BY <2>1, NextHeads
<1>2. CASE Resume
  <2>1. tasks # <<>> /\ UNCHANGED <<rooms, author>> /\ HeardInv
    BY <1>2 DEF Resume, WriterInv
  <2>2. CASE Begin \/ FindRoom \/ FindChat
    BY <1>1, <2>1, <2>2, BeginMember, FindRoomMember, FindChatMember
  <2>3. CASE ReadRelations \/ LookUpMember \/ NewChat \/ NewMember
    BY <1>1, <2>1, <2>3, ReadRelationsMember, LookUpMemberMember,
       NewChatMember, NewMemberMember
  <2>4. CASE NewRelation
    BY <1>1, <2>1, <2>4, NewRelationMember DEF NewRelation
  <2>5. CASE NewMessage
    BY <1>1, <2>1, <2>5, NewMessageMember
  <2>6. CASE DropChat
    BY <1>1, <2>1, <2>6, DropChatMember DEF DropChat
  <2>7. QED
    BY <1>2, <2>2, <2>3, <2>4, <2>5, <2>6 DEF Resume
<1>3. CASE ~Resume
  BY <1>1, <1>3, OuterMoves, OnlyIo, OuterMember DEF WriterInv
<1>4. QED
  BY <1>2, <1>3

\* MemberInv holds at the start.
LEMMA InitMember ==
  ASSUME Init
  PROVE  MemberInv
<1>1. /\ tasks = <<>> /\ store.chats = <<>> /\ store.relations = <<>>
      /\ store.messages = <<>>
  BY DEF Init, EmptyStore
<1>2. QED
  BY <1>1, EmptyIs DEF MemberInv, RowsInv, FirstInv, MessagesInv

BridgeInv == TypeInv /\ SendInv /\ WriterInv /\ MemberInv

\* The member of a message is the one with its name.
LEMMA SenderIs ==
  ASSUME TypeInv, NEW i \in DOMAIN store.messages, NEW name,
         IsNamed(store.messages[i].sender, name)
  PROVE  Sender(i) = name
<1>1. PICK id : id = store.messages[i].sender
  OBVIOUS
<1>2. PICK k \in DOMAIN store.members :
        /\ ById(store.members, id) = <<store.members[k]>>
        /\ store.members[k].name = name
  BY <1>1, UserFound
<1>3. Head(ById(store.members, id)) = store.members[k]
  BY <1>2
<1>4. QED
  BY <1>1, <1>2, <1>3 DEF Sender, GetMemberById

\* Every message is stored under the member that wrote it, whatever other
\* coroutines make members of the chat in between, and no echo of an own
\* message under somebody else, unless the user has removed a chat of a room
\* and the client has forgotten its peer id (ClientBridge.cpp:358).
THEOREM StoredUnderWriter == Spec => []RightSender
<1>1. Init => BridgeInv
  BY InitTypes, InitSend, InitWriter, InitMember DEF BridgeInv
<1>2. BridgeInv /\ [Next]_vars => BridgeInv'
  BY NextTypes, NextSend, NextWriter, NextMember DEF BridgeInv
<1>3. BridgeInv => RightSender
  <2> SUFFICES ASSUME BridgeInv
               PROVE  RightSender
    OBVIOUS
  <2>1. TypeInv /\ MessagesInv
    BY DEF BridgeInv, MemberInv
  <2>2. \A i \in DOMAIN store.messages :
          store.messages[i].direction \in {"incoming", "outgoing"}
    BY <2>1, StoreTypes DEF TypeInv, MessageRows
  <2>3. ASSUME NEW i \in Outgoings
        PROVE  Sender(i) = [user |-> Me]
    <3>1. i \in DOMAIN store.messages /\ store.messages[i].direction = "outgoing"
      BY <2>2 DEF Outgoings, Incomings
    <3>2. IsNamed(store.messages[i].sender, [user |-> Me])
      BY <2>1, <3>1 DEF MessagesInv, IsUser
    <3>3. QED
      BY <2>1, <3>1, <3>2, SenderIs
  <2>4. ASSUME NEW i \in Incomings
        PROVE  /\ Author(i) # Me =>
                    Sender(i) \in {[user |-> Author(i)], [peer |-> Author(i)]}
               /\ Author(i) = Me => \E r \in Rooms : rooms[r].removed
    <3>1. i \in DOMAIN store.messages /\ store.messages[i].direction = "incoming"
      BY DEF Incomings
    <3>2. PICK from \in Origins :
            /\ WrittenBy(rooms, author, from, store.messages[i].text)
            /\ IsSender(store.messages[i].sender, from)
      BY <2>1, <3>1 DEF MessagesInv
    <3>3. Sender(i) \in NamesOf(from)
      BY <2>1, <3>1, <3>2, SenderIs DEF IsSender
    <3>4. QED
      BY <3>2, <3>3 DEF WrittenBy, Author, NamesOf
  <2>5. QED
    BY <2>3, <2>4 DEF RightSender
<1>4. QED
  BY <1>1, <1>2, <1>3, PTL DEF Spec

=============================================================================

------------------------- MODULE GroupPresenceProofs -------------------------
(***************************************************************************)
(* Proofs about whom the clients of group rooms see: when all is quiet, a   *)
(* client misses nobody who is online in its room, and sees nobody who is   *)
(* not.  The server must have one worker thread: that somebody has come or  *)
(* gone is then told to all before anybody else comes or goes.              *)
(***************************************************************************)
EXTENDS GroupChatProofs

-----------------------------------------------------------------------------
(* Queues of messages.                                                     *)

\* m is about who is in room r.
About(m, r) ==
  m.type \in {"joined", "peer-joined", "peer-left"} /\ m.roomId = r

\* It makes a client see peer q in room r, or no longer see it.
Adds(m, r, q) ==
  \/ m.type = "joined" /\ m.roomId = r /\ q \in m.participants
  \/ m.type = "peer-joined" /\ m.roomId = r /\ m.peerId = q
Drops(m, r, q) == m.type = "peer-left" /\ m.roomId = r /\ m.peerId = q

\* Nothing after position i of a queue drops q.
Stays(queue, r, q, i) ==
  \A j \in DOMAIN queue : i < j => ~Drops(queue[j], r, q)

\* A client that sees the peers ps sees q when it has read the queue.
After(queue, r, q, ps) ==
  \/ q \in ps /\ Stays(queue, r, q, 0)
  \/ \E i \in DOMAIN queue : Adds(queue[i], r, q) /\ Stays(queue, r, q, i)

\* It does so from what comes with a "joined" of the queue, or after that.
Anew(queue, r, q) ==
  \E k, i \in DOMAIN queue :
    /\ Starts(queue[k], r) /\ k <= i
    /\ Adds(queue[i], r, q) /\ Stays(queue, r, q, i)

HasStart(queue, r) == \E k \in DOMAIN queue : Starts(queue[k], r)

\* The positions of a queue with one more message.
LEMMA AtTheEnd ==
  ASSUME NEW M, NEW queue \in Seq(M), NEW m \in M
  PROVE  /\ DOMAIN Append(queue, m) = DOMAIN queue \cup {Len(queue) + 1}
         /\ \A i \in DOMAIN queue :
              Append(queue, m)[i] = queue[i] /\ i \in Nat /\ 0 < i /\ i < Len(queue) + 1
         /\ Append(queue, m)[Len(queue) + 1] = m
         /\ Len(queue) + 1 \in Nat /\ 0 < Len(queue) + 1
OBVIOUS

(***************************************************************************)
(* What a message at the end of a queue changes.                            *)
(***************************************************************************)
LEMMA StaysAppended ==
  ASSUME NEW M, NEW queue \in Seq(M), NEW m \in M, NEW r, NEW q,
         NEW i \in DOMAIN queue \cup {0}
  PROVE  /\ Stays(Append(queue, m), r, q, i) <=> Stays(queue, r, q, i) /\ ~Drops(m, r, q)
         /\ Stays(Append(queue, m), r, q, Len(queue) + 1)
<1> DEFINE n == Len(queue) + 1
<1>1. PICK long : long = Append(queue, m)
  OBVIOUS
<1>2. /\ DOMAIN long = DOMAIN queue \cup {n} /\ long[n] = m /\ n \in Nat /\ 0 < n
      /\ \A j \in DOMAIN queue : long[j] = queue[j] /\ j \in Nat /\ 0 < j /\ j < n
  BY <1>1, AtTheEnd
<1> HIDE DEF n
<1>3. i \in Nat /\ i < n
  BY <1>2
<1>4. Stays(long, r, q, i) <=> Stays(queue, r, q, i) /\ ~Drops(m, r, q)
  BY <1>2, <1>3 DEF Stays
<1>5. Stays(long, r, q, n)
  BY <1>2 DEF Stays
<1>6. QED
  BY <1>1, <1>4, <1>5 DEF n

\* The client sees whom it saw, but for whom the message adds or drops.
LEMMA AfterAppended ==
  ASSUME NEW M, NEW queue \in Seq(M), NEW m \in M, NEW r, NEW q, NEW ps
  PROVE  /\ After(Append(queue, m), r, q, ps)
              <=> Adds(m, r, q) \/ (After(queue, r, q, ps) /\ ~Drops(m, r, q))
         /\ Anew(queue, r, q) /\ ~Drops(m, r, q) => Anew(Append(queue, m), r, q)
         /\ HasStart(queue, r) => HasStart(Append(queue, m), r)
         /\ HasStart(Append(queue, m), r) <=> HasStart(queue, r) \/ Starts(m, r)
         /\ HasStart(Append(queue, m), r) /\ Adds(m, r, q) => Anew(Append(queue, m), r, q)
<1> DEFINE n == Len(queue) + 1
<1>1. PICK long : long = Append(queue, m)
  OBVIOUS
<1>2. /\ DOMAIN long = DOMAIN queue \cup {n} /\ long[n] = m /\ n \in Nat
      /\ \A j \in DOMAIN queue : long[j] = queue[j] /\ j \in Nat /\ 0 < j /\ j < n
  BY <1>1, AtTheEnd
<1>3. /\ \A i \in DOMAIN queue \cup {0} :
           Stays(long, r, q, i) <=> Stays(queue, r, q, i) /\ ~Drops(m, r, q)
      /\ Stays(long, r, q, n)
  BY <1>1, StaysAppended
<1> HIDE DEF n
<1>4. After(long, r, q, ps) <=> Adds(m, r, q) \/ (After(queue, r, q, ps) /\ ~Drops(m, r, q))
  <2>1. ASSUME Adds(m, r, q)
        PROVE  After(long, r, q, ps)
    BY <1>2, <1>3, <2>1 DEF After
  <2>2. ASSUME After(queue, r, q, ps), ~Drops(m, r, q)
        PROVE  After(long, r, q, ps)
    BY <1>2, <1>3, <2>2 DEF After
  <2>3. ASSUME After(long, r, q, ps), ~Adds(m, r, q)
        PROVE  After(queue, r, q, ps) /\ ~Drops(m, r, q)
    BY <1>2, <1>3, <2>3 DEF After
  <2>4. QED
    BY <2>1, <2>2, <2>3
<1>5. ASSUME Anew(queue, r, q), ~Drops(m, r, q)
      PROVE  Anew(long, r, q)
  <2>1. PICK k \in DOMAIN queue, i \in DOMAIN queue :
          /\ Starts(queue[k], r) /\ k <= i
          /\ Adds(queue[i], r, q) /\ Stays(queue, r, q, i)
    BY <1>5 DEF Anew
  <2>2. Starts(long[k], r) /\ Adds(long[i], r, q) /\ Stays(long, r, q, i)
    BY <1>2, <1>3, <1>5, <2>1
  <2>3. QED
    BY <1>2, <2>1, <2>2 DEF Anew
<1>6. HasStart(long, r) <=> HasStart(queue, r) \/ Starts(m, r)
  BY <1>2 DEF HasStart
<1>7. ASSUME HasStart(long, r), Adds(m, r, q)
      PROVE  Anew(long, r, q)
  <2>1. PICK k \in DOMAIN long : Starts(long[k], r)
    BY <1>7 DEF HasStart
  <2>2. k <= n /\ n \in DOMAIN long /\ long[n] = m
    BY <1>2, <2>1
  <2>3. QED
    BY <1>3, <1>7, <2>1, <2>2 DEF Anew
<1>8. QED
  BY <1>1, <1>4, <1>5, <1>6, <1>7

\* The positions of what is left of a queue.
LEMMA WithoutFirst ==
  ASSUME NEW M, NEW queue \in Seq(M), queue # <<>>
  PROVE  /\ \A j \in DOMAIN Tail(queue) :
              j + 1 \in DOMAIN queue /\ Tail(queue)[j] = queue[j + 1] /\ j \in Nat
         /\ \A i \in DOMAIN queue :
              i \in Nat /\ (i = 1 \/ (i - 1 \in DOMAIN Tail(queue) /\ i - 1 \in Nat
                                      /\ Tail(queue)[i - 1] = queue[i] /\ 1 < i))
         /\ 1 \in DOMAIN queue /\ queue[1] = Head(queue)
OBVIOUS

\* What stays in the rest of a queue.
LEMMA StaysInRest ==
  ASSUME NEW M, NEW queue \in Seq(M), queue # <<>>, NEW r, NEW q, NEW i \in Nat
  PROVE  /\ Stays(Tail(queue), r, q, i) <=> Stays(queue, r, q, i + 1)
         /\ Stays(queue, r, q, 0) <=> Stays(Tail(queue), r, q, 0) /\ ~Drops(Head(queue), r, q)
<1>1. PICK rest : rest = Tail(queue)
  OBVIOUS
<1>2. /\ \A j \in DOMAIN rest : j + 1 \in DOMAIN queue /\ rest[j] = queue[j + 1] /\ j \in Nat
      /\ \A j \in DOMAIN queue :
           j \in Nat /\ (j = 1 \/ (j - 1 \in DOMAIN rest /\ j - 1 \in Nat
                                   /\ rest[j - 1] = queue[j] /\ 1 < j))
      /\ 1 \in DOMAIN queue /\ queue[1] = Head(queue)
  BY <1>1, WithoutFirst
<1>3. ASSUME NEW n \in Nat
      PROVE  Stays(rest, r, q, n) <=> Stays(queue, r, q, n + 1)
  <2>1. ASSUME Stays(queue, r, q, n + 1), NEW j \in DOMAIN rest, n < j
        PROVE  ~Drops(rest[j], r, q)
    <3>1. j + 1 \in DOMAIN queue /\ rest[j] = queue[j + 1] /\ n + 1 < j + 1
      BY <1>2, <2>1
    <3>2. QED
      BY <2>1, <3>1 DEF Stays
  <2>2. ASSUME Stays(rest, r, q, n), NEW j \in DOMAIN queue, n + 1 < j
        PROVE  ~Drops(queue[j], r, q)
    <3>1. j - 1 \in DOMAIN rest /\ rest[j - 1] = queue[j] /\ n < j - 1
      BY <1>2, <2>2
    <3>2. QED
      BY <2>2, <3>1 DEF Stays
  <2>3. QED
    BY <2>1, <2>2 DEF Stays
<1>4. Stays(rest, r, q, 0) <=> Stays(queue, r, q, 1)
  BY <1>3
<1>5. Stays(queue, r, q, 0) <=> Stays(queue, r, q, 1) /\ ~Drops(Head(queue), r, q)
  <2>1. \A j \in DOMAIN queue : 0 < j /\ (j = 1 \/ 1 < j)
    BY <1>2
  <2>2. QED
    BY <1>2, <2>1 DEF Stays
<1>6. QED
  BY <1>1, <1>3, <1>4, <1>5

(***************************************************************************)
(* The first message may be read: it changes whom the client sees.          *)
(***************************************************************************)
LEMMA AfterFirst ==
  ASSUME NEW M, NEW queue \in Seq(M), queue # <<>>, NEW r, NEW q, NEW ps, NEW seen,
         q \in seen <=> Adds(Head(queue), r, q)
                        \/ (q \in ps /\ ~Drops(Head(queue), r, q)),
         ~(Adds(Head(queue), r, q) /\ Drops(Head(queue), r, q))
  PROVE  After(queue, r, q, ps) <=> After(Tail(queue), r, q, seen)
<1>1. PICK rest : rest = Tail(queue)
  OBVIOUS
<1>2. PICK m : m = Head(queue)
  OBVIOUS
<1>3. /\ \A j \in DOMAIN rest : j + 1 \in DOMAIN queue /\ rest[j] = queue[j + 1] /\ j \in Nat
      /\ \A j \in DOMAIN queue :
           j \in Nat /\ (j = 1 \/ (j - 1 \in DOMAIN rest /\ j - 1 \in Nat
                                   /\ rest[j - 1] = queue[j] /\ 1 < j))
      /\ 1 \in DOMAIN queue /\ queue[1] = m
  BY <1>1, <1>2, WithoutFirst
<1>4. \A n \in Nat : /\ Stays(rest, r, q, n) <=> Stays(queue, r, q, n + 1)
                     /\ Stays(queue, r, q, 0) <=> Stays(rest, r, q, 0) /\ ~Drops(m, r, q)
  BY <1>1, <1>2, StaysInRest
<1>5. Stays(rest, r, q, 0) <=> Stays(queue, r, q, 1)
  BY <1>4
<1>6. ASSUME After(queue, r, q, ps)
      PROVE  After(rest, r, q, seen)
  <2>1. CASE q \in ps /\ Stays(queue, r, q, 0)
    <3>1. Stays(rest, r, q, 0) /\ ~Drops(m, r, q)
      BY <1>4, <2>1
    <3>2. QED
      BY <1>2, <2>1, <3>1 DEF After
  <2>2. ASSUME NEW i \in DOMAIN queue, Adds(queue[i], r, q), Stays(queue, r, q, i)
        PROVE  After(rest, r, q, seen)
    <3>1. CASE i = 1
      BY <1>2, <1>3, <1>5, <2>2, <3>1 DEF After
    <3>2. CASE i # 1
      <4>1. i - 1 \in DOMAIN rest /\ i - 1 \in Nat /\ rest[i - 1] = queue[i]
            /\ (i - 1) + 1 = i
        BY <1>3, <3>2
      <4>2. Stays(rest, r, q, i - 1)
        BY <1>4, <2>2, <4>1
      <4>3. QED
        BY <2>2, <4>1, <4>2 DEF After
    <3>3. QED
      BY <3>1, <3>2
  <2>3. QED
    BY <1>6, <2>1, <2>2 DEF After
<1>7. ASSUME After(rest, r, q, seen)
      PROVE  After(queue, r, q, ps)
  <2>1. CASE q \in seen /\ Stays(rest, r, q, 0)
    <3>1. CASE Adds(m, r, q)
      BY <1>3, <1>5, <2>1, <3>1 DEF After
    <3>2. CASE q \in ps /\ ~Drops(m, r, q)
      BY <1>4, <2>1, <3>2 DEF After
    <3>3. QED
      BY <1>2, <2>1, <3>1, <3>2
  <2>2. ASSUME NEW i \in DOMAIN rest, Adds(rest[i], r, q), Stays(rest, r, q, i)
        PROVE  After(queue, r, q, ps)
    <3>1. i + 1 \in DOMAIN queue /\ rest[i] = queue[i + 1] /\ i \in Nat
      BY <1>3
    <3>2. Stays(queue, r, q, i + 1)
      BY <1>4, <2>2, <3>1
    <3>3. QED
      BY <2>2, <3>1, <3>2 DEF After
  <2>3. QED
    BY <1>7, <2>1, <2>2 DEF After
<1>8. QED
  BY <1>1, <1>6, <1>7

\* Whoever sees more sees more in the end.
LEMMA AfterMore ==
  ASSUME NEW queue, NEW r, NEW q, NEW ps, NEW seen, q \in ps => q \in seen,
         After(queue, r, q, ps)
  PROVE  After(queue, r, q, seen)
BY DEF After

(***************************************************************************)
(* What comes anew comes in the end, and when another message is first, in   *)
(* what is left.                                                            *)
(***************************************************************************)
LEMMA AnewFirst ==
  ASSUME NEW M, NEW queue \in Seq(M), queue # <<>>, NEW r, NEW q, Anew(queue, r, q)
  PROVE  /\ \A ps : After(queue, r, q, ps)
         /\ ~Starts(Head(queue), r) => Anew(Tail(queue), r, q)
<1>1. PICK rest : rest = Tail(queue)
  OBVIOUS
<1>2. PICK k \in DOMAIN queue, i \in DOMAIN queue :
        /\ Starts(queue[k], r) /\ k <= i
        /\ Adds(queue[i], r, q) /\ Stays(queue, r, q, i)
  BY DEF Anew
<1>3. \A ps : After(queue, r, q, ps)
  BY <1>2 DEF After
<1>4. ASSUME ~Starts(Head(queue), r)
      PROVE  Anew(rest, r, q)
  <2>1. k # 1 /\ k \in Nat /\ i \in Nat /\ 1 <= k
    BY <1>2, <1>4, WithoutFirst
  <2>2. i # 1
    BY <1>2, <2>1
  <2>3. /\ k - 1 \in DOMAIN rest /\ rest[k - 1] = queue[k]
        /\ i - 1 \in DOMAIN rest /\ rest[i - 1] = queue[i] /\ i - 1 \in Nat
    BY <1>1, <2>1, <2>2, WithoutFirst
  <2>4. Stays(rest, r, q, i - 1)
    <3>1. (i - 1) + 1 = i
      BY <2>1
    <3>2. QED
      BY <1>1, <1>2, <2>3, <3>1, StaysInRest
  <2>5. k - 1 <= i - 1
    BY <1>2, <2>1
  <2>6. QED
    BY <1>2, <2>3, <2>4, <2>5 DEF Anew
<1>5. QED
  BY <1>1, <1>3, <1>4

\* What starts in what is left of a queue starts in the queue, and not there
\* only when it is first.
LEMMA StartInRest ==
  ASSUME NEW M, NEW queue \in Seq(M), queue # <<>>, NEW r
  PROVE  HasStart(queue, r) <=> Starts(Head(queue), r) \/ HasStart(Tail(queue), r)
BY WithoutFirst DEF HasStart

-----------------------------------------------------------------------------
(* What handlers are to tell.                                              *)

\* What the steps of a handler are to send to session x.
Tells(steps, x) ==
  {steps[i].msg : i \in {j \in DOMAIN steps : steps[j].op = "send" /\ x \in steps[j].to}}

Told(x) == UNION {Tells(todo[s], x) : s \in Sessions}

\* Nobody is told of one room by two steps.
TellsOnce(steps) ==
  \A i, j \in DOMAIN steps, r \in RoomIds :
    /\ i # j /\ steps[i].op = "send" /\ steps[j].op = "send"
    /\ About(steps[i].msg, r) /\ About(steps[j].msg, r)
    => steps[i].to \cap steps[j].to = {}

\* What it is to be told.
LEMMA TellsMean ==
  /\ \A steps, x, m : m \in Tells(steps, x) <=>
       \E i \in DOMAIN steps :
         steps[i].op = "send" /\ x \in steps[i].to /\ steps[i].msg = m
  /\ \A x, m : m \in Told(x) <=> \E s \in Sessions : m \in Tells(todo[s], x)
BY DEF Tells, Told

(***************************************************************************)
(* When no handler has anything left to do nobody is told anything.         *)
(***************************************************************************)
LEMMA NothingTold ==
  ASSUME \A s \in Sessions : todo[s] = <<>>
  PROVE  \A x : Told(x) = {}
<1>1. \A x : Tells(<<>>, x) = {}
  BY DEF Tells
<1>2. QED
  BY <1>1 DEF Told

\* When one handler has, what it is to tell is told.
LEMMA ToldByOne ==
  ASSUME NEW s \in Sessions, \A t \in Sessions : t # s => todo'[t] = <<>>
  PROVE  \A x : Told(x)' = Tells(todo'[s], x)
<1>1. \A x : Tells(<<>>, x) = {}
  BY DEF Tells
<1>2. \A t \in Sessions : \A x : t # s => Tells(todo'[t], x) = {}
  BY <1>1
<1>3. ASSUME NEW x
      PROVE  Told(x)' = Tells(todo'[s], x)
  <2>1. Told(x)' = UNION {Tells(todo'[t], x) : t \in Sessions}
    BY DEF Told
  <2>2. \A t \in Sessions : t = s \/ Tells(todo'[t], x) = {}
    BY <1>2
  <2>3. QED
    BY <2>1, <2>2
<1>4. QED
  BY <1>3

(***************************************************************************)
(* What a list with one step, or none, tells.                               *)
(***************************************************************************)
LEMMA SendTells ==
  ASSUME NEW to, NEW msg
  PROVE  /\ \A x : Tells(Send(to, msg), x) = IF x \in to THEN {msg} ELSE {}
         /\ TellsOnce(Send(to, msg))
         /\ \A i \in DOMAIN Send(to, msg) :
              Send(to, msg)[i].to = to /\ Send(to, msg)[i].msg = msg
<1>1. CASE to = {}
  BY <1>1 DEF Send, Tells, TellsOnce
<1>2. CASE to # {}
  <2> DEFINE st == [op |-> "send", to |-> to, msg |-> msg]
  <2>1. Send(to, msg) = <<st>> /\ st.op = "send" /\ st.to = to /\ st.msg = msg
    BY <1>2 DEF Send
  <2> HIDE DEF st
  <2>2. DOMAIN <<st>> = {1} /\ <<st>>[1] = st
    OBVIOUS
  <2>3. PICK list : list = Send(to, msg)
    OBVIOUS
  <2>4. DOMAIN list = {1} /\ list[1].op = "send" /\ list[1].to = to /\ list[1].msg = msg
    BY <2>1, <2>2, <2>3
  <2>5. \A x : Tells(list, x) = IF x \in to THEN {msg} ELSE {}
    BY <2>4 DEF Tells
  <2>6. TellsOnce(list) /\ \A i \in DOMAIN list : list[i].to = to /\ list[i].msg = msg
    BY <2>4 DEF TellsOnce
  <2>7. QED
    BY <2>3, <2>5, <2>6
<1>3. QED
  BY <1>1, <1>2

\* To look up is to tell nothing.
LEMMA LookUpTells ==
  ASSUME NEW r, NEW p
  PROVE  /\ \A x : Tells(LookUp(r, p), x) = {}
         /\ \A i \in DOMAIN LookUp(r, p) : LookUp(r, p)[i].op # "send"
<1> DEFINE st == [op |-> "pending", roomId |-> r, peerId |-> p]
<1>1. LookUp(r, p) = <<st>> /\ st.op # "send"
  BY DEF LookUp
<1> HIDE DEF st
<1>2. DOMAIN <<st>> = {1} /\ <<st>>[1] = st
  OBVIOUS
<1>3. PICK list : list = LookUp(r, p)
  OBVIOUS
<1>4. DOMAIN list = {1} /\ list[1].op # "send"
  BY <1>1, <1>2, <1>3
<1>5. QED
  BY <1>3, <1>4 DEF Tells

(***************************************************************************)
(* Two lists, one after the other.                                          *)
(***************************************************************************)
LEMMA ThenTells ==
  ASSUME NEW S, NEW a \in Seq(S), NEW b \in Seq(S)
  PROVE  /\ \A x : Tells(a \o b, x) = Tells(a, x) \cup Tells(b, x)
         /\ \A i \in DOMAIN (a \o b) :
              (\E j \in DOMAIN a : (a \o b)[i] = a[j]) \/ (\E j \in DOMAIN b : (a \o b)[i] = b[j])
         /\ /\ TellsOnce(a) /\ TellsOnce(b)
            /\ \A i \in DOMAIN a, j \in DOMAIN b, r \in RoomIds :
                 /\ a[i].op = "send" /\ b[j].op = "send"
                 /\ About(a[i].msg, r) /\ About(b[j].msg, r)
                 => a[i].to \cap b[j].to = {}
            => TellsOnce(a \o b)
<1>1. PICK c : c = a \o b
  OBVIOUS
<1>2. PICK n : n = Len(a)
  OBVIOUS
<1>3. /\ \A i \in DOMAIN c :
           \/ i \in DOMAIN a /\ c[i] = a[i]
           \/ i - n \in DOMAIN b /\ c[i] = b[i - n] /\ i \notin DOMAIN a
      /\ \A i \in DOMAIN c : i \in Int
      /\ n \in Int
      /\ \A i \in DOMAIN a : i \in DOMAIN c /\ c[i] = a[i]
      /\ \A j \in DOMAIN b : j + n \in DOMAIN c /\ c[j + n] = b[j]
  <2>1. /\ c \in Seq(S) /\ Len(a) \in Nat /\ Len(b) \in Nat
        /\ DOMAIN c = 1..(Len(a) + Len(b))
        /\ DOMAIN a = 1..Len(a) /\ DOMAIN b = 1..Len(b)
        /\ \A i \in DOMAIN c : c[i] = IF i <= Len(a) THEN a[i] ELSE b[i - Len(a)]
    BY <1>1
  <2>2. QED
    BY <1>2, <2>1
<1>4. ASSUME NEW x, NEW m
      PROVE  m \in Tells(c, x) <=> m \in Tells(a, x) \/ m \in Tells(b, x)
  <2>1. ASSUME m \in Tells(c, x)
        PROVE  m \in Tells(a, x) \/ m \in Tells(b, x)
    <3>1. PICK i \in DOMAIN c : c[i].op = "send" /\ x \in c[i].to /\ c[i].msg = m
      BY <2>1, TellsMean
    <3>2. CASE i \in DOMAIN a /\ c[i] = a[i]
      BY <3>1, <3>2, TellsMean
    <3>3. CASE i - n \in DOMAIN b /\ c[i] = b[i - n]
      BY <3>1, <3>3, TellsMean
    <3>4. QED
      BY <1>3, <3>2, <3>3
  <2>2. ASSUME m \in Tells(a, x)
        PROVE  m \in Tells(c, x)
    <3>1. PICK i \in DOMAIN a : a[i].op = "send" /\ x \in a[i].to /\ a[i].msg = m
      BY <2>2, TellsMean
    <3>2. i \in DOMAIN c /\ c[i] = a[i]
      BY <1>3
    <3>3. QED
      BY <3>1, <3>2, TellsMean
  <2>3. ASSUME m \in Tells(b, x)
        PROVE  m \in Tells(c, x)
    <3>1. PICK i \in DOMAIN b : b[i].op = "send" /\ x \in b[i].to /\ b[i].msg = m
      BY <2>3, TellsMean
    <3>2. i + n \in DOMAIN c /\ c[i + n] = b[i]
      BY <1>3
    <3>3. QED
      BY <3>1, <3>2, TellsMean
  <2>4. QED
    BY <2>1, <2>2, <2>3
<1>5. ASSUME TellsOnce(a), TellsOnce(b),
             \A i \in DOMAIN a, j \in DOMAIN b, r \in RoomIds :
               /\ a[i].op = "send" /\ b[j].op = "send"
               /\ About(a[i].msg, r) /\ About(b[j].msg, r)
               => a[i].to \cap b[j].to = {},
             NEW i \in DOMAIN c, NEW j \in DOMAIN c, NEW r \in RoomIds, i # j,
             c[i].op = "send", c[j].op = "send", About(c[i].msg, r), About(c[j].msg, r)
      PROVE  c[i].to \cap c[j].to = {}
  <2>1. CASE i \in DOMAIN a /\ c[i] = a[i] /\ j \in DOMAIN a /\ c[j] = a[j]
    BY <1>5, <2>1 DEF TellsOnce
  <2>2. CASE /\ i - n \in DOMAIN b /\ c[i] = b[i - n]
             /\ j - n \in DOMAIN b /\ c[j] = b[j - n]
    <3>1. i - n # j - n
      BY <1>3, <1>5
    <3>2. QED
      BY <1>5, <2>2, <3>1 DEF TellsOnce
  <2>3. CASE i \in DOMAIN a /\ c[i] = a[i] /\ j - n \in DOMAIN b /\ c[j] = b[j - n]
    BY <1>5, <2>3
  <2>4. CASE j \in DOMAIN a /\ c[j] = a[j] /\ i - n \in DOMAIN b /\ c[i] = b[i - n]
    BY <1>5, <2>4
  <2>5. QED
    BY <1>3, <2>1, <2>2, <2>3, <2>4
<1>6. \A x : Tells(c, x) = Tells(a, x) \cup Tells(b, x)
  BY <1>4
<1>7. \A i \in DOMAIN c :
        (\E j \in DOMAIN a : c[i] = a[j]) \/ (\E j \in DOMAIN b : c[i] = b[j])
  BY <1>3
<1>8. /\ TellsOnce(a) /\ TellsOnce(b)
      /\ \A i \in DOMAIN a, j \in DOMAIN b, r \in RoomIds :
           /\ a[i].op = "send" /\ b[j].op = "send"
           /\ About(a[i].msg, r) /\ About(b[j].msg, r)
           => a[i].to \cap b[j].to = {}
      => TellsOnce(c)
  <2>1. SUFFICES ASSUME TellsOnce(a), TellsOnce(b),
                        \A i \in DOMAIN a, j \in DOMAIN b, r \in RoomIds :
                          /\ a[i].op = "send" /\ b[j].op = "send"
                          /\ About(a[i].msg, r) /\ About(b[j].msg, r)
                          => a[i].to \cap b[j].to = {}
                 PROVE  TellsOnce(c)
    OBVIOUS
  <2>2. \A i, j \in DOMAIN c, r \in RoomIds :
          /\ i # j /\ c[i].op = "send" /\ c[j].op = "send"
          /\ About(c[i].msg, r) /\ About(c[j].msg, r)
          => c[i].to \cap c[j].to = {}
    BY <1>5, <2>1
  <2>3. QED
    BY <2>2 DEF TellsOnce
<1>9. QED
  BY <1>1, <1>6, <1>7, <1>8

\* T goes on with left: x has been told, and of the room of the message
\* nothing else is to be told x.
GoesOn(T, x, left) ==
  /\ TellsOnce(left)
  /\ \A y : y # x => Tells(left, y) = Tells(T, y)
  /\ Tells(left, x) \subseteq Tells(T, x)
  /\ T[1].msg \in Tells(T, x)
  /\ \A m \in Tells(T, x) : m = T[1].msg \/ m \in Tells(left, x)
  /\ \A r \in RoomIds : About(T[1].msg, r) =>
       \A m \in Tells(left, x) : ~About(m, r)

\* Two positions stay two when both move.
LEMMA Moved ==
  ASSUME NEW i \in Int, NEW j \in Int, NEW d \in Int, i # j
  PROVE  i + d # j + d
OBVIOUS

(***************************************************************************)
(* A handler goes on when one of those its first step sends to has been sent *)
(* the message: what it has left are its steps without x in the first.       *)
(***************************************************************************)
LEMMA TellsOnWith ==
  ASSUME NEW T, 1 \in DOMAIN T, T[1].op = "send", NEW x \in T[1].to, TellsOnce(T),
         NEW left, \A i \in DOMAIN left : i \in Int,
         NEW d \in {0, 1}, Taken(T, x, left, d),
         NEW E, Follows(T, E, left), E # {} \/ T[1].to = {x},
         \A e \in E : e.op = "send" /\ e.msg = T[1].msg /\ e.to = T[1].to \ {x}
  PROVE  GoesOn(T, x, left)
<1>1. TellsOnce(left)
  <2>1. \A i \in DOMAIN left :
          /\ i + d \in DOMAIN T /\ left[i].op = T[i + d].op
          /\ left[i].msg = T[i + d].msg /\ left[i].to \subseteq T[i + d].to
    BY DEF Taken
  <2>2. ASSUME NEW i \in DOMAIN left, NEW j \in DOMAIN left, NEW r \in RoomIds, i # j,
               left[i].op = "send", left[j].op = "send",
               About(left[i].msg, r), About(left[j].msg, r)
        PROVE  left[i].to \cap left[j].to = {}
    <3>1. i + d # j + d
      <4>1. i \in Int /\ j \in Int /\ d \in Int
        OBVIOUS
      <4>2. QED
        BY <2>2, <4>1, Moved
    <3>2. T[i + d].to \cap T[j + d].to = {}
      BY <2>1, <2>2, <3>1 DEF TellsOnce
    <3>3. QED
      BY <2>1, <3>2
  <2>3. QED
    BY <2>2 DEF TellsOnce
<1>2. ASSUME NEW y, NEW m, m \in Tells(left, y)
      PROVE  /\ m \in Tells(T, y)
             /\ y = x => \A r \in RoomIds : ~(About(T[1].msg, r) /\ About(m, r))
  <2>1. PICK i \in DOMAIN left : left[i].op = "send" /\ y \in left[i].to /\ left[i].msg = m
    BY <1>2, TellsMean
  <2>2. CASE left[i] \in E
    <3>1. y # x /\ y \in T[1].to /\ m = T[1].msg
      BY <2>1, <2>2
    <3>2. QED
      BY <3>1, TellsMean
  <2>3. ASSUME NEW j \in DOMAIN T, j # 1, left[i] = T[j]
        PROVE  /\ m \in Tells(T, y)
               /\ y = x => \A r \in RoomIds : ~(About(T[1].msg, r) /\ About(m, r))
    <3>1. m \in Tells(T, y)
      BY <2>1, <2>3, TellsMean
    <3>2. ASSUME y = x, NEW r \in RoomIds, About(T[1].msg, r), About(m, r)
          PROVE  FALSE
      <4>1. T[1].to \cap T[j].to = {}
        BY <2>1, <2>3, <3>2 DEF TellsOnce
      <4>2. QED
        BY <2>1, <2>3, <3>2, <4>1
    <3>3. QED
      BY <3>1, <3>2
  <2>4. QED
    BY <2>2, <2>3 DEF Follows
<1>3. ASSUME NEW y, NEW m, m \in Tells(T, y)
      PROVE  m \in Tells(left, y) \/ (y = x /\ m = T[1].msg)
  <2>1. PICK j \in DOMAIN T : T[j].op = "send" /\ y \in T[j].to /\ T[j].msg = m
    BY <1>3, TellsMean
  <2>2. CASE j # 1
    <3>1. PICK i \in DOMAIN left : left[i] = T[j]
      BY <2>2 DEF Follows
    <3>2. QED
      BY <2>1, <3>1, TellsMean
  <2>3. CASE j = 1 /\ y # x
    <3>1. PICK e \in E : TRUE
      BY <2>1, <2>3
    <3>2. PICK i \in DOMAIN left : left[i] = e
      BY <3>1 DEF Follows
    <3>3. left[i].op = "send" /\ y \in left[i].to /\ left[i].msg = m
      BY <2>1, <2>3, <3>1, <3>2
    <3>4. QED
      BY <3>3, TellsMean
  <2>4. QED
    BY <2>1, <2>2, <2>3
<1>4. T[1].msg \in Tells(T, x)
  BY TellsMean
<1>5. ASSUME NEW y, y # x
      PROVE  Tells(left, y) = Tells(T, y)
  <2>1. \A m : m \in Tells(left, y) <=> m \in Tells(T, y)
    BY <1>2, <1>3, <1>5
  <2>2. QED
    BY <2>1
<1>6. Tells(left, x) \subseteq Tells(T, x)
  BY <1>2
<1>7. \A r \in RoomIds : About(T[1].msg, r) => \A m \in Tells(left, x) : ~About(m, r)
  BY <1>2
<1>8. QED
  BY <1>1, <1>3, <1>4, <1>5, <1>6, <1>7 DEF GoesOn

\* So it is with what the code leaves to do.
LEMMA TellsOn ==
  ASSUME NEW S, NEW T \in Seq(S), T # <<>>, T[1].op = "send", NEW x \in T[1].to,
         TellsOnce(T), NEW left, left = Send(T[1].to \ {x}, T[1].msg) \o Tail(T)
  PROVE  GoesOn(T, x, left)
<1>1. PICK d \in {0, 1} : Taken(T, x, left, d)
  BY StepTaken
<1>2. 1 \in DOMAIN T
  OBVIOUS
<1>3. PICK rest : rest = Tail(T)
  OBVIOUS
<1>4. CASE T[1].to = {x}
  <2>1. left = rest
    BY <1>3, <1>4, StepTaken
  <2>2. Follows(T, {}, rest) /\ \A i \in DOMAIN rest : i \in Int
    BY <1>3, FirstDone
  <2>3. Follows(T, {}, left) /\ \A i \in DOMAIN left : i \in Int
    BY <2>1, <2>2, Zenon
  <2>4. PICK none : none = {}
    OBVIOUS
  <2>5. Follows(T, none, left) /\ \A e \in none : FALSE
    BY <2>3, <2>4
  <2>6. QED
    BY <1>1, <1>2, <1>4, <2>3, <2>5, TellsOnWith
<1>5. CASE T[1].to # {x}
  <2> DEFINE st == [op |-> "send", to |-> T[1].to \ {x}, msg |-> T[1].msg]
  <2>1. left = <<st>> \o rest
    BY <1>3, <1>5 DEF Send
  <2>2. st.op = "send" /\ st.to = T[1].to \ {x} /\ st.msg = T[1].msg
    OBVIOUS
  <2> HIDE DEF st
  <2>3. Follows(T, {st}, <<st>> \o rest)
    BY <1>3, FirstReplaced
  <2>4. \A i \in DOMAIN (<<st>> \o rest) : i \in Int
    <3>1. PICK U : U = S \cup {st}
      OBVIOUS
    <3>2. rest \in Seq(U) /\ st \in U
      <4>1. S \subseteq U /\ rest \in Seq(S)
        BY <1>3, <3>1
      <4>2. QED
        BY <3>1, <4>1, SeqMonotonic
    <3>3. DOMAIN (<<st>> \o rest) = 1..(Len(rest) + 1) /\ Len(rest) \in Nat
      BY <3>2, Prepended
    <3>4. QED
      BY <3>3
  <2>5. Follows(T, {st}, left) /\ \A i \in DOMAIN left : i \in Int
    BY <2>1, <2>3, <2>4, Zenon
  <2>6. /\ {st} # {}
        /\ \A e \in {st} : e.op = "send" /\ e.msg = T[1].msg /\ e.to = T[1].to \ {x}
    BY <2>2
  <2>7. QED
    BY <1>1, <1>2, <2>5, <2>6, TellsOnWith
<1>6. QED
  BY <1>4, <1>5

-----------------------------------------------------------------------------
(* The invariant.                                                          *)

\* Session x is in room r as member p, and there is another member q online.
InAs(x, r, p) ==
  \E c \in clients : c.session = x /\ c.roomId = r /\ c.peerId = p

Meets(x, r, q) ==
  \E c, d \in clients : /\ c.session = x /\ c.roomId = r
                        /\ d.roomId = r /\ d.peerId = q /\ c.peerId # q

\* A "joined" for room r is to be sent to x, or on its way.
JoinTold(x, r) == \E m \in Told(x) : Starts(m, r)
JoinSent(x, r) == HasStart(outbox[x], r)
JoinUnderWay(x, r) == JoinTold(x, r) \/ JoinSent(x, r)

\* The client of u has read a "joined" for room r; the peers it sees there.
Knows(u, r) == r \in DOMAIN rooms[u] /\ rooms[u][r].myPeerId # NoPeer
Seen(u, r) == IF r \in DOMAIN rooms[u] THEN rooms[u][r].participants ELSE {}

Attached(u, x) == link[u] = x /\ session[x] = "open"

Asked(x) == {requests[x][i] : i \in DOMAIN requests[x]}

StartsOnce(queue) ==
  \A i, j \in DOMAIN queue, r \in RoomIds :
    Starts(queue[i], r) /\ Starts(queue[j], r) => i = j

\* A session that is told it is in a room is in it, and told so once.
JoinsAreEntries ==
  \A x \in Sessions :
    /\ StartsOnce(outbox[x])
    /\ \A i \in DOMAIN outbox[x] : outbox[x][i].type = "joined" =>
         InAs(x, outbox[x][i].roomId, outbox[x][i].peerId)
    /\ \A m \in Told(x) : m.type = "joined" =>
         InAs(x, m.roomId, m.peerId) /\ ~JoinSent(x, m.roomId)

\* A client that has read it is in the room, and is told nothing else.
KnownAreEntries ==
  \A u \in Usernames, x \in Sessions, r \in RoomIds :
    Attached(u, x) /\ Knows(u, r) =>
      InAs(x, r, rooms[u][r].myPeerId) /\ ~JoinUnderWay(x, r)

\* A request to leave that will be granted is that of a client which has
\* forgotten the room; it names a peer id that is no longer handed out.
LeaveIsLast(x, req) ==
  /\ InAs(x, req.roomId, req.peerId) =>
       /\ ~JoinUnderWay(x, req.roomId)
       /\ \A u \in Usernames : link[u] = x => ~Knows(u, req.roomId)
  /\ req.peerId # NoPeer =>
       /\ req.peerId < nextPeerSeq
       /\ req.peerId \in DOMAIN db.members => InAs(x, req.roomId, req.peerId)

LeavesAreLast ==
  \A x \in Sessions : \A req \in Asked(x) : req.type = "leave" => LeaveIsLast(x, req)

\* Only those leave who do so.
OthersStay ==
  \A u \in Usernames \ Leavers, x \in Sessions :
    link[u] = x => \A req \in Asked(x) : req.type # "leave"

\* Without a connection a client knows nothing of its rooms.
LostIsFresh ==
  \A u \in Usernames : link[u] = NoLink => \A r \in DOMAIN rooms[u] : rooms[u][r] = Fresh

ToldOnce == \A s \in Sessions : TellsOnce(todo[s])

\* What is to be told x adds q to room r, or drops it.
ToldAdds(x, r, q) == \E m \in Told(x) : Adds(m, r, q)
ToldDrops(x, r, q) == \E m \in Told(x) : Drops(m, r, q)

\* When all is told and read the client of u, which is that of session x, will
\* see q in room r; in the first case whatever it sees before the next "joined".
WillKnow(u, x, r, q) ==
  \/ ToldAdds(x, r, q)
  \/ /\ ~JoinTold(x, r) /\ ~ToldDrops(x, r, q)
     /\ \/ JoinSent(x, r) /\ Anew(outbox[x], r, q)
        \/ ~JoinSent(x, r) /\ After(outbox[x], r, q, Seen(u, r))

WillSee(u, x, r, q) ==
  \/ ToldAdds(x, r, q)
  \/ ~ToldDrops(x, r, q) /\ After(outbox[x], r, q, Seen(u, r))

\* The clients of a room will see those who are online in it, and no others.
NobodyMissed ==
  \A u \in Usernames, x \in Sessions, r \in RoomIds, q \in PeerIds :
    Attached(u, x) /\ Meets(x, r, q) /\ (JoinUnderWay(x, r) \/ Knows(u, r))
    => WillKnow(u, x, r, q)

NoGhostsToCome ==
  \A u \in Usernames \ Leavers, x \in Sessions, r \in RoomIds, q \in PeerIds :
    Attached(u, x) /\ WillSee(u, x, r, q) => Meets(x, r, q)

EntriesInv ==
  JoinsAreEntries /\ KnownAreEntries /\ LeavesAreLast /\ OthersStay /\ LostIsFresh

PresenceInv == ToldOnce /\ EntriesInv /\ NobodyMissed /\ NoGhostsToCome

-----------------------------------------------------------------------------
(* What all steps need.                                                    *)

(***************************************************************************)
(* The types of messages: those on their way and those to be sent.           *)
(***************************************************************************)
LEMMA ToldAreMessages ==
  ASSUME NEW n, TypedUpTo(n)
  PROVE  \A x : Told(x) \subseteq MessagesUpTo(n)
<1>1. SUFFICES ASSUME NEW s \in Sessions, NEW i \in DOMAIN todo[s], todo[s][i].op = "send"
               PROVE  todo[s][i].msg \in MessagesUpTo(n)
  BY TellsMean
<1>2. todo[s][i] \in StepsUpTo(n)
  BY DEF TypedUpTo
<1>3. QED
  BY <1>1, <1>2 DEF StepsUpTo

\* The requests a session has asked are typed.
LEMMA AskedAreRequests ==
  ASSUME NEW n, TypedUpTo(n), NEW x \in Sessions, NEW req \in Asked(x)
  PROVE  req \in RequestsUpTo(n) /\ (req.type = "leave" => req.roomId \in RoomIds)
<1>1. req \in RequestsUpTo(n)
  BY DEF Asked, TypedUpTo
<1>2. QED
  BY <1>1 DEF RequestsUpTo

\* A message that is about a room is about one that is.
LEMMA AboutMeans ==
  ASSUME NEW n, NEW m \in MessagesUpTo(n), NEW r, NEW q
  PROVE  /\ Adds(m, r, q) \/ Drops(m, r, q) \/ Starts(m, r) => About(m, r) /\ r \in RoomIds
         /\ m.type = "joined" => Starts(m, m.roomId) /\ m.roomId \in RoomIds
         /\ ~(Adds(m, r, q) /\ Drops(m, r, q))
         /\ ~(Starts(m, r) /\ Drops(m, r, q))
BY MessagesMean DEF About, Adds, Drops, Starts

(***************************************************************************)
(* Who is online, by the entries.                                           *)
(***************************************************************************)
LEMMA OnlineIsEntered ==
  ASSUME RegistryInv, NEW r, NEW q
  PROVE  q \in FindMembersByRoom(db, r) /\ Online(q) <=>
           \E d \in clients : d.roomId = r /\ d.peerId = q
<1>1. ASSUME q \in FindMembersByRoom(db, r), Online(q)
      PROVE  \E d \in clients : d.roomId = r /\ d.peerId = q
  <2>1. PICK d \in clients : d.peerId = q
    BY <1>1 DEF Online, RegistryInv, ConnectionsMatchClients
  <2>2. d.roomId = r
    BY <1>1, <2>1 DEF FindMembersByRoom, RegistryInv, ClientsAreMembers
  <2>3. QED
    BY <2>1, <2>2
<1>2. ASSUME NEW d \in clients, d.roomId = r, d.peerId = q
      PROVE  q \in FindMembersByRoom(db, r) /\ Online(q)
  <2>1. q \in DOMAIN db.members /\ db.members[q].room_id = r
    BY <1>2 DEF RegistryInv, ClientsAreMembers
  <2>2. q \in DOMAIN connections /\ connections[q] = d.session /\ d.session \in Sessions
    BY <1>2 DEF RegistryInv, ConnectionsMatchClients, TypeOK, RamTypeOK, ClientInfo
  <2>3. QED
    BY <2>1, <2>2, RegistryAssumption DEF FindMembersByRoom, Online
<1>3. QED
  BY <1>1, <1>2

\* The other members online, and the sessions that are told of them.
LEMMA OnlineMeans ==
  ASSUME RegistryInv, NEW r, NEW p
  PROVE  /\ \A q : q \in {k \in FindMembersByRoom(db, r) \ {p} : Online(k)} <=>
                     q # p /\ \E d \in clients : d.roomId = r /\ d.peerId = q
         /\ \A x : x \in OnlinePeers(r, p) <=>
                     \E d \in clients : d.roomId = r /\ d.peerId # p /\ d.session = x
<1>1. \A q : q \in FindMembersByRoom(db, r) /\ Online(q) <=>
             \E d \in clients : d.roomId = r /\ d.peerId = q
  BY OnlineIsEntered
<1>2. \A d \in clients : connections[d.peerId] = d.session
  BY DEF RegistryInv, ConnectionsMatchClients
<1>3. ASSUME NEW x
      PROVE  x \in OnlinePeers(r, p) <=>
               \E d \in clients : d.roomId = r /\ d.peerId # p /\ d.session = x
  <2>1. x \in OnlinePeers(r, p) <=>
          \E q \in FindMembersByRoom(db, r) \ {p} : Online(q) /\ connections[q] = x
    BY DEF OnlinePeers
  <2>2. QED
    BY <1>1, <1>2, <2>1
<1>4. QED
  BY <1>1, <1>3

(***************************************************************************)
(* What a step that lets nobody in or out owes the entries, when it delivers *)
(* no message to a client.                                                  *)
(***************************************************************************)
LEMMA KnownStay ==
  ASSUME NEW n, TypedUpTo(n), TypedUpTo(n)', EntriesInv,
         UNCHANGED <<clients, nextPeerSeq>>, DOMAIN db'.members = DOMAIN db.members,
         \A x \in Sessions, r \in RoomIds : JoinUnderWay(x, r)' => JoinUnderWay(x, r),
         \A u \in Usernames : link'[u] # NoLink => link'[u] = link[u],
         \A u \in Usernames, r \in RoomIds : link'[u] # NoLink /\ Knows(u, r)' =>
           Knows(u, r) /\ rooms'[u][r].myPeerId = rooms[u][r].myPeerId,
         \A x \in Sessions : session'[x] = "open" => session[x] = "open",
         \A x \in Sessions : \A req \in Asked(x)' :
           \/ req \in Asked(x) \/ req.type # "leave"
           \/ LeaveIsLast(x, req)' /\ \A u \in Usernames : link'[u] = x => u \in Leavers
  PROVE  KnownAreEntries' /\ LeavesAreLast' /\ OthersStay'
<1>1. \A x \in Sessions : x # NoLink
  BY GroupChatAssumption
<1>2. \A x, r, p : InAs(x, r, p)' <=> InAs(x, r, p)
  BY DEF InAs
<1>3. ASSUME NEW u \in Usernames, NEW x \in Sessions, NEW r \in RoomIds,
             Attached(u, x)', Knows(u, r)'
      PROVE  InAs(x, r, rooms'[u][r].myPeerId) /\ ~JoinUnderWay(x, r)'
  <2>1. link'[u] # NoLink /\ link[u] = x /\ session[x] = "open"
    BY <1>1, <1>3 DEF Attached
  <2>2. Knows(u, r) /\ rooms'[u][r].myPeerId = rooms[u][r].myPeerId
    BY <1>3, <2>1
  <2>3. InAs(x, r, rooms[u][r].myPeerId) /\ ~JoinUnderWay(x, r)
    BY <2>1, <2>2 DEF EntriesInv, KnownAreEntries, Attached
  <2>4. QED
    BY <2>2, <2>3
<1>4. KnownAreEntries'
  <2>1. ASSUME NEW u \in Usernames, NEW x \in Sessions, NEW r \in RoomIds,
               Attached(u, x)', Knows(u, r)', NEW p, p = rooms'[u][r].myPeerId
        PROVE  InAs(x, r, p)' /\ ~JoinUnderWay(x, r)'
    BY <1>2, <1>3, <2>1
  <2>2. QED
    BY <2>1 DEF KnownAreEntries, InAs
<1>5. ASSUME NEW x \in Sessions, NEW req \in Asked(x)', req.type = "leave",
             req \in Asked(x)
      PROVE  LeaveIsLast(x, req)'
  <2>1. LeaveIsLast(x, req) /\ req.roomId \in RoomIds
    BY <1>5, AskedAreRequests DEF EntriesInv, LeavesAreLast
  <2>2. ASSUME InAs(x, req.roomId, req.peerId)
        PROVE  /\ ~JoinUnderWay(x, req.roomId)'
               /\ \A u \in Usernames : link'[u] = x => ~Knows(u, req.roomId)'
    BY <1>1, <2>1, <2>2 DEF LeaveIsLast
  <2>3. QED
    BY <1>2, <2>1, <2>2 DEF LeaveIsLast
<1>6. LeavesAreLast'
  BY <1>5 DEF LeavesAreLast
<1>7. OthersStay'
  <2>1. ASSUME NEW u \in Usernames \ Leavers, NEW x \in Sessions, link'[u] = x,
               NEW req \in Asked(x)', req.type = "leave"
        PROVE  FALSE
    <3>1. link[u] = x /\ req \in Asked(x)
      BY <1>1, <2>1
    <3>2. QED
      BY <2>1, <3>1 DEF EntriesInv, OthersStay
  <2>2. QED
    BY <2>1 DEF OthersStay
<1>8. QED
  BY <1>4, <1>6, <1>7

(***************************************************************************)
(* The requests after an application or a client has made some.             *)
(***************************************************************************)
LEMMA RequestAsks ==
  ASSUME NEW n, TypedUpTo(n), NEW u \in Usernames, NEW reqs \in Seq(RequestsUpTo(n)),
         Request(u, reqs), NEW x \in Sessions, NEW req \in Asked(x)'
  PROVE  \/ req \in Asked(x)
         \/ Attached(u, x) /\ \E i \in DOMAIN reqs : reqs[i] = req
<1>1. requests[x] \in Seq(RequestsUpTo(n)) /\ DOMAIN requests = Sessions
  BY DEF TypedUpTo
<1>2. PICK i \in DOMAIN requests'[x] : requests'[x][i] = req
  BY DEF Asked
<1>3. CASE requests'[x] = requests[x]
  BY <1>2, <1>3 DEF Asked
<1>4. CASE requests'[x] # requests[x]
  <2>1. Attached(u, x) /\ requests'[x] = requests[x] \o reqs
    BY <1>1, <1>4 DEF Request, Attached
  <2>2. \/ i \in DOMAIN requests[x] /\ (requests[x] \o reqs)[i] = requests[x][i]
        \/ /\ i - Len(requests[x]) \in DOMAIN reqs
           /\ (requests[x] \o reqs)[i] = reqs[i - Len(requests[x])]
    BY <1>1, <1>2, <2>1
  <2>3. CASE i \in DOMAIN requests[x] /\ (requests[x] \o reqs)[i] = requests[x][i]
    BY <1>2, <2>1, <2>3 DEF Asked
  <2>4. QED
    BY <1>2, <2>1, <2>2, <2>3
<1>5. QED
  BY <1>3, <1>4

-----------------------------------------------------------------------------
(* What the application does.                                              *)

\* A step changes nothing of what the client of v knows of room r, or makes it
\* forget the room.
Remembers(v, r) ==
  \/ /\ Knows(v, r)' <=> Knows(v, r)
     /\ Knows(v, r) => rooms'[v][r].myPeerId = rooms[v][r].myPeerId
     /\ Seen(v, r)' = Seen(v, r)
  \/ ~Knows(v, r)' /\ Seen(v, r)' = {}

(***************************************************************************)
(* A step that asks for something, and tells nobody anything.               *)
(***************************************************************************)
LEMMA AskingKeepsPresence ==
  ASSUME NEW n, TypedUpTo(n), TypedUpTo(n)', PresenceInv,
         UNCHANGED <<vars, todo, outbox, link>>, LostIsFresh',
         \A v \in Usernames, r \in RoomIds : Remembers(v, r),
         NEW u \in Usernames, NEW req \in RequestsUpTo(n), Request(u, <<req>>),
         req.type = "leave" => \A x \in Sessions : Attached(u, x) =>
           LeaveIsLast(x, req)' /\ \A v \in Usernames : link[v] = x => v \in Leavers
  PROVE  PresenceInv'
<1>1. UNCHANGED <<db, clients, nextPeerSeq, session, todo, outbox, link>>
  BY DEF vars
<1>2. /\ \A x : Told(x)' = Told(x)
      /\ \A x, r : JoinTold(x, r)' = JoinTold(x, r) /\ JoinSent(x, r)' = JoinSent(x, r)
      /\ \A x, r, q : /\ ToldAdds(x, r, q)' = ToldAdds(x, r, q)
                      /\ ToldDrops(x, r, q)' = ToldDrops(x, r, q)
                      /\ Meets(x, r, q)' = Meets(x, r, q)
                      /\ InAs(x, r, q)' = InAs(x, r, q)
      /\ \A v, x : Attached(v, x)' = Attached(v, x)
  BY <1>1 DEF Told, JoinTold, JoinSent, ToldAdds, ToldDrops, Meets, InAs, Attached
<1>3. \A x, r : JoinUnderWay(x, r)' = JoinUnderWay(x, r)
  BY <1>2 DEF JoinUnderWay
<1>4. ASSUME NEW x \in Sessions, NEW new \in Asked(x)'
      PROVE  \/ new \in Asked(x) \/ new.type # "leave"
             \/ LeaveIsLast(x, new)' /\ \A v \in Usernames : link'[v] = x => v \in Leavers
  <2>1. PICK reqs : reqs = <<req>>
    OBVIOUS
  <2>2. /\ reqs \in Seq(RequestsUpTo(n)) /\ Request(u, reqs)
        /\ \A i \in DOMAIN reqs : reqs[i] = req
    BY <2>1
  <2>3. new \in Asked(x) \/ (Attached(u, x) /\ \E i \in DOMAIN reqs : reqs[i] = new)
    BY <2>2, RequestAsks
  <2>4. CASE Attached(u, x) /\ new = req /\ req.type = "leave"
    <3>1. LeaveIsLast(x, req)' /\ \A v \in Usernames : link'[v] = x => v \in Leavers
      BY <1>1, <2>4
    <3>2. QED
      BY <2>4, <3>1
  <2>5. QED
    BY <2>2, <2>3, <2>4
<1>5. KnownAreEntries' /\ LeavesAreLast' /\ OthersStay'
  <2>1. \A v \in Usernames, r \in RoomIds : Knows(v, r)' =>
          Knows(v, r) /\ rooms'[v][r].myPeerId = rooms[v][r].myPeerId
    BY DEF Remembers
  <2>2. EntriesInv
    BY DEF PresenceInv
  <2>3. QED
    BY <1>1, <1>3, <1>4, <2>1, <2>2, KnownStay
<1>6. JoinsAreEntries' /\ ToldOnce'
  BY <1>1, <1>2 DEF PresenceInv, EntriesInv, JoinsAreEntries, ToldOnce, InAs
<1>7. NobodyMissed'
  <2>1. ASSUME NEW v \in Usernames, NEW x \in Sessions, NEW r \in RoomIds, NEW q \in PeerIds,
               Attached(v, x), Meets(x, r, q), JoinUnderWay(x, r) \/ Knows(v, r)'
        PROVE  WillKnow(v, x, r, q)'
    <3>1. WillKnow(v, x, r, q)
      BY <2>1 DEF PresenceInv, NobodyMissed, Remembers
    <3>2. CASE Seen(v, r)' = Seen(v, r)
      BY <1>1, <1>2, <3>1, <3>2 DEF WillKnow
    <3>3. CASE ~Knows(v, r)'
      BY <1>1, <1>2, <2>1, <3>1, <3>3 DEF WillKnow, JoinUnderWay
    <3>4. QED
      BY <3>2, <3>3 DEF Remembers
  <2>2. QED
    BY <1>2, <1>3, <2>1 DEF NobodyMissed
<1>8. NoGhostsToCome'
  <2>1. ASSUME NEW v \in Usernames \ Leavers, NEW x \in Sessions, NEW r \in RoomIds,
               NEW q \in PeerIds, Attached(v, x), WillSee(v, x, r, q)'
        PROVE  Meets(x, r, q)
    <3>1. Seen(v, r)' \subseteq Seen(v, r)
      BY DEF Remembers
    <3>2. WillSee(v, x, r, q)
      BY <1>1, <1>2, <2>1, <3>1, AfterMore DEF WillSee
    <3>3. QED
      BY <2>1, <3>2 DEF PresenceInv, NoGhostsToCome
  <2>2. QED
    BY <1>2, <2>1 DEF NoGhostsToCome
<1>9. QED
  BY <1>5, <1>6, <1>7, <1>8 DEF PresenceInv, EntriesInv

(***************************************************************************)
(* To join a chat, or to join it again, is to forget what was known of it.   *)
(***************************************************************************)
LEMMA JoinChatKeepsPresence ==
  ASSUME NEW n, TypedUpTo(n), TypedUpTo(n)', PresenceInv,
         NEW u \in Usernames, NEW r \in RoomIds, JoinChat(u, r)
  PROVE  PresenceInv'
<1>1. /\ UNCHANGED <<vars, todo, outbox, link>> /\ Request(u, <<JoinRequest(u, r)>>)
      /\ rooms' = [rooms EXCEPT ![u] = Replace(rooms[u], r, Fresh)]
  BY DEF JoinChat
<1>2. JoinRequest(u, r) \in RequestsUpTo(n) /\ JoinRequest(u, r).type # "leave"
  BY RequestsAreTyped DEF JoinRequest
<1>3. /\ \A v \in Usernames : v # u => rooms'[v] = rooms[v]
      /\ DOMAIN rooms'[u] = DOMAIN rooms[u] \cup {r} /\ rooms'[u][r] = Fresh
      /\ \A y \in DOMAIN rooms[u] : y # r => rooms'[u][y] = rooms[u][y]
  BY <1>1 DEF TypedUpTo, Replace
<1>4. ASSUME NEW v \in Usernames, NEW y \in RoomIds
      PROVE  Remembers(v, y)
  <2>1. CASE v = u /\ y = r
    BY <1>3, <2>1 DEF Remembers, Knows, Seen, Fresh
  <2>2. CASE v = u /\ y # r
    BY <1>3, <2>2 DEF Remembers, Knows, Seen
  <2>3. CASE v # u
    BY <1>3, <2>3 DEF Remembers, Knows, Seen
  <2>4. QED
    BY <2>1, <2>2, <2>3
<1>5. LostIsFresh'
  <2>1. link' = link /\ LostIsFresh
    BY <1>1 DEF PresenceInv, EntriesInv
  <2>2. ASSUME NEW v \in Usernames, link[v] = NoLink, NEW y \in DOMAIN rooms'[v]
        PROVE  rooms'[v][y] = Fresh
    BY <1>3, <2>1, <2>2 DEF LostIsFresh
  <2>3. QED
    BY <2>1, <2>2 DEF LostIsFresh
<1>6. QED
  BY <1>1, <1>2, <1>4, <1>5, AskingKeepsPresence

(***************************************************************************)
(* So it is to leave it; the request names the entry of the client, if it    *)
(* knows that it has one.                                                    *)
(***************************************************************************)
LEMMA LeaveChatKeepsPresence ==
  ASSUME NEW n, TypedUpTo(n), TypedUpTo(n)', RegistryInv, LinksApart, PresenceInv,
         NEW u \in Usernames, NEW r \in RoomIds, LeaveChat(u, r)
  PROVE  PresenceInv'
<1>1. PICK p : p = rooms[u][r].myPeerId
  OBVIOUS
<1>2. PICK req : req = LeaveRequest(r, p)
  OBVIOUS
<1>3. /\ UNCHANGED <<vars, todo, outbox, link>> /\ Request(u, <<req>>)
      /\ rooms' = [rooms EXCEPT ![u] = Remove(rooms[u], {r})]
      /\ u \in Leavers /\ r \in DOMAIN rooms[u]
  BY <1>1, <1>2 DEF LeaveChat
<1>4. req \in RequestsUpTo(n) /\ req.roomId = r /\ req.peerId = p
  <2>1. p \in PeerIds \cup {NoPeer}
    BY <1>3, <1>1 DEF TypedUpTo, IsTable, RoomStates
  <2>2. QED
    BY <1>2, <2>1, RequestsAreTyped DEF LeaveRequest
<1>5. /\ \A v \in Usernames : v # u => rooms'[v] = rooms[v]
      /\ DOMAIN rooms'[u] = DOMAIN rooms[u] \ {r}
      /\ \A y \in DOMAIN rooms'[u] : rooms'[u][y] = rooms[u][y]
  BY <1>3 DEF TypedUpTo, Remove
<1>6. ASSUME NEW v \in Usernames, NEW y \in RoomIds
      PROVE  Remembers(v, y)
  <2>1. CASE v = u /\ y = r
    BY <1>5, <2>1 DEF Remembers, Knows, Seen
  <2>2. CASE v = u /\ y # r
    BY <1>5, <2>2 DEF Remembers, Knows, Seen
  <2>3. CASE v # u
    BY <1>5, <2>3 DEF Remembers, Knows, Seen
  <2>4. QED
    BY <2>1, <2>2, <2>3
<1>7. LostIsFresh'
  <2>1. link' = link /\ LostIsFresh
    BY <1>3 DEF PresenceInv, EntriesInv
  <2>2. ASSUME NEW v \in Usernames, link[v] = NoLink, NEW y \in DOMAIN rooms'[v]
        PROVE  rooms'[v][y] = Fresh
    BY <1>5, <2>1, <2>2 DEF LostIsFresh
  <2>3. QED
    BY <2>1, <2>2 DEF LostIsFresh
<1>8. ASSUME NEW x \in Sessions, Attached(u, x)
      PROVE  LeaveIsLast(x, req)' /\ \A v \in Usernames : link[v] = x => v \in Leavers
  <2>1. link[u] = x /\ x # NoLink /\ \A v \in Usernames : link[v] = x => v = u
    BY <1>8, GroupChatAssumption DEF Attached, LinksApart
  <2>2. p # NoPeer => InAs(x, r, p) /\ ~JoinUnderWay(x, r)
    BY <1>3, <1>8, <1>1 DEF PresenceInv, EntriesInv, KnownAreEntries, Knows
  <2>3. InAs(x, r, p) => p # NoPeer /\ p \in DOMAIN db.members
    <3>1. \A c \in clients : c.peerId \in DOMAIN db.members /\ c.peerId \in PeerIds
      BY DEF RegistryInv, ClientsAreMembers, TypeOK, RamTypeOK, ClientInfo
    <3>2. NoPeer \notin PeerIds
      BY DEF NoPeer, PeerIds
    <3>3. QED
      BY <3>1, <3>2 DEF InAs
  <2>4. ~Knows(u, r)'
    BY <1>5 DEF Knows
  <2>5. p \in DOMAIN db.members => p < nextPeerSeq
    BY DEF RegistryInv, PeerIdsFresh
  <2>6. UNCHANGED <<db, clients, nextPeerSeq, link, todo, outbox>>
    BY <1>3 DEF vars
  <2>7. InAs(x, r, p)' <=> InAs(x, r, p)
    BY <2>6 DEF InAs
  <2>8. JoinUnderWay(x, r)' <=> JoinUnderWay(x, r)
    BY <2>6 DEF JoinUnderWay, JoinTold, JoinSent, Told
  <2>9. \A v \in Usernames : link'[v] = x => ~Knows(v, r)' /\ v \in Leavers
    BY <1>3, <2>1, <2>4, <2>6
  <2>10. LeaveIsLast(x, req)'
    BY <1>4, <2>2, <2>3, <2>5, <2>6, <2>7, <2>8, <2>9 DEF LeaveIsLast
  <2>11. QED
    BY <2>6, <2>9, <2>10
<1>9. QED
  BY <1>3, <1>4, <1>6, <1>7, <1>8, AskingKeepsPresence

(***************************************************************************)
(* To post is to know what was known.                                       *)
(***************************************************************************)
LEMMA PostKeepsPresence ==
  ASSUME NEW n, TypedUpTo(n), TypedUpTo(n)', PresenceInv,
         NEW u \in Usernames, NEW r \in RoomIds, Post(u, r)
  PROVE  PresenceInv'
<1>1. /\ UNCHANGED <<vars, todo, outbox, link, rooms>> /\ Request(u, <<PostRequest(r)>>)
  BY DEF Post, clientVars
<1>2. PostRequest(r) \in RequestsUpTo(n) /\ PostRequest(r).type # "leave"
  BY RequestsAreTyped DEF PostRequest
<1>3. \A v \in Usernames, y \in RoomIds : Remembers(v, y)
  BY <1>1 DEF Remembers, Knows, Seen
<1>4. LostIsFresh'
  BY <1>1 DEF PresenceInv, EntriesInv, LostIsFresh
<1>5. QED
  BY <1>1, <1>2, <1>3, <1>4, AskingKeepsPresence

-----------------------------------------------------------------------------
(* The connection.                                                         *)

(***************************************************************************)
(* A client that has lost its connection knows nothing.                     *)
(***************************************************************************)
LEMMA DisconnectedKeepsPresence ==
  ASSUME NEW n, TypedUpTo(n), TypedUpTo(n)', LinksApart, PresenceInv,
         NEW u \in Usernames, OnDisconnected(u)
  PROVE  PresenceInv'
<1>1. /\ UNCHANGED <<vars, requests, todo>> /\ link[u] # NoLink
      /\ link' = [link EXCEPT ![u] = NoLink]
      /\ rooms' = [rooms EXCEPT ![u] = [r \in DOMAIN rooms[u] |-> Fresh]]
      /\ outbox' = [outbox EXCEPT ![link[u]] = <<>>]
  BY DEF OnDisconnected
<1>2. PICK s : s = link[u]
  OBVIOUS
<1>3. /\ s \in Sessions /\ link'[u] = NoLink /\ outbox'[s] = <<>>
      /\ \A v \in Usernames : v # u =>
           link'[v] = link[v] /\ link[v] # s /\ rooms'[v] = rooms[v]
      /\ \A x \in Sessions : x # s => outbox'[x] = outbox[x]
      /\ \A r \in DOMAIN rooms'[u] : rooms'[u][r] = Fresh
  BY <1>1, <1>2 DEF TypedUpTo, LinksApart
<1>4. UNCHANGED <<db, clients, nextPeerSeq, session, todo, requests>>
  BY <1>1 DEF vars
<1>5. /\ \A x : Told(x)' = Told(x)
      /\ \A x : Asked(x)' = Asked(x)
      /\ \A x, r, q : Meets(x, r, q)' = Meets(x, r, q) /\ InAs(x, r, q)' = InAs(x, r, q)
  BY <1>4 DEF Told, Asked, Meets, InAs
<1>6. \A r : ~HasStart(<<>>, r)
  BY DEF HasStart
<1>7. \A x \in Sessions, r \in RoomIds :
        /\ JoinTold(x, r)' = JoinTold(x, r)
        /\ JoinSent(x, r)' => JoinSent(x, r)
        /\ x # s => JoinSent(x, r)' = JoinSent(x, r)
  BY <1>3, <1>5, <1>6 DEF JoinTold, JoinSent
<1>8. \A x \in Sessions, r \in RoomIds : JoinUnderWay(x, r)' => JoinUnderWay(x, r)
  BY <1>7 DEF JoinUnderWay
<1>9. LostIsFresh'
  BY <1>3 DEF PresenceInv, EntriesInv, LostIsFresh
<1>10. KnownAreEntries' /\ LeavesAreLast' /\ OthersStay'
  <2>1. \A v \in Usernames : link'[v] # NoLink => v # u /\ link'[v] = link[v]
    BY <1>3
  <2>2. \A v \in Usernames, r \in RoomIds : link'[v] # NoLink /\ Knows(v, r)' =>
          Knows(v, r) /\ rooms'[v][r].myPeerId = rooms[v][r].myPeerId
    BY <1>3, <2>1 DEF Knows
  <2>3. EntriesInv
    BY DEF PresenceInv
  <2>4. QED
    BY <1>4, <1>5, <1>8, <2>1, <2>2, <2>3, KnownStay
<1>11. ToldOnce'
  BY <1>4 DEF PresenceInv, ToldOnce
<1>12. JoinsAreEntries'
  <2>1. ASSUME NEW x \in Sessions
        PROVE  /\ StartsOnce(outbox'[x])
               /\ \A i \in DOMAIN outbox'[x] : outbox'[x][i].type = "joined" =>
                    InAs(x, outbox'[x][i].roomId, outbox'[x][i].peerId)
    <3>1. CASE x = s
      BY <1>3, <3>1 DEF StartsOnce
    <3>2. CASE x # s
      BY <1>3, <3>2 DEF PresenceInv, EntriesInv, JoinsAreEntries
    <3>3. QED
      BY <3>1, <3>2
  <2>2. ASSUME NEW x \in Sessions, NEW m \in Told(x)', m.type = "joined"
        PROVE  InAs(x, m.roomId, m.peerId) /\ ~JoinSent(x, m.roomId)'
    <3>1. m \in Told(x) /\ m.roomId \in RoomIds
      BY <1>5, <2>2, ToldAreMessages, AboutMeans
    <3>2. QED
      BY <1>7, <2>2, <3>1 DEF PresenceInv, EntriesInv, JoinsAreEntries
  <2>3. QED
    BY <1>4, <2>1, <2>2 DEF JoinsAreEntries, InAs
<1>13. ASSUME NEW v \in Usernames, NEW x \in Sessions, Attached(v, x)'
       PROVE  /\ Attached(v, x) /\ outbox'[x] = outbox[x]
              /\ \A r : (Knows(v, r)' <=> Knows(v, r)) /\ Seen(v, r)' = Seen(v, r)
  <2>1. v # u /\ x # s /\ link[v] = x
    BY <1>3, <1>13, GroupChatAssumption DEF Attached
  <2>2. QED
    BY <1>3, <1>4, <1>13, <2>1 DEF Attached, Knows, Seen
<1>14. NobodyMissed'
  <2>1. ASSUME NEW v \in Usernames, NEW x \in Sessions, NEW r \in RoomIds, NEW q \in PeerIds,
               Attached(v, x)', Meets(x, r, q)', JoinUnderWay(x, r)' \/ Knows(v, r)'
        PROVE  WillKnow(v, x, r, q)'
    <3>1. WillKnow(v, x, r, q)
      BY <1>5, <1>8, <1>13, <2>1 DEF PresenceInv, NobodyMissed
    <3>2. QED
      BY <1>5, <1>13, <2>1, <3>1 DEF WillKnow, ToldAdds, ToldDrops, JoinTold, JoinSent
  <2>2. QED
    BY <2>1 DEF NobodyMissed
<1>15. NoGhostsToCome'
  <2>1. ASSUME NEW v \in Usernames \ Leavers, NEW x \in Sessions, NEW r \in RoomIds,
               NEW q \in PeerIds, Attached(v, x)', WillSee(v, x, r, q)'
        PROVE  Meets(x, r, q)'
    <3>1. WillSee(v, x, r, q)
      BY <1>5, <1>13, <2>1 DEF WillSee, ToldAdds, ToldDrops
    <3>2. QED
      BY <1>5, <1>13, <2>1, <3>1 DEF PresenceInv, NoGhostsToCome
  <2>2. QED
    BY <2>1 DEF NoGhostsToCome
<1>16. QED
  BY <1>9, <1>10, <1>11, <1>12, <1>14, <1>15 DEF PresenceInv, EntriesInv

(***************************************************************************)
(* Nobody is in a room through a session that has just been accepted, and    *)
(* the client at its other end is told nothing yet.                          *)
(***************************************************************************)
LEMMA ConnectKeepsPresence ==
  ASSUME Workers = 1, NEW n, TypedUpTo(n), TypedUpTo(n)', RegistryInv, OneThread,
         ClosedIsEmpty, PresenceInv,
         NEW u \in Usernames, NEW s \in Sessions, OnConnected(u, s)
  PROVE  PresenceInv'
<1>1. /\ link[u] = NoLink /\ \A v \in Usernames : link[v] # s
      /\ Idle /\ Accept(s) /\ UNCHANGED <<todo, outbox, rooms>>
      /\ link' = [link EXCEPT ![u] = s]
  BY DEF OnConnected, OnAccept
<1>2. PICK order \in SeqExt!SetToSeqs(DOMAIN rooms[u]) :
        requests' = [requests EXCEPT ![s] =
                       [i \in DOMAIN order |-> JoinRequest(u, order[i])]]
  BY DEF OnConnected
<1>3. /\ UNCHANGED <<db, clients, nextPeerSeq>> /\ session[s] # "open"
      /\ session' = [session EXCEPT ![s] = "open"]
  BY <1>1 DEF Accept
<1>4. /\ link'[u] = s /\ \A v \in Usernames : v # u => link'[v] = link[v]
      /\ \A x \in Sessions : x # s =>
           session'[x] = session[x] /\ requests'[x] = requests[x]
      /\ requests'[s] = [i \in DOMAIN order |-> JoinRequest(u, order[i])]
  BY <1>1, <1>2, <1>3 DEF TypedUpTo, RegistryInv, TypeOK
<1>5. /\ \A x : Told(x) = {}
      /\ \A x : Told(x)' = {}
  <2>1. \A t \in Sessions : todo[t] = <<>>
    BY <1>1, IdleMeansDone
  <2>2. \A x : Told(x) = {}
    BY <2>1, NothingTold
  <2>3. QED
    BY <1>1, <2>2 DEF Told
<1>6. outbox[s] = <<>>
  BY <1>3 DEF ClosedIsEmpty
<1>7. /\ \A x, r, q : Meets(x, r, q)' = Meets(x, r, q) /\ InAs(x, r, q)' = InAs(x, r, q)
      /\ \A r, q : ~Meets(s, r, q) /\ ~InAs(s, r, q)
  <2>1. \A c \in clients : c.session # s
    BY <1>3 DEF RegistryInv, ClientsAreMembers
  <2>2. QED
    BY <1>3, <2>1 DEF Meets, InAs
<1>8. /\ \A x, r : JoinUnderWay(x, r)' = JoinUnderWay(x, r)
      /\ \A r : ~JoinUnderWay(s, r)
      /\ \A v, r : (Knows(v, r)' <=> Knows(v, r)) /\ Seen(v, r)' = Seen(v, r)
      /\ \A r : ~Knows(u, r) /\ Seen(u, r) = {}
  <2>1. \A r \in DOMAIN rooms[u] : rooms[u][r] = Fresh
    BY <1>1 DEF PresenceInv, EntriesInv, LostIsFresh
  <2>2. /\ Fresh.myPeerId = NoPeer /\ Fresh.participants = {}
        /\ \A r : ~HasStart(<<>>, r)
    BY DEF Fresh, HasStart
  <2>3. QED
    BY <1>1, <1>5, <1>6, <2>1, <2>2
    DEF JoinUnderWay, JoinTold, JoinSent, Knows, Seen
<1>9. /\ \A x \in Sessions : x # s => Asked(x)' = Asked(x)
      /\ \A req \in Asked(s)' : req.type # "leave"
  BY <1>4 DEF Asked, JoinRequest
<1>10. ASSUME NEW v \in Usernames, NEW x \in Sessions, Attached(v, x)'
       PROVE  \/ v = u /\ x = s
              \/ v # u /\ x # s /\ Attached(v, x)
  BY <1>1, <1>4, <1>10 DEF Attached
<1>11. JoinsAreEntries' /\ ToldOnce'
  <2>1. ASSUME NEW x \in Sessions
        PROVE  /\ StartsOnce(outbox[x])
               /\ \A i \in DOMAIN outbox[x] : outbox[x][i].type = "joined" =>
                    InAs(x, outbox[x][i].roomId, outbox[x][i].peerId)
    BY DEF PresenceInv, EntriesInv, JoinsAreEntries
  <2>2. JoinsAreEntries'
    BY <1>1, <1>3, <1>5, <2>1 DEF JoinsAreEntries, InAs
  <2>3. QED
    BY <1>1, <2>2 DEF PresenceInv, ToldOnce
<1>12. KnownAreEntries'
  <2>1. ASSUME NEW v \in Usernames, NEW x \in Sessions, NEW r \in RoomIds,
               Attached(v, x)', Knows(v, r)'
        PROVE  InAs(x, r, rooms[v][r].myPeerId) /\ ~JoinUnderWay(x, r)
    <3>1. Attached(v, x) /\ Knows(v, r)
      BY <1>8, <1>10, <2>1
    <3>2. QED
      BY <3>1 DEF PresenceInv, EntriesInv, KnownAreEntries
  <2>2. QED
    BY <1>1, <1>3, <1>8, <2>1 DEF KnownAreEntries, InAs
<1>13. LeavesAreLast'
  <2>1. ASSUME NEW x \in Sessions, NEW req \in Asked(x)', req.type = "leave"
        PROVE  LeaveIsLast(x, req)'
    <3>1. x # s /\ req \in Asked(x)
      BY <1>9, <2>1
    <3>2. LeaveIsLast(x, req)
      BY <2>1, <3>1 DEF PresenceInv, EntriesInv, LeavesAreLast
    <3>3. \A v \in Usernames : link'[v] = x => link[v] = x
      BY <1>4, <3>1
    <3>4. QED
      BY <1>3, <1>7, <1>8, <3>2, <3>3 DEF LeaveIsLast
  <2>2. QED
    BY <2>1 DEF LeavesAreLast
<1>14. OthersStay' /\ LostIsFresh'
  <2>1. ASSUME NEW v \in Usernames \ Leavers, NEW x \in Sessions, link'[v] = x,
               NEW req \in Asked(x)', req.type = "leave"
        PROVE  FALSE
    <3>1. x # s /\ req \in Asked(x) /\ link[v] = x
      BY <1>4, <1>9, <2>1
    <3>2. QED
      BY <2>1, <3>1 DEF PresenceInv, EntriesInv, OthersStay
  <2>2. OthersStay'
    BY <2>1 DEF OthersStay
  <2>3. LostIsFresh'
    BY <1>1, <1>4, GroupChatAssumption DEF PresenceInv, EntriesInv, LostIsFresh
  <2>4. QED
    BY <2>2, <2>3
<1>15. NobodyMissed'
  <2>1. ASSUME NEW v \in Usernames, NEW x \in Sessions, NEW r \in RoomIds, NEW q \in PeerIds,
               Attached(v, x)', Meets(x, r, q)', JoinUnderWay(x, r)' \/ Knows(v, r)'
        PROVE  WillKnow(v, x, r, q)'
    <3>1. Attached(v, x)
      BY <1>7, <1>10, <2>1
    <3>2. WillKnow(v, x, r, q)
      BY <1>7, <1>8, <2>1, <3>1 DEF PresenceInv, NobodyMissed
    <3>3. QED
      BY <1>1, <1>5, <1>8, <3>2 DEF WillKnow, ToldAdds, ToldDrops, JoinTold, JoinSent
  <2>2. QED
    BY <2>1 DEF NobodyMissed
<1>16. NoGhostsToCome'
  <2>1. ASSUME NEW v \in Usernames \ Leavers, NEW x \in Sessions, NEW r \in RoomIds,
               NEW q \in PeerIds, Attached(v, x)', WillSee(v, x, r, q)'
        PROVE  Meets(x, r, q)'
    <3>1. WillSee(v, x, r, q)
      BY <1>1, <1>5, <1>8, <2>1 DEF WillSee, ToldAdds, ToldDrops
    <3>2. v # u
      <4>1. ~After(<<>>, r, q, {})
        BY DEF After
      <4>2. QED
        BY <1>5, <1>6, <1>8, <1>10, <2>1, <3>1, <4>1 DEF WillSee, ToldAdds
    <3>3. QED
      BY <1>7, <1>10, <2>1, <3>1, <3>2 DEF PresenceInv, NoGhostsToCome
  <2>2. QED
    BY <2>1 DEF NoGhostsToCome
<1>17. QED
  BY <1>11, <1>12, <1>13, <1>14, <1>15, <1>16 DEF PresenceInv, EntriesInv

-----------------------------------------------------------------------------
(* The handlers of the server go on.                                       *)

\* A "joined" is appended to a queue in which its room has none.
LEMMA StartsOnceAppended ==
  ASSUME NEW M, NEW queue \in Seq(M), NEW m \in M, StartsOnce(queue),
         \A r \in RoomIds : Starts(m, r) => ~HasStart(queue, r)
  PROVE  StartsOnce(Append(queue, m))
<1>1. PICK long : long = Append(queue, m)
  OBVIOUS
<1>2. PICK n : n = Len(queue) + 1
  OBVIOUS
<1>3. /\ DOMAIN long = DOMAIN queue \cup {n} /\ long[n] = m
      /\ \A j \in DOMAIN queue : long[j] = queue[j]
  BY <1>1, <1>2, AtTheEnd
<1>4. ASSUME NEW i \in DOMAIN long, NEW j \in DOMAIN long, NEW r \in RoomIds,
             Starts(long[i], r), Starts(long[j], r)
      PROVE  i = j
  <2>1. CASE i \in DOMAIN queue /\ j \in DOMAIN queue
    BY <1>3, <1>4, <2>1 DEF StartsOnce
  <2>2. CASE i = n \/ j = n
    BY <1>3, <1>4, <2>2 DEF HasStart
  <2>3. QED
    BY <1>3, <2>1, <2>2
<1>5. StartsOnce(long)
  BY <1>4 DEF StartsOnce
<1>6. QED
  BY <1>1, <1>5

\* What is left of a queue has a "joined" for each room once, and none for the
\* room of the one that was first.
LEMMA StartsOnceInRest ==
  ASSUME NEW M, NEW queue \in Seq(M), queue # <<>>, StartsOnce(queue)
  PROVE  /\ StartsOnce(Tail(queue))
         /\ \A r \in RoomIds : Starts(Head(queue), r) => ~HasStart(Tail(queue), r)
<1>1. PICK rest : rest = Tail(queue)
  OBVIOUS
<1>2. /\ \A j \in DOMAIN rest : j + 1 \in DOMAIN queue /\ rest[j] = queue[j + 1] /\ j \in Nat
      /\ 1 \in DOMAIN queue /\ queue[1] = Head(queue) /\ 0 \notin DOMAIN rest
  BY <1>1, WithoutFirst
<1>3. \A i, j \in DOMAIN rest : i + 1 = j + 1 => i = j
  BY <1>2
<1>4. StartsOnce(rest)
  BY <1>2, <1>3 DEF StartsOnce
<1>5. ASSUME NEW r \in RoomIds, Starts(Head(queue), r), HasStart(rest, r)
      PROVE  FALSE
  <2>1. PICK j \in DOMAIN rest : Starts(rest[j], r)
    BY <1>5 DEF HasStart
  <2>2. j + 1 = 1
    BY <1>2, <1>5, <2>1 DEF StartsOnce
  <2>3. QED
    BY <1>2, <2>2
<1>6. QED
  BY <1>1, <1>4, <1>5

(***************************************************************************)
(* A message that was to be told x is on its way to it.                     *)
(***************************************************************************)
LEMMA SendTextKeepsPresence ==
  ASSUME NEW n, TypedUpTo(n), TypedUpTo(n)', OneThread, PresenceInv,
         NEW s \in Sessions, SendText(s), UNCHANGED <<link, rooms>>
  PROVE  PresenceInv'
<1>1. todo[s] # <<>> /\ todo[s] \in Seq(StepsUpTo(n)) /\ todo[s][1].op = "send"
  BY DEF SendText, TypedUpTo
<1>2. PICK T : T = todo[s]
  OBVIOUS
<1>3. PICK x \in T[1].to :
        /\ todo' = [todo EXCEPT ![s] = Send(T[1].to \ {x}, T[1].msg) \o Tail(T)]
        /\ outbox' = IF session[x] = "open"
                     THEN [outbox EXCEPT ![x] = Append(outbox[x], T[1].msg)]
                     ELSE outbox
  <2>1. Head(todo[s]) = T[1] /\ Tail(todo[s]) = Tail(T)
    BY <1>1, <1>2
  <2>2. QED
    BY <2>1 DEF SendText, Continue
<1>4. PICK M : M = T[1].msg
  OBVIOUS
<1>5. /\ UNCHANGED <<db, clients, nextPeerSeq, session, requests>>
      /\ T[1] \in StepsUpTo(n) /\ x \in Sessions /\ M \in MessagesUpTo(n)
  <2>1. T[1] \in StepsUpTo(n)
    BY <1>1, <1>2
  <2>2. QED
    BY <1>1, <1>2, <1>4, <2>1 DEF StepsUpTo, SendText, vars
<1>6. GoesOn(T, x, todo'[s])
  <2>1. todo'[s] = Send(T[1].to \ {x}, T[1].msg) \o Tail(T)
    BY <1>3 DEF TypedUpTo
  <2>2. TellsOnce(T)
    BY <1>2 DEF PresenceInv, ToldOnce
  <2>3. QED
    BY <1>1, <1>2, <2>1, <2>2, TellsOn
<1>7. \A t \in Sessions : t # s => todo'[t] = <<>> /\ todo[t] = <<>>
  BY <1>1, <1>3 DEF OneThread, TypedUpTo
<1>8. ToldOnce'
  BY <1>6, <1>7 DEF PresenceInv, ToldOnce, GoesOn
<1>9. /\ \A y : Told(y)' = Tells(todo'[s], y)
      /\ \A y : Told(y) = Tells(T, y)
  <2>1. \A y : Tells(<<>>, y) = {}
    BY DEF Tells
  <2>2. \A y, m : m \in Told(y) <=> m \in Tells(T, y)
    BY <1>2, <1>7, <2>1, TellsMean
  <2>3. \A y : Told(y)' = Tells(todo'[s], y)
    BY <1>7, ToldByOne
  <2>4. \A y : Told(y) = Tells(T, y)
    BY <2>2
  <2>5. QED
    BY <2>3, <2>4
<1>10. /\ \A y : y # x => Told(y)' = Told(y)
       /\ \A y : Told(y)' \subseteq Told(y)
       /\ M \in Told(x) /\ \A m \in Told(x) : m = M \/ m \in Told(x)'
       /\ \A r \in RoomIds : About(M, r) => \A m \in Told(x)' : ~About(m, r)
  BY <1>4, <1>6, <1>9 DEF GoesOn
<1>11. \A y \in Sessions : y # x => outbox'[y] = outbox[y]
  BY <1>3, <1>5 DEF TypedUpTo
<1>12. session[x] = "open" => outbox'[x] = Append(outbox[x], M)
  BY <1>3, <1>4, <1>5 DEF TypedUpTo
<1>13. session[x] # "open" => outbox'[x] = outbox[x]
  BY <1>3
<1>14. /\ outbox[x] \in Seq(MessagesUpTo(n))
       /\ \A y : Told(y) \subseteq MessagesUpTo(n)
  BY <1>5, ToldAreMessages DEF TypedUpTo
<1>15. /\ \A y, r, q : Meets(y, r, q)' = Meets(y, r, q) /\ InAs(y, r, q)' = InAs(y, r, q)
       /\ \A y : Asked(y)' = Asked(y)
       /\ \A u, y : Attached(u, y)' = Attached(u, y)
       /\ \A u, r : (Knows(u, r)' <=> Knows(u, r)) /\ Seen(u, r)' = Seen(u, r)
  BY <1>5 DEF Meets, InAs, Asked, Attached, Knows, Seen
<1>16. ASSUME NEW y \in Sessions, NEW r \in RoomIds
       PROVE  /\ JoinTold(y, r)' => JoinTold(y, r)
              /\ JoinSent(y, r)' => JoinSent(y, r) \/ (y = x /\ Starts(M, r))
              /\ JoinUnderWay(y, r)' => JoinUnderWay(y, r)
  <2>1. JoinTold(y, r)' => JoinTold(y, r)
    BY <1>10 DEF JoinTold
  <2>2. JoinSent(y, r)' => JoinSent(y, r) \/ (y = x /\ Starts(M, r))
    BY <1>5, <1>11, <1>12, <1>13, <1>14, AfterAppended DEF JoinSent
  <2>3. QED
    BY <1>10, <2>1, <2>2 DEF JoinUnderWay, JoinTold
<1>17. KnownAreEntries' /\ LeavesAreLast' /\ OthersStay' /\ LostIsFresh'
  <2>1. EntriesInv /\ LostIsFresh'
    BY DEF PresenceInv, EntriesInv, LostIsFresh
  <2>2. QED
    BY <1>5, <1>15, <1>16, <2>1, KnownStay
<1>18. JoinsAreEntries'
  <2>1. \A r \in RoomIds : Starts(M, r) => ~JoinSent(x, r) /\ InAs(x, r, M.peerId)
    BY <1>5, <1>10 DEF PresenceInv, EntriesInv, JoinsAreEntries, Starts
  <2>2. ASSUME NEW y \in Sessions
        PROVE  /\ StartsOnce(outbox'[y])
               /\ \A i \in DOMAIN outbox'[y] : outbox'[y][i].type = "joined" =>
                    InAs(y, outbox'[y][i].roomId, outbox'[y][i].peerId)
    <3>1. /\ StartsOnce(outbox[y])
          /\ \A i \in DOMAIN outbox[y] : outbox[y][i].type = "joined" =>
               InAs(y, outbox[y][i].roomId, outbox[y][i].peerId)
      BY DEF PresenceInv, EntriesInv, JoinsAreEntries
    <3>2. CASE y # x \/ session[x] # "open"
      BY <1>11, <1>13, <3>1, <3>2
    <3>3. CASE y = x /\ session[x] = "open"
      <4>1. PICK long : long = Append(outbox[x], M)
        OBVIOUS
      <4>2. StartsOnce(long)
        BY <1>5, <1>14, <2>1, <3>1, <3>3, <4>1, StartsOnceAppended DEF JoinSent
      <4>3. \A i \in DOMAIN long :
              long[i] = M \/ (i \in DOMAIN outbox[x] /\ long[i] = outbox[x][i])
        BY <1>5, <1>14, <4>1, AtTheEnd
      <4>4. M.type = "joined" => InAs(x, M.roomId, M.peerId)
        BY <1>5, <2>1, AboutMeans
      <4>5. \A i \in DOMAIN long : long[i].type = "joined" =>
              InAs(x, long[i].roomId, long[i].peerId)
        BY <3>1, <3>3, <4>3, <4>4
      <4>6. QED
        BY <1>12, <3>3, <4>1, <4>2, <4>5
    <3>4. QED
      BY <3>2, <3>3
  <2>3. ASSUME NEW y \in Sessions, NEW m \in Told(y)', m.type = "joined"
        PROVE  InAs(y, m.roomId, m.peerId) /\ ~JoinSent(y, m.roomId)'
    <3>1. m \in Told(y) /\ Starts(m, m.roomId) /\ About(m, m.roomId) /\ m.roomId \in RoomIds
      BY <1>10, <1>14, <2>3, AboutMeans
    <3>2. InAs(y, m.roomId, m.peerId) /\ ~JoinSent(y, m.roomId)
      BY <2>3, <3>1 DEF PresenceInv, EntriesInv, JoinsAreEntries
    <3>3. ~(y = x /\ Starts(M, m.roomId))
      BY <1>5, <1>10, <2>3, <3>1, AboutMeans
    <3>4. QED
      BY <1>16, <3>1, <3>2, <3>3
  <2>4. QED
    BY <1>5, <2>2, <2>3 DEF JoinsAreEntries, InAs
<1>19. ASSUME NEW u \in Usernames, NEW y \in Sessions, NEW r \in RoomIds, NEW q \in PeerIds,
              Attached(u, y)
       PROVE  /\ WillKnow(u, y, r, q) => WillKnow(u, y, r, q)'
              /\ WillSee(u, y, r, q)' => WillSee(u, y, r, q)
  <2>1. CASE y # x
    BY <1>10, <1>11, <1>15, <2>1
    DEF WillKnow, WillSee, ToldAdds, ToldDrops, JoinTold, JoinSent
  <2>2. CASE y = x
    <3>1. session[x] = "open" /\ outbox'[x] = Append(outbox[x], M)
      BY <1>12, <1>19, <2>2 DEF Attached
    <3>2. PICK long : long = Append(outbox[x], M)
      OBVIOUS
    <3>3. /\ \A ps : After(long, r, q, ps) <=>
               Adds(M, r, q) \/ (After(outbox[x], r, q, ps) /\ ~Drops(M, r, q))
          /\ Anew(outbox[x], r, q) /\ ~Drops(M, r, q) => Anew(long, r, q)
          /\ HasStart(long, r) <=> HasStart(outbox[x], r) \/ Starts(M, r)
          /\ HasStart(long, r) /\ Adds(M, r, q) => Anew(long, r, q)
      BY <1>5, <1>14, <3>2, AfterAppended
    <3>4. /\ Adds(M, r, q) => About(M, r)
          /\ ~(Adds(M, r, q) /\ Drops(M, r, q))
      BY <1>5, AboutMeans
    <3>5. /\ About(M, r) => ~JoinTold(x, r)' /\ ~ToldDrops(x, r, q)'
          /\ JoinTold(x, r)' => JoinTold(x, r)
          /\ ToldDrops(x, r, q) <=> ToldDrops(x, r, q)' \/ Drops(M, r, q)
          /\ ToldAdds(x, r, q) <=> ToldAdds(x, r, q)' \/ Adds(M, r, q)
          /\ Starts(M, r) => JoinTold(x, r)
      <4>1. \A m \in Told(x)' : About(M, r) => ~About(m, r)
        BY <1>10
      <4>2. About(M, r) => ~JoinTold(x, r)' /\ ~ToldDrops(x, r, q)'
        BY <4>1 DEF JoinTold, ToldDrops, About, Starts, Drops
      <4>3. QED
        BY <1>10, <4>2 DEF JoinTold, ToldDrops, ToldAdds
    <3>6. JoinSent(x, r)' <=> HasStart(long, r)
      BY <3>1, <3>2 DEF JoinSent
    <3>7. WillKnow(u, x, r, q)' <=>
            \/ ToldAdds(x, r, q)'
            \/ /\ ~JoinTold(x, r)' /\ ~ToldDrops(x, r, q)'
               /\ \/ HasStart(long, r) /\ Anew(long, r, q)
                  \/ ~HasStart(long, r) /\ After(long, r, q, Seen(u, r))
      BY <1>15, <3>1, <3>2, <3>6 DEF WillKnow
    <3>8. WillSee(u, x, r, q)' <=>
            ToldAdds(x, r, q)' \/ (~ToldDrops(x, r, q)' /\ After(long, r, q, Seen(u, r)))
      BY <1>15, <3>1, <3>2 DEF WillSee
    <3>9. WillKnow(u, x, r, q) => WillKnow(u, x, r, q)'
      BY <3>3, <3>4, <3>5, <3>7 DEF WillKnow, JoinSent
    <3>10. WillSee(u, x, r, q)' => WillSee(u, x, r, q)
      BY <3>3, <3>4, <3>5, <3>8 DEF WillSee
    <3>11. QED
      BY <2>2, <3>9, <3>10
  <2>3. QED
    BY <2>1, <2>2
<1>20. NobodyMissed'
  BY <1>15, <1>16, <1>19 DEF PresenceInv, NobodyMissed
<1>21. NoGhostsToCome'
  BY <1>15, <1>19 DEF PresenceInv, NoGhostsToCome
<1>22. QED
  BY <1>8, <1>17, <1>18, <1>20, <1>21 DEF PresenceInv, EntriesInv

-----------------------------------------------------------------------------
(* Steps that are not about who is in a room.                               *)

(***************************************************************************)
(* What is left when the first step tells nobody anything.                  *)
(***************************************************************************)
LEMMA RestTells ==
  ASSUME NEW S, NEW T \in Seq(S), T # <<>>, TellsOnce(T), T[1].op # "send"
  PROVE  /\ TellsOnce(Tail(T))
         /\ \A x : Tells(Tail(T), x) = Tells(T, x)
<1>1. PICK rest : rest = Tail(T)
  OBVIOUS
<1>2. /\ \A j \in DOMAIN rest : j + 1 \in DOMAIN T /\ rest[j] = T[j + 1] /\ j \in Nat
      /\ \A i \in DOMAIN T : i = 1 \/ (i - 1 \in DOMAIN rest /\ rest[i - 1] = T[i])
  BY <1>1, WithoutFirst
<1>3. \A i, j \in DOMAIN rest : i + 1 = j + 1 => i = j
  BY <1>2
<1>4. TellsOnce(rest)
  <2>1. ASSUME NEW i \in DOMAIN rest, NEW j \in DOMAIN rest, NEW r \in RoomIds, i # j,
               rest[i].op = "send", rest[j].op = "send",
               About(rest[i].msg, r), About(rest[j].msg, r)
        PROVE  rest[i].to \cap rest[j].to = {}
    <3>1. /\ i + 1 \in DOMAIN T /\ rest[i] = T[i + 1]
          /\ j + 1 \in DOMAIN T /\ rest[j] = T[j + 1]
          /\ i + 1 # j + 1
      BY <1>2, <1>3, <2>1
    <3>2. QED
      BY <2>1, <3>1 DEF TellsOnce
  <2>2. QED
    BY <2>1 DEF TellsOnce
<1>5. ASSUME NEW x, NEW m
      PROVE  m \in Tells(rest, x) <=> m \in Tells(T, x)
  <2>1. ASSUME m \in Tells(rest, x)
        PROVE  m \in Tells(T, x)
    <3>1. PICK j \in DOMAIN rest : rest[j].op = "send" /\ x \in rest[j].to /\ rest[j].msg = m
      BY <2>1, TellsMean
    <3>2. j + 1 \in DOMAIN T /\ rest[j] = T[j + 1]
      BY <1>2
    <3>3. QED
      BY <3>1, <3>2, TellsMean
  <2>2. ASSUME m \in Tells(T, x)
        PROVE  m \in Tells(rest, x)
    <3>1. PICK i \in DOMAIN T : T[i].op = "send" /\ x \in T[i].to /\ T[i].msg = m
      BY <2>2, TellsMean
    <3>2. i - 1 \in DOMAIN rest /\ rest[i - 1] = T[i]
      BY <1>2, <3>1
    <3>3. QED
      BY <3>1, <3>2, TellsMean
  <2>3. QED
    BY <2>1, <2>2
<1>6. ASSUME NEW x
      PROVE  Tells(rest, x) = Tells(T, x)
  <2>1. \A m : m \in Tells(rest, x) <=> m \in Tells(T, x)
    BY <1>5
  <2>2. QED
    BY <2>1
<1>7. QED
  BY <1>1, <1>4, <1>6

(***************************************************************************)
(* Nobody enters or leaves, and what is to be told of it stays.              *)
(***************************************************************************)
LEMMA NewsKeepPresence ==
  ASSUME NEW n, TypedUpTo(n), TypedUpTo(n)', PresenceInv, ToldOnce',
         UNCHANGED <<clients, session, nextPeerSeq, link, rooms, outbox>>,
         DOMAIN db'.members = DOMAIN db.members,
         \A x \in Sessions, r \in RoomIds : \A m :
           About(m, r) => (m \in Told(x)' <=> m \in Told(x)),
         \A x \in Sessions : Asked(x)' \subseteq Asked(x)
  PROVE  PresenceInv'
<1>1. ASSUME NEW x \in Sessions, NEW r \in RoomIds
      PROVE  /\ JoinTold(x, r)' <=> JoinTold(x, r)
             /\ JoinSent(x, r)' <=> JoinSent(x, r)
             /\ \A q : /\ ToldAdds(x, r, q)' <=> ToldAdds(x, r, q)
                       /\ ToldDrops(x, r, q)' <=> ToldDrops(x, r, q)
  <2>1. \A m, q : Starts(m, r) \/ Adds(m, r, q) \/ Drops(m, r, q) => About(m, r)
    BY DEF Starts, Adds, Drops, About
  <2>2. QED
    BY <2>1 DEF JoinTold, JoinSent, ToldAdds, ToldDrops
<1>2. /\ \A x, r, q : Meets(x, r, q)' = Meets(x, r, q) /\ InAs(x, r, q)' = InAs(x, r, q)
      /\ \A u, x : Attached(u, x)' = Attached(u, x)
      /\ \A u, r : (Knows(u, r)' <=> Knows(u, r)) /\ Seen(u, r)' = Seen(u, r)
  BY DEF Meets, InAs, Attached, Knows, Seen
<1>3. \A x \in Sessions, r \in RoomIds : JoinUnderWay(x, r)' <=> JoinUnderWay(x, r)
  BY <1>1 DEF JoinUnderWay
<1>4. KnownAreEntries' /\ LeavesAreLast' /\ OthersStay' /\ LostIsFresh'
  <2>1. EntriesInv /\ LostIsFresh'
    BY DEF PresenceInv, EntriesInv, LostIsFresh
  <2>2. QED
    BY <1>2, <1>3, <2>1, KnownStay
<1>5. JoinsAreEntries'
  <2>1. \A x \in Sessions :
          /\ StartsOnce(outbox[x])
          /\ \A i \in DOMAIN outbox[x] : outbox[x][i].type = "joined" =>
               InAs(x, outbox[x][i].roomId, outbox[x][i].peerId)
    BY DEF PresenceInv, EntriesInv, JoinsAreEntries
  <2>2. ASSUME NEW x \in Sessions, NEW m \in Told(x)', m.type = "joined"
        PROVE  InAs(x, m.roomId, m.peerId) /\ ~JoinSent(x, m.roomId)
    <3>1. m \in MessagesUpTo(n)
      <4>1. PICK t \in Sessions : m \in Tells(todo'[t], x)
        BY <2>2 DEF Told
      <4>2. PICK i \in DOMAIN todo'[t] : todo'[t][i].op = "send" /\ todo'[t][i].msg = m
        BY <4>1, TellsMean
      <4>3. todo'[t][i] \in StepsUpTo(n)
        BY <4>2 DEF TypedUpTo
      <4>4. QED
        BY <4>2, <4>3 DEF StepsUpTo
    <3>2. About(m, m.roomId) /\ m.roomId \in RoomIds
      BY <2>2, <3>1, AboutMeans
    <3>3. m \in Told(x)
      BY <2>2, <3>2
    <3>4. QED
      BY <2>2, <3>3 DEF PresenceInv, EntriesInv, JoinsAreEntries
  <2>3. QED
    BY <2>1, <2>2 DEF JoinsAreEntries, InAs, JoinSent
<1>6. ASSUME NEW u \in Usernames, NEW x \in Sessions, NEW r \in RoomIds, NEW q \in PeerIds
      PROVE  /\ WillKnow(u, x, r, q)' <=> WillKnow(u, x, r, q)
             /\ WillSee(u, x, r, q)' <=> WillSee(u, x, r, q)
  BY <1>1, <1>2 DEF WillKnow, WillSee
<1>7. NobodyMissed' /\ NoGhostsToCome'
  <2>1. NobodyMissed'
    BY <1>2, <1>3, <1>6 DEF PresenceInv, NobodyMissed
  <2>2. NoGhostsToCome'
    BY <1>2, <1>6 DEF PresenceInv, NoGhostsToCome
  <2>3. QED
    BY <2>1, <2>2
<1>8. QED
  BY <1>4, <1>5, <1>7 DEF PresenceInv, EntriesInv

(***************************************************************************)
(* The messages buffered for a member are looked up.                         *)
(***************************************************************************)
LEMMA SendPendingKeepsPresence ==
  ASSUME NEW n, n = db.nextSeq, TypedUpTo(n), TypedUpTo(n)', RegistryInv, OneThread,
         PresenceInv, NEW s \in Sessions, SendPending(s), UNCHANGED <<link, rooms>>
  PROVE  PresenceInv'
<1>1. todo[s] # <<>> /\ todo[s] \in Seq(StepsUpTo(n)) /\ todo[s][1].op = "pending"
  BY DEF SendPending, TypedUpTo
<1>2. PICK T : T = todo[s]
  OBVIOUS
<1>3. PICK first :
        /\ todo' = [todo EXCEPT ![s] = first \o Tail(T)]
        /\ \/ first = <<>>
           \/ /\ PendingMessages(T[1].peerId) # {}
              /\ first = Send({s}, BufferedMessages(T[1].roomId, PendingMessages(T[1].peerId)))
  <2>1. Head(todo[s]) = T[1] /\ Tail(todo[s]) = Tail(T)
    BY <1>1, <1>2
  <2>2. QED
    BY <2>1 DEF SendPending, Continue
<1>4. UNCHANGED <<db, clients, session, nextPeerSeq, requests, outbox>>
  BY DEF SendPending, vars
<1>5. /\ first \in Seq(StepsUpTo(n)) /\ TellsOnce(first)
      /\ \A i \in DOMAIN first, r \in RoomIds : ~About(first[i].msg, r)
      /\ \A x : \A m \in Tells(first, x) : \A r \in RoomIds : ~About(m, r)
  <2>1. CASE first = <<>>
    <3>1. TellsOnce(first) /\ (\A x : Tells(first, x) = {}) /\ DOMAIN first = {}
      BY <2>1 DEF TellsOnce, Tells
    <3>2. QED
      BY <2>1, <3>1
  <2>2. CASE /\ PendingMessages(T[1].peerId) # {}
             /\ first = Send({s}, BufferedMessages(T[1].roomId, PendingMessages(T[1].peerId)))
    <3>1. PICK ns : ns = PendingMessages(T[1].peerId)
      OBVIOUS
    <3>2. PICK m : m = BufferedMessages(T[1].roomId, ns)
      OBVIOUS
    <3>3. ns \in SUBSET (1..n) /\ n \in Nat /\ T[1].roomId \in RoomIds
      <4>1. n \in Nat
        BY DEF RegistryInv, TypeOK, IsDb
      <4>2. T[1] \in StepsUpTo(n)
        BY <1>1, <1>2
      <4>3. T[1].roomId \in RoomIds
        BY <1>1, <1>2, <4>2 DEF StepsUpTo
      <4>4. QED
        BY <3>1, <4>1, <4>3, PendingWasSent DEF SentSeqs
    <3>4. m \in MessagesUpTo(n)
      BY <3>2, <3>3 DEF MessagesUpTo, BufferedMessages
    <3>5. \A r : ~About(m, r)
      BY <3>2 DEF About, BufferedMessages
    <3>6. first = Send({s}, m)
      BY <2>2, <3>1, <3>2
    <3>7. first \in Seq(StepsUpTo(n))
      BY <3>4, <3>6, SendIsSteps
    <3>8. /\ TellsOnce(first)
          /\ \A i \in DOMAIN first : first[i].msg = m
          /\ \A x : Tells(first, x) \subseteq {m}
      BY <3>6, SendTells
    <3>9. QED
      BY <3>5, <3>7, <3>8
  <2>3. QED
    BY <1>3, <2>1, <2>2
<1>6. PICK rest : rest = Tail(T)
  OBVIOUS
<1>7. /\ rest \in Seq(StepsUpTo(n)) /\ TellsOnce(rest)
      /\ \A x : Tells(rest, x) = Tells(T, x)
  <2>1. TellsOnce(T)
    BY <1>2 DEF PresenceInv, ToldOnce
  <2>2. T \in Seq(StepsUpTo(n)) /\ T # <<>> /\ T[1].op # "send"
    BY <1>1, <1>2
  <2>3. TellsOnce(Tail(T)) /\ \A x : Tells(Tail(T), x) = Tells(T, x)
    BY <2>1, <2>2, RestTells
  <2>4. QED
    BY <1>6, <2>2, <2>3
<1>8. /\ todo'[s] = first \o rest
      /\ \A t \in Sessions : t # s => todo'[t] = <<>> /\ todo[t] = <<>>
  BY <1>1, <1>3, <1>6 DEF OneThread, TypedUpTo
<1>9. /\ \A x : Tells(first \o rest, x) = Tells(first, x) \cup Tells(rest, x)
      /\ TellsOnce(first \o rest)
  BY <1>5, <1>7, ThenTells
<1>10. ToldOnce'
  BY <1>8, <1>9 DEF PresenceInv, ToldOnce
<1>11. \A x : Told(x)' = Tells(first, x) \cup Told(x)
  <2>1. \A y : Tells(<<>>, y) = {}
    BY DEF Tells
  <2>2. \A y, m : m \in Told(y) <=> m \in Tells(T, y)
    BY <1>2, <1>8, <2>1, TellsMean
  <2>3. \A y : Told(y)' = Tells(todo'[s], y)
    BY <1>8, ToldByOne
  <2>4. \A y : Told(y) = Tells(T, y)
    BY <2>2
  <2>5. QED
    BY <1>7, <1>8, <1>9, <2>3, <2>4
<1>12. \A x \in Sessions, r \in RoomIds : \A m :
         About(m, r) => (m \in Told(x)' <=> m \in Told(x))
  BY <1>5, <1>11
<1>13. \A x \in Sessions : Asked(x)' \subseteq Asked(x)
  BY <1>4 DEF Asked
<1>14. QED
  BY <1>4, <1>10, <1>12, <1>13, NewsKeepPresence

-----------------------------------------------------------------------------
(* A client reads a message.                                               *)

\* What the client of u knows after it has read m.
Heard(u, m) ==
  /\ \A v \in Usernames : v # u => rooms'[v] = rooms[v]
  /\ DOMAIN rooms'[u] = DOMAIN rooms[u]
  /\ \A r \in DOMAIN rooms[u] :
       /\ \A q : q \in rooms'[u][r].participants <=>
                   Adds(m, r, q) \/ (q \in rooms[u][r].participants /\ ~Drops(m, r, q))
       /\ rooms'[u][r].myPeerId = IF Starts(m, r) THEN m.peerId ELSE rooms[u][r].myPeerId

(***************************************************************************)
(* A client changes what it knows of the room the message is about, and asks *)
(* for nothing but acknowledges.                                            *)
(***************************************************************************)
LEMMA OnMessageHears ==
  ASSUME NEW n \in Nat, TypedUpTo(n), NEW u \in Usernames, OnMessage(u),
         NEW m, m = Head(outbox[link[u]])
  PROVE  /\ Heard(u, m)
         /\ \A x \in Sessions : \A req \in Asked(x)' : req \in Asked(x) \/ req.type # "leave"
<1>1. /\ DOMAIN rooms = Usernames
      /\ \A r \in DOMAIN rooms[u] :
           rooms[u][r] = [myPeerId |-> rooms[u][r].myPeerId,
                          participants |-> rooms[u][r].participants]
  BY DEF TypedUpTo, IsTable, RoomStates
<1>2. m \in MessagesUpTo(n)
  <2>1. /\ link[u] \in Sessions
        /\ outbox[link[u]] \in Seq(MessagesUpTo(n)) /\ outbox[link[u]] # <<>>
    BY DEF OnMessage, TypedUpTo
  <2>2. QED
    BY <2>1, HeadTailProperties
<1>3. ASSUME UNCHANGED requests
      PROVE  \A x \in Sessions : \A req \in Asked(x)' : req \in Asked(x) \/ req.type # "leave"
  BY <1>3 DEF Asked
<1>4. ASSUME UNCHANGED rooms, m.type \notin {"joined", "peer-joined", "peer-left"}
      PROVE  Heard(u, m)
  BY <1>4 DEF Heard, Adds, Drops, Starts
<1>5. ASSUME NEW state, UpdateRoom(u, m.roomId, state),
             m.type \in {"joined", "peer-joined", "peer-left"},
             m.roomId \in DOMAIN rooms[u] =>
               /\ \A q : q \in state.participants <=>
                    \/ Adds(m, m.roomId, q)
                    \/ q \in rooms[u][m.roomId].participants /\ ~Drops(m, m.roomId, q)
               /\ state.myPeerId = IF Starts(m, m.roomId) THEN m.peerId
                                   ELSE rooms[u][m.roomId].myPeerId
      PROVE  Heard(u, m)
  <2>1. \A r, q : r # m.roomId => ~Adds(m, r, q) /\ ~Drops(m, r, q) /\ ~Starts(m, r)
    BY DEF Adds, Drops, Starts
  <2>2. CASE m.roomId \notin DOMAIN rooms[u]
    BY <1>5, <2>1, <2>2 DEF Heard, UpdateRoom
  <2>3. CASE m.roomId \in DOMAIN rooms[u]
    <3>1. rooms' = [rooms EXCEPT ![u] = [rooms[u] EXCEPT ![m.roomId] = state]]
      BY <1>5, <2>3 DEF UpdateRoom
    <3>2. /\ \A v \in Usernames : v # u => rooms'[v] = rooms[v]
          /\ DOMAIN rooms'[u] = DOMAIN rooms[u]
          /\ rooms'[u][m.roomId] = state
          /\ \A r \in DOMAIN rooms[u] : r # m.roomId => rooms'[u][r] = rooms[u][r]
      BY <1>1, <2>3, <3>1
    <3>3. ASSUME NEW r \in DOMAIN rooms[u]
          PROVE  /\ \A q : q \in rooms'[u][r].participants <=>
                      \/ Adds(m, r, q)
                      \/ q \in rooms[u][r].participants /\ ~Drops(m, r, q)
                 /\ rooms'[u][r].myPeerId =
                      IF Starts(m, r) THEN m.peerId ELSE rooms[u][r].myPeerId
      <4>1. CASE r = m.roomId
        BY <1>5, <2>3, <3>2, <4>1
      <4>2. CASE r # m.roomId
        BY <2>1, <3>2, <4>2
      <4>3. QED
        BY <4>1, <4>2
    <3>4. QED
      BY <3>2, <3>3 DEF Heard
  <2>4. QED
    BY <2>2, <2>3
<1>6. CASE m.type = "joined" /\ OnJoined(u, m)
  <2>1. PICK state :
          state = [myPeerId |-> m.peerId,
                   participants |-> rooms[u][m.roomId].participants \cup m.participants]
    OBVIOUS
  <2>2. UpdateRoom(u, m.roomId, state) /\ UNCHANGED requests
    BY <1>6, <2>1 DEF OnJoined
  <2>3. Heard(u, m)
    BY <1>5, <1>6, <2>1, <2>2 DEF Adds, Drops, Starts
  <2>4. QED
    BY <1>3, <2>2, <2>3
<1>7. CASE m.type = "peer-joined" /\ OnPeerJoined(u, m)
  <2>1. PICK state :
          state = [rooms[u][m.roomId] EXCEPT !.participants = @ \cup {m.peerId}]
    OBVIOUS
  <2>2. UpdateRoom(u, m.roomId, state) /\ UNCHANGED requests
    BY <1>7, <2>1 DEF OnPeerJoined
  <2>3. ASSUME m.roomId \in DOMAIN rooms[u]
        PROVE  /\ state.participants = rooms[u][m.roomId].participants \cup {m.peerId}
               /\ state.myPeerId = rooms[u][m.roomId].myPeerId
    <3>1. PICK a, b : rooms[u][m.roomId] = [myPeerId |-> a, participants |-> b]
      BY <1>1, <2>3
    <3>2. state = [myPeerId |-> a, participants |-> b \cup {m.peerId}]
      BY <2>1, <3>1
    <3>3. QED
      BY <3>1, <3>2
  <2>4. /\ \A q : (Adds(m, m.roomId, q) <=> q = m.peerId) /\ ~Drops(m, m.roomId, q)
        /\ ~Starts(m, m.roomId)
    BY <1>7 DEF Adds, Drops, Starts
  <2>5. Heard(u, m)
    <3>1. m.roomId \in DOMAIN rooms[u] =>
            \A q : q \in state.participants <=>
              \/ Adds(m, m.roomId, q)
              \/ q \in rooms[u][m.roomId].participants /\ ~Drops(m, m.roomId, q)
      BY <2>3, <2>4
    <3>2. QED
      BY <1>5, <1>7, <2>2, <2>3, <2>4, <3>1
  <2>6. QED
    BY <1>3, <2>2, <2>5
<1>8. CASE m.type = "peer-left" /\ OnPeerLeft(u, m)
  <2>1. PICK state :
          state = [rooms[u][m.roomId] EXCEPT !.participants = @ \ {m.peerId}]
    OBVIOUS
  <2>2. UpdateRoom(u, m.roomId, state) /\ UNCHANGED requests
    BY <1>8, <2>1 DEF OnPeerLeft
  <2>3. ASSUME m.roomId \in DOMAIN rooms[u]
        PROVE  /\ state.participants = rooms[u][m.roomId].participants \ {m.peerId}
               /\ state.myPeerId = rooms[u][m.roomId].myPeerId
    <3>1. PICK a, b : rooms[u][m.roomId] = [myPeerId |-> a, participants |-> b]
      BY <1>1, <2>3
    <3>2. state = [myPeerId |-> a, participants |-> b \ {m.peerId}]
      BY <2>1, <3>1
    <3>3. QED
      BY <3>1, <3>2
  <2>4. /\ \A q : (Drops(m, m.roomId, q) <=> q = m.peerId) /\ ~Adds(m, m.roomId, q)
        /\ ~Starts(m, m.roomId)
    BY <1>8 DEF Adds, Drops, Starts
  <2>5. Heard(u, m)
    <3>1. m.roomId \in DOMAIN rooms[u] =>
            \A q : q \in state.participants <=>
              \/ Adds(m, m.roomId, q)
              \/ q \in rooms[u][m.roomId].participants /\ ~Drops(m, m.roomId, q)
      BY <2>3, <2>4
    <3>2. QED
      BY <1>5, <1>8, <2>2, <2>3, <2>4, <3>1
  <2>6. QED
    BY <1>3, <2>2, <2>5
<1>9. ASSUME NEW seqs \in Seq(1..n), m.roomId \in RoomIds, Show(u, m.roomId, seqs),
             m.type \notin {"joined", "peer-joined", "peer-left"}
      PROVE  /\ Heard(u, m)
             /\ \A x \in Sessions : \A req \in Asked(x)' : req \in Asked(x) \/ req.type # "leave"
  <2>1. PICK reqs : reqs = [i \in DOMAIN seqs |-> AckRequest(m.roomId, seqs[i])]
    OBVIOUS
  <2>2. /\ Len(seqs) \in Nat /\ DOMAIN reqs = 1..Len(seqs)
        /\ \A i \in DOMAIN reqs : seqs[i] \in 1..n /\ reqs[i] = AckRequest(m.roomId, seqs[i])
    BY <1>9, <2>1
  <2>3. \A i \in DOMAIN reqs : reqs[i].type = "ack" /\ reqs[i] \in RequestsUpTo(n)
    <3>1. ASSUME NEW i \in DOMAIN reqs
          PROVE  AckRequest(m.roomId, seqs[i]) \in RequestsUpTo(n)
      BY <1>9, <2>2, RequestsAreTyped
    <3>2. \A k : AckRequest(m.roomId, k).type = "ack"
      BY DEF AckRequest
    <3>3. QED
      BY <2>2, <3>1, <3>2
  <2>4. reqs \in Seq(RequestsUpTo(n)) /\ Request(u, reqs)
    <3>1. reqs = [i \in 1..Len(seqs) |-> reqs[i]]
      BY <2>1, <2>2
    <3>2. reqs \in Seq(RequestsUpTo(n))
      BY <2>2, <2>3, <3>1
    <3>3. QED
      BY <1>9, <2>1, <3>2 DEF Show
  <2>5. \A x \in Sessions : \A req \in Asked(x)' :
          req \in Asked(x) \/ \E i \in DOMAIN reqs : reqs[i] = req
    BY <2>4, RequestAsks
  <2>6. UNCHANGED rooms
    BY <1>9 DEF Show
  <2>7. QED
    BY <1>4, <1>9, <2>3, <2>5, <2>6
<1>10. CASE m.type = "group-message" /\ OnGroupMessage(u, m)
  <2>1. m.roomId \in RoomIds /\ m.messageSeq \in 1..n
    BY <1>2, <1>10, MessagesMean
  <2>2. PICK seqs : seqs = <<m.messageSeq>>
    OBVIOUS
  <2>3. seqs \in Seq(1..n) /\ Show(u, m.roomId, seqs)
    BY <1>10, <2>1, <2>2 DEF OnGroupMessage
  <2>4. QED
    BY <1>9, <1>10, <2>1, <2>3
<1>11. CASE m.type = "buffered-messages" /\ OnBufferedMessages(u, m)
  <2>1. m.roomId \in RoomIds /\ m.messages \in SUBSET (1..n)
    BY <1>2, <1>11, MessagesMean
  <2>2. PICK seqs \in Ascending(m.messages) : Show(u, m.roomId, seqs)
    BY <1>11 DEF OnBufferedMessages
  <2>3. seqs \in Seq(1..n)
    BY <2>1, AscendingNumbers
  <2>4. QED
    BY <1>9, <1>11, <2>1, <2>2, <2>3
<1>12. CASE OnReply(m)
  BY <1>3, <1>4, <1>12 DEF OnReply
<1>13. QED
  BY <1>6, <1>7, <1>8, <1>10, <1>11, <1>12, Zenon DEF OnMessage

(***************************************************************************)
(* What a client will know when it has read all there is does not change     *)
(* when it reads the first message.                                         *)
(***************************************************************************)
LEMMA OnMessageKeepsPresence ==
  ASSUME NEW n \in Nat, TypedUpTo(n), TypedUpTo(n)', LinksApart, ClosedIsEmpty,
         PresenceInv, NEW u \in Usernames, OnMessage(u)
  PROVE  PresenceInv'
<1>1. PICK x : x = link[u]
  OBVIOUS
<1>2. PICK queue : queue = outbox[x]
  OBVIOUS
<1>3. PICK m : m = Head(queue)
  OBVIOUS
<1>4. PICK rest : rest = Tail(queue)
  OBVIOUS
<1>5. /\ x # NoLink /\ x \in Sessions /\ queue \in Seq(MessagesUpTo(n)) /\ queue # <<>>
      /\ outbox' = [outbox EXCEPT ![x] = rest]
      /\ UNCHANGED <<db, clients, nextPeerSeq, session, todo, link>>
  BY <1>1, <1>2, <1>4 DEF OnMessage, vars, TypedUpTo
<1>6. /\ outbox'[x] = rest
      /\ \A y \in Sessions : y # x => outbox'[y] = outbox[y]
      /\ m \in MessagesUpTo(n)
      /\ session[x] = "open"
      /\ \A v \in Usernames : link[v] = x => v = u
  <2>1. m \in MessagesUpTo(n)
    BY <1>3, <1>5, HeadTailProperties
  <2>2. session[x] = "open"
    BY <1>2, <1>5 DEF ClosedIsEmpty
  <2>3. QED
    BY <1>1, <1>5, <2>1, <2>2 DEF TypedUpTo, LinksApart
<1>7. /\ Heard(u, m)
      /\ \A y \in Sessions : \A req \in Asked(y)' : req \in Asked(y) \/ req.type # "leave"
  BY <1>1, <1>2, <1>3, OnMessageHears
<1>8. /\ \A y : Told(y)' = Told(y)
      /\ \A y, r, q : Meets(y, r, q)' = Meets(y, r, q) /\ InAs(y, r, q)' = InAs(y, r, q)
      /\ \A v, y : Attached(v, y)' = Attached(v, y)
      /\ \A v, y : Attached(v, y) => (v = u <=> y = x) \/ v \notin Usernames
  BY <1>1, <1>5, <1>6 DEF Told, Meets, InAs, Attached
<1>9. /\ \A y, r : JoinTold(y, r)' = JoinTold(y, r)
      /\ \A y, r, q : /\ ToldAdds(y, r, q)' = ToldAdds(y, r, q)
                      /\ ToldDrops(y, r, q)' = ToldDrops(y, r, q)
      /\ \A y \in Sessions : \A r : y # x => JoinSent(y, r)' = JoinSent(y, r)
      /\ \A r : JoinSent(x, r)' <=> HasStart(rest, r)
      /\ \A r : JoinSent(x, r) <=> HasStart(queue, r)
      /\ \A r : HasStart(queue, r) <=> Starts(m, r) \/ HasStart(rest, r)
  <2>1. \A r : HasStart(queue, r) <=> Starts(m, r) \/ HasStart(rest, r)
    BY <1>3, <1>4, <1>5, StartInRest
  <2>2. QED
    BY <1>2, <1>6, <1>8, <2>1 DEF JoinTold, JoinSent, ToldAdds, ToldDrops
<1>10. \A y \in Sessions, r \in RoomIds :
         /\ JoinUnderWay(y, r)' => JoinUnderWay(y, r)
         /\ y # x => JoinUnderWay(y, r)' = JoinUnderWay(y, r)
  BY <1>9 DEF JoinUnderWay
<1>11. /\ StartsOnce(queue) /\ StartsOnce(rest)
       /\ \A r \in RoomIds : Starts(m, r) => ~HasStart(rest, r)
       /\ \A i \in DOMAIN queue : queue[i].type = "joined" =>
            InAs(x, queue[i].roomId, queue[i].peerId)
  <2>1. /\ StartsOnce(queue)
        /\ \A i \in DOMAIN queue : queue[i].type = "joined" =>
             InAs(x, queue[i].roomId, queue[i].peerId)
    BY <1>2, <1>5 DEF PresenceInv, EntriesInv, JoinsAreEntries
  <2>2. QED
    BY <1>3, <1>4, <1>5, <2>1, StartsOnceInRest
<1>12. /\ \A v \in Usernames : \A r :
            v # u => (Knows(v, r)' <=> Knows(v, r)) /\ Seen(v, r)' = Seen(v, r)
       /\ \A v \in Usernames : v # u => rooms'[v] = rooms[v]
       /\ \A r : Knows(u, r)' => r \in DOMAIN rooms[u] /\ (Starts(m, r) \/ Knows(u, r))
       /\ \A r : Knows(u, r)' => rooms'[u][r].myPeerId =
                                   IF Starts(m, r) THEN m.peerId ELSE rooms[u][r].myPeerId
       /\ \A r \in DOMAIN rooms[u] : \A q : q \in Seen(u, r)' <=>
            Adds(m, r, q) \/ (q \in Seen(u, r) /\ ~Drops(m, r, q))
       /\ \A r : r \notin DOMAIN rooms[u] => Seen(u, r)' = {} /\ Seen(u, r) = {}
  BY <1>7 DEF Heard, Knows, Seen
<1>13. ASSUME NEW r \in RoomIds, Starts(m, r)
       PROVE  InAs(x, r, m.peerId) /\ ~JoinUnderWay(x, r)' /\ JoinUnderWay(x, r)
  <2>1. 1 \in DOMAIN queue /\ queue[1] = m
    BY <1>3, <1>5
  <2>2. InAs(x, r, m.peerId)
    BY <1>11, <1>13, <2>1 DEF Starts
  <2>3. JoinSent(x, r) /\ ~JoinSent(x, r)'
    BY <1>9, <1>11, <1>13
  <2>4. ~JoinTold(x, r)
    <3>1. ASSUME NEW t \in Told(x), Starts(t, r)
          PROVE  FALSE
      BY <1>5, <2>3, <3>1 DEF PresenceInv, EntriesInv, JoinsAreEntries, Starts
    <3>2. QED
      BY <3>1 DEF JoinTold
  <2>5. QED
    BY <1>9, <2>2, <2>3, <2>4 DEF JoinUnderWay
<1>14. KnownAreEntries'
  <2>1. ASSUME NEW v \in Usernames, NEW y \in Sessions, NEW r \in RoomIds,
               Attached(v, y), Knows(v, r)', NEW p, p = rooms'[v][r].myPeerId
        PROVE  InAs(y, r, p) /\ ~JoinUnderWay(y, r)'
    <3>1. CASE v # u
      <4>1. y # x /\ Knows(v, r) /\ p = rooms[v][r].myPeerId
        BY <1>8, <1>12, <2>1, <3>1
      <4>2. InAs(y, r, p) /\ ~JoinUnderWay(y, r)
        BY <2>1, <4>1 DEF PresenceInv, EntriesInv, KnownAreEntries
      <4>3. QED
        BY <1>10, <4>2
    <3>2. CASE v = u /\ Starts(m, r)
      BY <1>8, <1>12, <1>13, <2>1, <3>2
    <3>3. CASE v = u /\ ~Starts(m, r)
      <4>1. y = x /\ Knows(u, r) /\ p = rooms[u][r].myPeerId
        BY <1>8, <1>12, <2>1, <3>3
      <4>2. InAs(y, r, p) /\ ~JoinUnderWay(y, r)
        BY <2>1, <3>3, <4>1 DEF PresenceInv, EntriesInv, KnownAreEntries
      <4>3. QED
        BY <1>10, <4>2
    <3>4. QED
      BY <3>1, <3>2, <3>3
  <2>2. ASSUME NEW v \in Usernames, NEW y \in Sessions, NEW r \in RoomIds,
               Attached(v, y)', Knows(v, r)', NEW p, p = rooms'[v][r].myPeerId
        PROVE  InAs(y, r, p)' /\ ~JoinUnderWay(y, r)'
    BY <1>8, <2>1, <2>2
  <2>3. QED
    BY <2>2 DEF KnownAreEntries, InAs
<1>15. LeavesAreLast' /\ OthersStay' /\ LostIsFresh'
  <2>1. ASSUME NEW y \in Sessions, NEW req \in Asked(y)', req.type = "leave"
        PROVE  LeaveIsLast(y, req)'
    <3>1. req \in Asked(y) /\ req.roomId \in RoomIds /\ LeaveIsLast(y, req)
      <4>1. req \in Asked(y)
        BY <1>7, <2>1
      <4>2. QED
        BY <2>1, <4>1, AskedAreRequests DEF PresenceInv, EntriesInv, LeavesAreLast
    <3>2. ASSUME InAs(y, req.roomId, req.peerId)
          PROVE  /\ ~JoinUnderWay(y, req.roomId)'
                 /\ \A v \in Usernames : link[v] = y => ~Knows(v, req.roomId)'
      <4>1. /\ ~JoinUnderWay(y, req.roomId)
            /\ \A v \in Usernames : link[v] = y => ~Knows(v, req.roomId)
        BY <3>1, <3>2 DEF LeaveIsLast
      <4>2. ASSUME NEW v \in Usernames, link[v] = y, Knows(v, req.roomId)'
            PROVE  FALSE
        <5>1. v = u /\ Starts(m, req.roomId)
          BY <1>12, <4>1, <4>2
        <5>2. y = x
          BY <1>1, <4>2, <5>1
        <5>3. QED
          BY <1>13, <3>1, <4>1, <5>1, <5>2
      <4>3. QED
        BY <1>10, <3>1, <4>1, <4>2
    <3>3. QED
      BY <1>5, <1>8, <3>1, <3>2 DEF LeaveIsLast
  <2>2. OthersStay'
    BY <1>5, <1>7 DEF PresenceInv, EntriesInv, OthersStay
  <2>3. LostIsFresh'
    BY <1>1, <1>5, <1>12 DEF PresenceInv, EntriesInv, LostIsFresh
  <2>4. QED
    BY <2>1, <2>2, <2>3 DEF LeavesAreLast
<1>16. JoinsAreEntries' /\ ToldOnce'
  <2>1. ASSUME NEW y \in Sessions
        PROVE  /\ StartsOnce(outbox'[y])
               /\ \A i \in DOMAIN outbox'[y] : outbox'[y][i].type = "joined" =>
                    InAs(y, outbox'[y][i].roomId, outbox'[y][i].peerId)
    <3>1. CASE y = x
      <4>1. \A i \in DOMAIN rest : i + 1 \in DOMAIN queue /\ rest[i] = queue[i + 1]
        BY <1>4, <1>5, WithoutFirst
      <4>2. QED
        BY <1>6, <1>11, <3>1, <4>1
    <3>2. CASE y # x
      BY <1>6, <3>2 DEF PresenceInv, EntriesInv, JoinsAreEntries
    <3>3. QED
      BY <3>1, <3>2
  <2>2. ASSUME NEW y \in Sessions, NEW t \in Told(y), t.type = "joined"
        PROVE  InAs(y, t.roomId, t.peerId) /\ ~JoinSent(y, t.roomId)'
    BY <1>9, <2>2 DEF PresenceInv, EntriesInv, JoinsAreEntries
  <2>3. JoinsAreEntries'
    BY <1>5, <1>8, <2>1, <2>2 DEF JoinsAreEntries, InAs
  <2>4. QED
    BY <1>5, <2>3 DEF PresenceInv, ToldOnce
<1>17. ASSUME NEW r \in RoomIds, NEW q
       PROVE  /\ r \in DOMAIN rooms[u] =>
                   (After(queue, r, q, Seen(u, r)) <=> After(rest, r, q, Seen(u, r)'))
              /\ r \notin DOMAIN rooms[u] =>
                   (After(rest, r, q, Seen(u, r)') => After(queue, r, q, Seen(u, r)))
              /\ Anew(queue, r, q) => /\ After(queue, r, q, Seen(u, r))
                                      /\ HasStart(rest, r) => Anew(rest, r, q)
  <2>1. ~(Adds(m, r, q) /\ Drops(m, r, q))
    BY <1>6, AboutMeans
  <2>2. PICK seen : seen = Seen(u, r)'
    OBVIOUS
  <2>3. CASE r \in DOMAIN rooms[u]
    <3>1. q \in seen <=> Adds(m, r, q) \/ (q \in Seen(u, r) /\ ~Drops(m, r, q))
      BY <1>12, <2>2, <2>3
    <3>2. After(queue, r, q, Seen(u, r)) <=> After(rest, r, q, seen)
      BY <1>3, <1>4, <1>5, <2>1, <3>1, AfterFirst
    <3>3. QED
      BY <1>3, <1>4, <1>5, <1>11, <2>2, <2>3, <3>2, AnewFirst
  <2>4. CASE r \notin DOMAIN rooms[u]
    <3>1. PICK more : more = IF Adds(m, r, q) THEN {q} ELSE {}
      OBVIOUS
    <3>2. seen = {} /\ Seen(u, r) = {}
      BY <1>12, <2>2, <2>4
    <3>3. PICK none : none = {}
      OBVIOUS
    <3>4. q \in more <=> Adds(m, r, q) \/ (q \in none /\ ~Drops(m, r, q))
      BY <3>1, <3>3
    <3>5. After(queue, r, q, none) <=> After(rest, r, q, more)
      BY <1>3, <1>4, <1>5, <2>1, <3>4, AfterFirst
    <3>6. After(rest, r, q, seen) => After(rest, r, q, more)
      BY <3>2, AfterMore
    <3>7. QED
      BY <1>3, <1>4, <1>5, <1>11, <2>2, <2>4, <3>2, <3>3, <3>5, <3>6, AnewFirst
  <2>5. QED
    BY <2>3, <2>4
<1>18. NobodyMissed'
  <2>1. ASSUME NEW v \in Usernames, NEW y \in Sessions, NEW r \in RoomIds, NEW q \in PeerIds,
               Attached(v, y), Meets(y, r, q), JoinUnderWay(y, r)' \/ Knows(v, r)'
        PROVE  WillKnow(v, y, r, q)'
    <3>1. CASE v # u
      <4>1. y # x
        BY <1>8, <2>1, <3>1
      <4>2. WillKnow(v, y, r, q)
        BY <1>10, <1>12, <2>1, <3>1 DEF PresenceInv, NobodyMissed
      <4>3. QED
        BY <1>6, <1>9, <1>12, <3>1, <4>1, <4>2 DEF WillKnow
    <3>2. CASE v = u
      <4>1. y = x
        BY <1>8, <2>1, <3>2
      <4>2. WillKnow(u, x, r, q)
        <5>1. JoinUnderWay(x, r) \/ Knows(u, r)
          BY <1>10, <1>12, <1>13, <2>1, <3>2, <4>1
        <5>2. QED
          BY <2>1, <3>2, <4>1, <5>1 DEF PresenceInv, NobodyMissed
      <4>3. CASE ToldAdds(x, r, q)
        BY <1>9, <3>2, <4>1, <4>3 DEF WillKnow
      <4>4. CASE ~ToldAdds(x, r, q)
        <5>1. /\ ~JoinTold(x, r) /\ ~ToldDrops(x, r, q)
              /\ \/ JoinSent(x, r) /\ Anew(queue, r, q)
                 \/ ~JoinSent(x, r) /\ After(queue, r, q, Seen(u, r))
          BY <1>2, <4>2, <4>4 DEF WillKnow
        <5>2. CASE HasStart(rest, r)
          <6>1. Anew(rest, r, q)
            BY <1>9, <1>17, <5>1, <5>2
          <6>2. JoinSent(x, r)' /\ Anew(outbox'[x], r, q)
            BY <1>6, <1>9, <5>2, <6>1
          <6>3. QED
            BY <1>9, <3>2, <4>1, <5>1, <6>2 DEF WillKnow
        <5>3. CASE ~HasStart(rest, r)
          <6>1. r \in DOMAIN rooms[u]
            BY <1>9, <1>12, <2>1, <3>2, <4>1, <5>1, <5>3 DEF JoinUnderWay
          <6>2. After(rest, r, q, Seen(u, r)')
            BY <1>17, <5>1, <6>1
          <6>3. ~JoinSent(x, r)' /\ After(outbox'[x], r, q, Seen(u, r)')
            BY <1>6, <1>9, <5>3, <6>2
          <6>4. QED
            BY <1>9, <3>2, <4>1, <5>1, <6>3 DEF WillKnow
        <5>4. QED
          BY <5>2, <5>3
      <4>5. QED
        BY <4>3, <4>4
    <3>3. QED
      BY <3>1, <3>2
  <2>2. QED
    BY <1>8, <2>1 DEF NobodyMissed
<1>19. NoGhostsToCome'
  <2>1. ASSUME NEW v \in Usernames \ Leavers, NEW y \in Sessions, NEW r \in RoomIds,
               NEW q \in PeerIds, Attached(v, y), WillSee(v, y, r, q)'
        PROVE  Meets(y, r, q)
    <3>1. CASE v # u
      <4>1. y # x
        BY <1>8, <2>1, <3>1
      <4>2. WillSee(v, y, r, q)
        BY <1>6, <1>9, <1>12, <2>1, <3>1, <4>1 DEF WillSee
      <4>3. QED
        BY <2>1, <4>2 DEF PresenceInv, NoGhostsToCome
    <3>2. CASE v = u
      <4>1. y = x
        BY <1>8, <2>1, <3>2
      <4>2. \/ ToldAdds(x, r, q)
            \/ ~ToldDrops(x, r, q) /\ After(rest, r, q, Seen(u, r)')
        BY <1>6, <1>9, <2>1, <3>2, <4>1 DEF WillSee
      <4>3. WillSee(u, x, r, q)
        BY <1>2, <1>17, <4>2 DEF WillSee
      <4>4. QED
        BY <2>1, <3>2, <4>1, <4>3 DEF PresenceInv, NoGhostsToCome
    <3>3. QED
      BY <3>1, <3>2
  <2>2. QED
    BY <1>8, <2>1 DEF NoGhostsToCome
<1>20. QED
  BY <1>14, <1>15, <1>16, <1>18, <1>19 DEF PresenceInv, EntriesInv

-----------------------------------------------------------------------------
(* Requests are read.                                                      *)

\* A request that is read is no longer asked.
LEMMA AskedShrinks ==
  ASSUME NEW n, TypedUpTo(n), NEW s \in Sessions, OnRead(s)
  PROVE  \A x \in Sessions : Asked(x)' \subseteq Asked(x)
<1>1. requests[s] # <<>> /\ requests' = [requests EXCEPT ![s] = Tail(requests[s])]
  BY DEF OnRead
<1>2. requests[s] \in Seq(RequestsUpTo(n)) /\ requests'[s] = Tail(requests[s])
  BY <1>1 DEF TypedUpTo
<1>3. ASSUME NEW req \in Asked(s)'
      PROVE  req \in Asked(s)
  <2>1. PICK i \in DOMAIN Tail(requests[s]) : Tail(requests[s])[i] = req
    BY <1>2, <1>3 DEF Asked
  <2>2. i + 1 \in DOMAIN requests[s] /\ requests[s][i + 1] = req
    BY <1>1, <1>2, <2>1, WithoutFirst
  <2>3. QED
    BY <2>2 DEF Asked
<1>4. ASSUME NEW x \in Sessions, x # s
      PROVE  Asked(x)' = Asked(x)
  <2>1. requests'[x] = requests[x]
    BY <1>1, <1>4
  <2>2. QED
    BY <2>1 DEF Asked
<1>5. QED
  BY <1>3, <1>4

(***************************************************************************)
(* An answer that is not about who is in a room: "error", "ack-confirm" and   *)
(* a group message, to whomever it goes.                                    *)
(***************************************************************************)
LEMMA RepliesKeepPresence ==
  ASSUME NEW n, TypedUpTo(n), TypedUpTo(n)', PresenceInv,
         \A t \in Sessions : todo[t] = <<>>, NEW s \in Sessions,
         \A t \in Sessions : t # s => todo'[t] = <<>>,
         \A i \in DOMAIN todo'[s], r \in RoomIds :
           todo'[s][i].op = "send" => ~About(todo'[s][i].msg, r),
         UNCHANGED <<clients, session, nextPeerSeq, link, rooms, outbox>>,
         DOMAIN db'.members = DOMAIN db.members,
         \A x \in Sessions : Asked(x)' \subseteq Asked(x)
  PROVE  PresenceInv'
<1>1. TellsOnce(<<>>)
  BY DEF TellsOnce
<1>2. PICK T : T = todo'[s]
  OBVIOUS
<1>3. TellsOnce(T)
  BY <1>2 DEF TellsOnce
<1>4. ToldOnce'
  <2>1. \A t \in Sessions : TellsOnce(todo'[t])
    BY <1>1, <1>2, <1>3
  <2>2. QED
    BY <2>1 DEF ToldOnce
<1>5. \A x : Told(x) = {}
  BY NothingTold
<1>6. \A x : Told(x)' = Tells(T, x)
  BY <1>2, ToldByOne
<1>7. \A x, m : \A r \in RoomIds : m \in Tells(T, x) => ~About(m, r)
  BY <1>2, TellsMean
<1>8. \A x \in Sessions, r \in RoomIds : \A m :
        About(m, r) => (m \in Told(x)' <=> m \in Told(x))
  BY <1>5, <1>6, <1>7
<1>9. QED
  BY <1>4, <1>8, NewsKeepPresence

\* s is told hello, the peers the news, and nobody else anything.
ToldBoth(s, hello, peers, news) ==
  \A x, m : m \in Told(x) <=> (x = s /\ m = hello) \/ (x \in peers /\ m = news)

(***************************************************************************)
(* A session enters a room.  It is told who else is there, and they are told *)
(* of it; nobody has left anything to be told.                              *)
(***************************************************************************)
LEMMA JoinKeepsPresence ==
  ASSUME NEW n, TypedUpTo(n), TypedUpTo(n)', RegistryInv, PresenceInv,
         \A t \in Sessions : todo[t] = <<>>,
         NEW s \in Sessions, session[s] = "open",
         NEW r \in RoomIds, NEW name, NEW type, NEW p \in PeerIds,
         Admits(s, r, name, type, p), p \in DOMAIN db.members \/ p = nextPeerSeq,
         ~InRoom(s, r),
         NEW others, others = {q \in FindMembersByRoom(db, r) \ {p} : Online(q)},
         NEW peers, peers = OnlinePeers(r, p),
         ToldOnce', UNCHANGED <<session, link, rooms, outbox>>,
         ToldBoth(s, Joined(r, type, p, others), peers, PeerJoined(r, p))',
         \A x \in Sessions : Asked(x)' \subseteq Asked(x)
  PROVE  PresenceInv'
<1> DEFINE e == [session |-> s, roomId |-> r, peerId |-> p, username |-> name,
                 roomType |-> type]
<1>1. /\ clients' = clients \cup {e} /\ e.session = s /\ e.roomId = r /\ e.peerId = p
      /\ \A c \in clients : c.peerId # p /\ ~(c.session = s /\ c.roomId = r)
  BY DEF Admits, InRoom
<1> HIDE DEF e
<1>2. /\ DOMAIN db'.members = DOMAIN db.members \cup {p}
      /\ nextPeerSeq' \in {nextPeerSeq, nextPeerSeq + 1}
      /\ nextPeerSeq \in Int /\ p \in Int /\ p # NoPeer
  BY DEF Admits, RegistryInv, TypeOK, RamTypeOK, PeerIds, NoPeer
<1>3. /\ \A q : q \in others <=> \E d \in clients : d.roomId = r /\ d.peerId = q
      /\ \A y : y \in peers <=> \E d \in clients : d.roomId = r /\ d.session = y
  BY <1>1, OnlineMeans
<1>4. s \notin peers
  BY <1>1, <1>3
<1>5. \A x : Told(x) = {}
  BY NothingTold
<1>6. /\ \A q : Adds(Joined(r, type, p, others), r, q) <=> q \in others
      /\ \A q : Adds(PeerJoined(r, p), r, q) <=> q = p
      /\ Starts(Joined(r, type, p, others), r)
      /\ \A y : y # r => /\ ~Starts(Joined(r, type, p, others), y)
                         /\ \A q : /\ ~Adds(Joined(r, type, p, others), y, q)
                                   /\ ~Adds(PeerJoined(r, p), y, q)
      /\ \A y : ~Starts(PeerJoined(r, p), y)
      /\ \A y, q : /\ ~Drops(Joined(r, type, p, others), y, q)
                   /\ ~Drops(PeerJoined(r, p), y, q)
  BY DEF Adds, Drops, Starts, Joined, PeerJoined
<1>7. ASSUME NEW x, NEW y
      PROVE  /\ JoinTold(x, y)' <=> x = s /\ y = r
             /\ JoinSent(x, y)' <=> JoinSent(x, y)
             /\ \A q : ToldAdds(x, y, q)' <=>
                         y = r /\ ((x = s /\ q \in others) \/ (x \in peers /\ q = p))
             /\ \A q : ~ToldDrops(x, y, q)'
             /\ ~JoinTold(x, y) /\ \A q : ~ToldAdds(x, y, q) /\ ~ToldDrops(x, y, q)
  <2> DEFINE J == Joined(r, type, p, others)
             P == PeerJoined(r, p)
  <2>0. PICK told : /\ told = Told(x)'
                    /\ \A m : m \in told <=> (x = s /\ m = J) \/ (x \in peers /\ m = P)
    BY DEF ToldBoth
  <2>a. /\ Starts(J, y) <=> y = r
        /\ ~Starts(P, y)
        /\ \A q : /\ Adds(J, y, q) <=> y = r /\ q \in others
                  /\ Adds(P, y, q) <=> y = r /\ q = p
                  /\ ~Drops(J, y, q) /\ ~Drops(P, y, q)
    BY <1>6
  <2> HIDE DEF J, P
  <2>1. JoinTold(x, y)' <=> x = s /\ y = r
    <3>1. JoinTold(x, y)' <=> \E m \in told : Starts(m, y)
      BY <2>0 DEF JoinTold
    <3>2. QED
      BY <2>0, <2>a, <3>1
  <2>2. ASSUME NEW q
        PROVE  ToldAdds(x, y, q)' <=>
                 y = r /\ ((x = s /\ q \in others) \/ (x \in peers /\ q = p))
    <3>1. ToldAdds(x, y, q)' <=> \E m \in told : Adds(m, y, q)
      BY <2>0 DEF ToldAdds
    <3>2. QED
      BY <2>0, <2>a, <3>1
  <2>3. ASSUME NEW q
        PROVE  ~ToldDrops(x, y, q)'
    <3>1. ToldDrops(x, y, q)' <=> \E m \in told : Drops(m, y, q)
      BY <2>0 DEF ToldDrops
    <3>2. QED
      BY <2>0, <2>a, <3>1
  <2>4. ~JoinTold(x, y) /\ \A q : ~ToldAdds(x, y, q) /\ ~ToldDrops(x, y, q)
    BY <1>5 DEF JoinTold, ToldAdds, ToldDrops
  <2>5. JoinSent(x, y)' <=> JoinSent(x, y)
    BY DEF JoinSent
  <2>6. QED
    BY <2>1, <2>2, <2>3, <2>4, <2>5
<1>8. /\ \A x, y, q : InAs(x, y, q)' <=> InAs(x, y, q) \/ (x = s /\ y = r /\ q = p)
      /\ \A q : ~InAs(s, r, q)
  BY <1>1 DEF InAs
<1>9. /\ \A u, x : Attached(u, x)' = Attached(u, x)
      /\ \A u, y : (Knows(u, y)' <=> Knows(u, y)) /\ Seen(u, y)' = Seen(u, y)
  BY DEF Attached, Knows, Seen
<1>10. /\ ~JoinSent(s, r)
       /\ \A u \in Usernames : link[u] = s => ~Knows(u, r)
  <2>1. ~JoinSent(s, r)
    BY <1>8 DEF PresenceInv, EntriesInv, JoinsAreEntries, JoinSent, HasStart, Starts
  <2>2. \A u \in Usernames : link[u] = s => ~Knows(u, r)
    BY <1>8 DEF PresenceInv, EntriesInv, KnownAreEntries, Attached
  <2>3. QED
    BY <2>1, <2>2
<1>11. JoinsAreEntries'
  <2>1. \A x \in Sessions :
          /\ StartsOnce(outbox[x])
          /\ \A i \in DOMAIN outbox[x] : outbox[x][i].type = "joined" =>
               InAs(x, outbox[x][i].roomId, outbox[x][i].peerId)'
    BY <1>8 DEF PresenceInv, EntriesInv, JoinsAreEntries
  <2>2. ASSUME NEW x \in Sessions, NEW m \in Told(x)', m.type = "joined"
        PROVE  InAs(x, m.roomId, m.peerId)' /\ ~JoinSent(x, m.roomId)'
    <3>1. x = s /\ m.roomId = r /\ m.peerId = p
      BY <2>2 DEF ToldBoth, Joined, PeerJoined
    <3>2. QED
      BY <1>7, <1>8, <1>10, <3>1
  <2>3. QED
    BY <2>1, <2>2 DEF JoinsAreEntries
<1>12. KnownAreEntries'
  <2>1. ASSUME NEW u \in Usernames, NEW x \in Sessions, NEW y \in RoomIds,
               Attached(u, x), Knows(u, y), NEW my, my = rooms[u][y].myPeerId
        PROVE  InAs(x, y, my)' /\ ~JoinUnderWay(x, y)'
    <3>1. InAs(x, y, my) /\ ~JoinSent(x, y)
      BY <2>1 DEF PresenceInv, EntriesInv, KnownAreEntries, JoinUnderWay
    <3>2. QED
      BY <1>7, <1>8, <3>1 DEF JoinUnderWay
  <2>2. QED
    BY <1>9, <2>1 DEF KnownAreEntries
<1>13. LeavesAreLast'
  <2>1. ASSUME NEW x \in Sessions, NEW req \in Asked(x), req.type = "leave"
        PROVE  LeaveIsLast(x, req)'
    <3>1. /\ LeaveIsLast(x, req) /\ req.roomId \in RoomIds
          /\ req.peerId \in PeerIds \cup {NoPeer}
      BY <2>1, AskedAreRequests DEF PresenceInv, EntriesInv, LeavesAreLast, RequestsUpTo
    <3>2. req.peerId # NoPeer =>
            /\ req.peerId < nextPeerSeq
            /\ req.peerId \in DOMAIN db.members => InAs(x, req.roomId, req.peerId)
      BY <3>1 DEF LeaveIsLast
    <3>3. req.peerId = p => InAs(x, req.roomId, p)
      BY <1>2, <3>2
    <3>4. ASSUME InAs(x, req.roomId, req.peerId)'
          PROVE  InAs(x, req.roomId, req.peerId)
      BY <1>8, <3>3, <3>4
    <3>5. ASSUME InAs(x, req.roomId, req.peerId)
          PROVE  /\ ~JoinUnderWay(x, req.roomId)'
                 /\ \A u \in Usernames : link'[u] = x => ~Knows(u, req.roomId)'
      <4>1. /\ ~JoinSent(x, req.roomId)
            /\ \A u \in Usernames : link[u] = x => ~Knows(u, req.roomId)
        BY <3>1, <3>5 DEF LeaveIsLast, JoinUnderWay
      <4>2. ~JoinTold(x, req.roomId)'
        BY <1>7, <1>8, <3>5
      <4>3. QED
        BY <1>7, <1>9, <4>1, <4>2 DEF JoinUnderWay
    <3>6. ASSUME req.peerId # NoPeer
          PROVE  /\ req.peerId < nextPeerSeq'
                 /\ req.peerId \in DOMAIN db'.members => InAs(x, req.roomId, req.peerId)'
      <4>1. req.peerId \in Int
        BY <3>1, <3>6 DEF PeerIds
      <4>2. req.peerId < nextPeerSeq'
        BY <1>2, <3>2, <3>6, <4>1
      <4>3. QED
        BY <1>2, <1>8, <3>2, <3>3, <3>6, <4>2
    <3>7. QED
      BY <3>4, <3>5, <3>6 DEF LeaveIsLast
  <2>2. QED
    BY <2>1 DEF LeavesAreLast
<1>14. OthersStay' /\ LostIsFresh'
  BY DEF PresenceInv, EntriesInv, OthersStay, LostIsFresh
<1>15. /\ \A x, y, q : Meets(x, y, q) => Meets(x, y, q)'
       /\ \A q \in others : Meets(s, r, q)'
       /\ \A x \in peers : Meets(x, r, p)'
       /\ \A x, y, q : Meets(x, y, q)' =>
            \/ x = s /\ y = r /\ q \in others
            \/ y = r /\ q = p /\ x \in peers
            \/ (x # s \/ y # r) /\ Meets(x, y, q)
  BY <1>1, <1>3 DEF Meets
<1>16. ASSUME NEW u \in Usernames, NEW x \in Sessions, NEW y \in RoomIds, NEW q \in PeerIds,
              Attached(u, x), Meets(x, y, q)', JoinUnderWay(x, y)' \/ Knows(u, y)
       PROVE  WillKnow(u, x, y, q)'
  <2>1. CASE ToldAdds(x, y, q)'
    BY <2>1 DEF WillKnow
  <2>2. CASE ~ToldAdds(x, y, q)'
    <3>1. (x # s \/ y # r) /\ Meets(x, y, q)
      BY <1>7, <1>15, <1>16, <2>2
    <3>2. ~JoinTold(x, y)' /\ (JoinSent(x, y) \/ Knows(u, y))
      BY <1>7, <1>16, <3>1 DEF JoinUnderWay
    <3>3. WillKnow(u, x, y, q)
      BY <1>16, <3>1, <3>2 DEF PresenceInv, NobodyMissed, JoinUnderWay
    <3>4. QED
      BY <1>7, <1>9, <3>2, <3>3 DEF WillKnow
  <2>3. QED
    BY <2>1, <2>2
<1>17. ASSUME NEW u \in Usernames \ Leavers, NEW x \in Sessions, NEW y \in RoomIds,
              NEW q \in PeerIds, Attached(u, x), WillSee(u, x, y, q)'
       PROVE  Meets(x, y, q)'
  <2>1. CASE ToldAdds(x, y, q)'
    <3>1. y = r /\ ((x = s /\ q \in others) \/ (x \in peers /\ q = p))
      <4>1. ToldAdds(x, y, q)' <=>
              y = r /\ ((x = s /\ q \in others) \/ (x \in peers /\ q = p))
        BY <1>7
      <4>2. QED
        BY <2>1, <4>1
    <3>2. (\A k \in others : Meets(s, r, k)') /\ \A z \in peers : Meets(z, r, p)'
      BY <1>15
    <3>3. CASE y = r /\ x = s /\ q \in others
      BY <3>2, <3>3
    <3>4. CASE y = r /\ x \in peers /\ q = p
      BY <3>2, <3>4
    <3>5. QED
      BY <3>1, <3>3, <3>4
  <2>2. CASE ~ToldAdds(x, y, q)'
    <3>1. After(outbox[x], y, q, Seen(u, y))
      BY <1>9, <1>17, <2>2 DEF WillSee
    <3>2. WillSee(u, x, y, q)
      BY <1>7, <3>1 DEF WillSee
    <3>3. QED
      BY <1>15, <1>17, <3>2 DEF PresenceInv, NoGhostsToCome
  <2>3. QED
    BY <2>1, <2>2
<1>18. NobodyMissed' /\ NoGhostsToCome'
  <2>1. NobodyMissed'
    BY <1>9, <1>16 DEF NobodyMissed
  <2>2. NoGhostsToCome'
    BY <1>9, <1>17 DEF NoGhostsToCome
  <2>3. QED
    BY <2>1, <2>2
<1>19. QED
  BY <1>11, <1>12, <1>13, <1>14, <1>18 DEF PresenceInv, EntriesInv

(***************************************************************************)
(* Some entries go, those of one leave or of the end of a session, and those *)
(* who are online in their rooms are told of it.  Whose session is still     *)
(* open has forgotten the room, and is the client of one who leaves.        *)
(***************************************************************************)
LEMMA GoneKeepsPresence ==
  ASSUME NEW n, TypedUpTo(n), TypedUpTo(n)', RegistryInv, PresenceInv,
         \A t \in Sessions : todo[t] = <<>>,
         NEW G \in SUBSET clients, clients' = clients \ G, ToldOnce',
         \A x, m : m \in Told(x)' => \E g \in G : m = PeerLeft(g.roomId, g.peerId),
         \A g \in G : \A x \in OnlinePeers(g.roomId, g.peerId) :
           PeerLeft(g.roomId, g.peerId) \in Told(x)',
         \A x \in Sessions :
           IF session'[x] = "open" THEN session[x] = "open" /\ outbox'[x] = outbox[x]
           ELSE outbox'[x] = <<>>,
         UNCHANGED <<link, rooms, nextPeerSeq>>,
         DOMAIN db'.members \subseteq DOMAIN db.members,
         \A x \in Sessions : Asked(x)' \subseteq Asked(x),
         \A g \in G : session'[g.session] = "open" =>
           /\ ~JoinUnderWay(g.session, g.roomId)
           /\ \A v \in Usernames : link[v] = g.session =>
                ~Knows(v, g.roomId) /\ v \in Leavers,
         \A g \in G : g.peerId \notin DOMAIN db'.members \/ Asked(g.session)' = {}
  PROVE  PresenceInv'
<1>1. /\ \A y, q, r, p : /\ ~Adds(PeerLeft(y, q), r, p)
                         /\ ~Starts(PeerLeft(y, q), r)
                         /\ Drops(PeerLeft(y, q), r, p) <=> y = r /\ q = p
      /\ \A y, q : PeerLeft(y, q).type # "joined"
  BY DEF Adds, Drops, Starts, PeerLeft
<1>2. \A x : Told(x) = {}
  BY NothingTold
<1>3. ASSUME NEW x, NEW r, NEW q
      PROVE  /\ ~JoinTold(x, r) /\ ~ToldAdds(x, r, q) /\ ~ToldDrops(x, r, q)
             /\ ~JoinTold(x, r)' /\ ~ToldAdds(x, r, q)'
             /\ ToldDrops(x, r, q)' => \E g \in G : g.roomId = r /\ g.peerId = q
             /\ \A g \in G : /\ g.roomId = r /\ g.peerId = q
                             /\ x \in OnlinePeers(r, q)
                             => ToldDrops(x, r, q)'
  <2>1. ~JoinTold(x, r) /\ ~ToldAdds(x, r, q) /\ ~ToldDrops(x, r, q)
    BY <1>2 DEF JoinTold, ToldAdds, ToldDrops
  <2>2. PICK told : told = Told(x)'
    OBVIOUS
  <2>3. /\ JoinTold(x, r)' <=> \E m \in told : Starts(m, r)
        /\ ToldAdds(x, r, q)' <=> \E m \in told : Adds(m, r, q)
        /\ ToldDrops(x, r, q)' <=> \E m \in told : Drops(m, r, q)
    BY <2>2 DEF JoinTold, ToldAdds, ToldDrops
  <2>4. \A m \in told : \E g \in G : m = PeerLeft(g.roomId, g.peerId)
    BY <2>2
  <2>5. ASSUME NEW g \in G, g.roomId = r, g.peerId = q, x \in OnlinePeers(r, q)
        PROVE  PeerLeft(r, q) \in told
    <3>1. x \in OnlinePeers(g.roomId, g.peerId)
      BY <2>5
    <3>2. PeerLeft(g.roomId, g.peerId) \in told
      BY <2>2, <3>1
    <3>3. QED
      BY <2>5, <3>2
  <2>6. QED
    BY <1>1, <2>1, <2>3, <2>4, <2>5
<1>4. /\ \A x, r, p : InAs(x, r, p)' <=>
           \E c \in clients \ G : c.session = x /\ c.roomId = r /\ c.peerId = p
      /\ \A x, r, q : Meets(x, r, q)' <=>
           \E c, d \in clients \ G : /\ c.session = x /\ c.roomId = r
                                     /\ d.roomId = r /\ d.peerId = q /\ c.peerId # q
      /\ \A u, r : (Knows(u, r)' <=> Knows(u, r)) /\ Seen(u, r)' = Seen(u, r)
  BY DEF InAs, Meets, Knows, Seen
<1>5. ASSUME NEW x \in Sessions
      PROVE  /\ \A r : JoinSent(x, r)' => JoinSent(x, r)
             /\ \A r : JoinUnderWay(x, r)' => JoinUnderWay(x, r)
             /\ \A u : Attached(u, x)' =>
                  Attached(u, x) /\ session'[x] = "open" /\ outbox'[x] = outbox[x]
  <2>1. \A r : ~HasStart(<<>>, r)
    BY DEF HasStart
  <2>2. outbox'[x] = outbox[x] \/ outbox'[x] = <<>>
    OBVIOUS
  <2>3. \A r : JoinSent(x, r)' => JoinSent(x, r)
    BY <2>1, <2>2 DEF JoinSent
  <2>4. \A r : JoinUnderWay(x, r)' => JoinUnderWay(x, r)
    BY <1>3, <2>3 DEF JoinUnderWay
  <2>5. QED
    BY <2>3, <2>4 DEF Attached
<1>6. ASSUME NEW x \in Sessions, NEW r, NEW p, InAs(x, r, p), session'[x] = "open",
             \/ JoinUnderWay(x, r)
             \/ \E u \in Usernames : link[u] = x /\ (Knows(u, r) \/ u \notin Leavers)
      PROVE  InAs(x, r, p)'
  <2>1. PICK c \in clients : c.session = x /\ c.roomId = r /\ c.peerId = p
    BY <1>6 DEF InAs
  <2>2. c \notin G
    BY <1>6, <2>1
  <2>3. QED
    BY <1>4, <2>1, <2>2
<1>7. JoinsAreEntries'
  <2>1. ASSUME NEW x \in Sessions, session'[x] = "open"
        PROVE  /\ StartsOnce(outbox'[x])
               /\ \A i \in DOMAIN outbox'[x] : \A m : m = outbox'[x][i] /\ m.type = "joined"
                    => InAs(x, m.roomId, m.peerId)'
    <3>1. outbox'[x] = outbox[x] /\ StartsOnce(outbox[x])
      BY <2>1 DEF PresenceInv, EntriesInv, JoinsAreEntries
    <3>2. ASSUME NEW i \in DOMAIN outbox[x], NEW m, m = outbox[x][i], m.type = "joined"
          PROVE  InAs(x, m.roomId, m.peerId)'
      <4>1. InAs(x, m.roomId, m.peerId)
        BY <3>2 DEF PresenceInv, EntriesInv, JoinsAreEntries
      <4>2. JoinUnderWay(x, m.roomId)
        BY <3>2 DEF JoinUnderWay, JoinSent, HasStart, Starts
      <4>3. QED
        BY <1>6, <2>1, <4>1, <4>2
    <3>3. QED
      BY <3>1, <3>2
  <2>2. StartsOnce(<<>>) /\ DOMAIN <<>> = {}
    BY DEF StartsOnce
  <2>3. ASSUME NEW x \in Sessions, session'[x] # "open"
        PROVE  StartsOnce(outbox'[x]) /\ DOMAIN outbox'[x] = {}
    BY <2>2, <2>3
  <2>4. ASSUME NEW x, NEW m \in Told(x)'
        PROVE  m.type # "joined"
    BY <1>1, <2>4
  <2>5. ASSUME NEW x \in Sessions
        PROVE  /\ StartsOnce(outbox'[x])
               /\ \A i \in DOMAIN outbox'[x] : \A m : m = outbox'[x][i] /\ m.type = "joined"
                    => \E c \in clients' : /\ c.session = x /\ c.roomId = m.roomId
                                          /\ c.peerId = m.peerId
    BY <2>1, <2>3 DEF InAs
  <2>6. QED
    BY <2>4, <2>5 DEF JoinsAreEntries, InAs
<1>8. KnownAreEntries'
  <2>1. ASSUME NEW u \in Usernames, NEW x \in Sessions, NEW r \in RoomIds,
               Attached(u, x)', Knows(u, r), NEW my, my = rooms[u][r].myPeerId
        PROVE  InAs(x, r, my)' /\ ~JoinUnderWay(x, r)'
    <3>1. Attached(u, x) /\ session'[x] = "open" /\ link[u] = x
      BY <1>5, <2>1 DEF Attached
    <3>2. InAs(x, r, my) /\ ~JoinUnderWay(x, r)
      BY <2>1, <3>1 DEF PresenceInv, EntriesInv, KnownAreEntries
    <3>3. QED
      BY <1>5, <1>6, <2>1, <3>1, <3>2
  <2>2. QED
    BY <1>4, <2>1 DEF KnownAreEntries, InAs
<1>9. LeavesAreLast'
  <2>1. ASSUME NEW x \in Sessions, NEW req \in Asked(x)', req.type = "leave"
        PROVE  LeaveIsLast(x, req)'
    <3>1. req \in Asked(x) /\ LeaveIsLast(x, req)
      BY <2>1 DEF PresenceInv, EntriesInv, LeavesAreLast
    <3>2. ASSUME InAs(x, req.roomId, req.peerId)'
          PROVE  /\ ~JoinUnderWay(x, req.roomId)'
                 /\ \A u \in Usernames : link'[u] = x => ~Knows(u, req.roomId)'
      <4>1. InAs(x, req.roomId, req.peerId)
        BY <1>4, <3>2 DEF InAs
      <4>2. /\ ~JoinUnderWay(x, req.roomId)
            /\ \A u \in Usernames : link[u] = x => ~Knows(u, req.roomId)
        BY <3>1, <4>1 DEF LeaveIsLast
      <4>3. QED
        BY <1>4, <1>5, <4>2
    <3>3. ASSUME req.peerId # NoPeer
          PROVE  /\ req.peerId < nextPeerSeq'
                 /\ req.peerId \in DOMAIN db'.members => InAs(x, req.roomId, req.peerId)'
      <4>1. req.peerId < nextPeerSeq
        BY <3>1, <3>3 DEF LeaveIsLast
      <4>2. ASSUME req.peerId \in DOMAIN db'.members
            PROVE  InAs(x, req.roomId, req.peerId)'
        <5>1. InAs(x, req.roomId, req.peerId)
          BY <3>1, <3>3, <4>2 DEF LeaveIsLast
        <5>2. PICK c \in clients :
                c.session = x /\ c.roomId = req.roomId /\ c.peerId = req.peerId
          BY <5>1 DEF InAs
        <5>3. c \notin G
          BY <2>1, <4>2, <5>2
        <5>4. QED
          BY <1>4, <5>2, <5>3
      <4>3. QED
        BY <4>1, <4>2
    <3>4. QED
      BY <3>2, <3>3 DEF LeaveIsLast
  <2>2. QED
    BY <2>1 DEF LeavesAreLast
<1>10. OthersStay' /\ LostIsFresh'
  BY DEF PresenceInv, EntriesInv, OthersStay, LostIsFresh
<1>11. ASSUME NEW u \in Usernames, NEW x \in Sessions, NEW r \in RoomIds, NEW q \in PeerIds,
              Attached(u, x)', Meets(x, r, q)', JoinUnderWay(x, r)' \/ Knows(u, r)
       PROVE  WillKnow(u, x, r, q)'
  <2>1. Attached(u, x) /\ outbox'[x] = outbox[x] /\ (JoinUnderWay(x, r) \/ Knows(u, r))
    BY <1>5, <1>11
  <2>2. PICK d \in clients \ G : d.roomId = r /\ d.peerId = q
    BY <1>4, <1>11
  <2>3. Meets(x, r, q)
    BY <1>4, <1>11 DEF Meets
  <2>4. WillKnow(u, x, r, q)
    BY <2>1, <2>3 DEF PresenceInv, NobodyMissed
  <2>5. ~ToldDrops(x, r, q)'
    BY <1>3, <2>2 DEF RegistryInv, ConnectionsMatchClients
  <2>6. JoinSent(x, r)' = JoinSent(x, r)
    BY <2>1 DEF JoinSent
  <2>7. QED
    BY <1>3, <1>4, <2>1, <2>4, <2>5, <2>6 DEF WillKnow
<1>12. ASSUME NEW u \in Usernames \ Leavers, NEW x \in Sessions, NEW r \in RoomIds,
              NEW q \in PeerIds, Attached(u, x)', WillSee(u, x, r, q)'
       PROVE  Meets(x, r, q)'
  <2>1. Attached(u, x) /\ outbox'[x] = outbox[x] /\ session'[x] = "open" /\ link[u] = x
    BY <1>5, <1>12 DEF Attached
  <2>2. ~ToldDrops(x, r, q)' /\ After(outbox[x], r, q, Seen(u, r))
    BY <1>3, <1>4, <1>12, <2>1 DEF WillSee
  <2>3. Meets(x, r, q)
    BY <1>3, <2>1, <2>2 DEF PresenceInv, NoGhostsToCome, WillSee
  <2>4. PICK c \in clients, d \in clients :
          /\ c.session = x /\ c.roomId = r
          /\ d.roomId = r /\ d.peerId = q /\ c.peerId # q
    BY <2>3 DEF Meets
  <2>5. c \notin G
    BY <2>1, <2>4
  <2>6. d \notin G
    <3>1. x \in OnlinePeers(r, q)
      BY <2>4, OnlineMeans
    <3>2. QED
      BY <1>3, <2>2, <2>4, <3>1
  <2>7. QED
    BY <1>4, <2>4, <2>5, <2>6
<1>13. NobodyMissed' /\ NoGhostsToCome'
  <2>1. NobodyMissed'
    BY <1>4, <1>11 DEF NobodyMissed
  <2>2. NoGhostsToCome'
    BY <1>12 DEF NoGhostsToCome
  <2>3. QED
    BY <2>1, <2>2
<1>14. QED
  BY <1>7, <1>8, <1>9, <1>10, <1>13 DEF PresenceInv, EntriesInv

\* v is one of a list.
IsIn(v, list) == \E j \in DOMAIN list : v = list[j]

\* What is in a list of two parts is in one of them.
LEMMA EitherPart ==
  ASSUME NEW S, NEW a \in Seq(S), NEW b \in Seq(S), NEW c, c = a \o b, NEW i \in DOMAIN c
  PROVE  IsIn(c[i], a) \/ IsIn(c[i], b)
<1>1. \/ i \in DOMAIN a /\ c[i] = a[i]
      \/ i - Len(a) \in DOMAIN b /\ c[i] = b[i - Len(a)]
  OBVIOUS
<1>2. QED
  BY <1>1 DEF IsIn

\* steps tells s hello and the peers the news.
TellsBoth(steps, s, hello, peers, news) ==
  /\ TellsOnce(steps)
  /\ \A x, m : m \in Tells(steps, x) <=> (x = s /\ m = hello) \/ (x \in peers /\ m = news)

(***************************************************************************)
(* What the handler of a join has to tell: "joined" to its session, and      *)
(* "peer-joined" to the others.                                             *)
(***************************************************************************)
LEMMA JoinTells ==
  ASSUME NEW n, NEW r \in RoomIds, NEW p \in PeerIds, NEW s \in Sessions,
         NEW hello \in MessagesUpTo(n), NEW news \in MessagesUpTo(n),
         NEW peers \in SUBSET Sessions, s \notin peers,
         NEW look, look = LookUp(r, p) \/ look = <<>>,
         NEW steps, steps = Send({s}, hello) \o look \o Send(peers, news)
  PROVE  TellsBoth(steps, s, hello, peers, news)
<1>1. PICK a : a = Send({s}, hello)
  OBVIOUS
<1>2. PICK b : b = Send(peers, news)
  OBVIOUS
<1>3. a \in Seq(StepsUpTo(n)) /\ b \in Seq(StepsUpTo(n)) /\ look \in Seq(StepsUpTo(n))
  BY <1>1, <1>2, SendIsSteps, LookUpIsSteps, EmptySeq
<1>4. /\ TellsOnce(a)
      /\ \A x, m : m \in Tells(a, x) <=> x = s /\ m = hello
      /\ \A i \in DOMAIN a : a[i].to = {s}
  <2>1. PICK to : to = {s}
    OBVIOUS
  <2>2. /\ TellsOnce(Send(to, hello))
        /\ \A i \in DOMAIN Send(to, hello) : Send(to, hello)[i].to = to
    BY SendTells
  <2>3. \A x : Tells(Send(to, hello), x) = IF x \in to THEN {hello} ELSE {}
    BY SendTells
  <2>4. a = Send(to, hello)
    BY <1>1, <2>1
  <2>5. \A x : Tells(a, x) = IF x = s THEN {hello} ELSE {}
    BY <2>1, <2>3, <2>4
  <2>6. \A x, m : m \in Tells(a, x) <=> x = s /\ m = hello
    BY <2>5
  <2>7. QED
    BY <2>1, <2>2, <2>4, <2>6
<1>5. /\ TellsOnce(b)
      /\ \A x, m : m \in Tells(b, x) <=> x \in peers /\ m = news
      /\ \A i \in DOMAIN b : b[i].to = peers
  BY <1>2, SendTells
<1>6. (\A x : Tells(look, x) = {}) /\ \A i \in DOMAIN look : look[i].op # "send"
  <2>1. (\A x : Tells(<<>>, x) = {}) /\ DOMAIN <<>> = {}
    BY DEF Tells
  <2>2. QED
    BY <2>1, LookUpTells
<1>7. TellsOnce(look)
  BY <1>6 DEF TellsOnce
<1>8. PICK c, S : c = a \o look /\ S = StepsUpTo(n)
  OBVIOUS
<1>9. c \in Seq(S) /\ a \in Seq(S) /\ b \in Seq(S) /\ look \in Seq(S)
  BY <1>3, <1>8, ConcatProperties
<1>10. /\ \A x : Tells(c, x) = Tells(a, x) \cup Tells(look, x)
       /\ \A i \in DOMAIN c :
            (\E j \in DOMAIN a : c[i] = a[j]) \/ (\E j \in DOMAIN look : c[i] = look[j])
       /\ TellsOnce(c)
  <2>1. \A i \in DOMAIN a, j \in DOMAIN look, y \in RoomIds :
          /\ a[i].op = "send" /\ look[j].op = "send"
          /\ About(a[i].msg, y) /\ About(look[j].msg, y)
          => a[i].to \cap look[j].to = {}
    BY <1>6
  <2>2. TellsOnce(a \o look)
    BY <1>4, <1>7, <1>9, <2>1, ThenTells
  <2>3. \A x : Tells(a \o look, x) = Tells(a, x) \cup Tells(look, x)
    BY <1>9, ThenTells
  <2>4. ASSUME NEW i \in DOMAIN c
        PROVE  (\E j \in DOMAIN a : c[i] = a[j]) \/ (\E j \in DOMAIN look : c[i] = look[j])
    <3>1. c = a \o look /\ a \in Seq(S) /\ look \in Seq(S)
      BY <1>8, <1>9
    <3>2. IsIn(c[i], a) \/ IsIn(c[i], look)
      BY <3>1, EitherPart
    <3>3. QED
      BY <3>2 DEF IsIn
  <2>5. QED
    BY <1>8, <2>2, <2>3, <2>4
<1>11. \A i \in DOMAIN c : c[i].op = "send" => c[i].to = {s}
  BY <1>4, <1>6, <1>10
<1>12. \A i \in DOMAIN c, j \in DOMAIN b : c[i].op = "send" => c[i].to \cap b[j].to = {}
  BY <1>5, <1>11
<1>13. steps = c \o b
  BY <1>1, <1>2, <1>8
<1>14. TellsOnce(steps) /\ \A x : Tells(steps, x) = Tells(c, x) \cup Tells(b, x)
  <2>1. \A i \in DOMAIN c, j \in DOMAIN b, y \in RoomIds :
          /\ c[i].op = "send" /\ b[j].op = "send"
          /\ About(c[i].msg, y) /\ About(b[j].msg, y)
          => c[i].to \cap b[j].to = {}
    BY <1>12
  <2>2. TellsOnce(c \o b)
    BY <1>5, <1>9, <1>10, <2>1, ThenTells
  <2>3. \A x : Tells(c \o b, x) = Tells(c, x) \cup Tells(b, x)
    BY <1>9, ThenTells
  <2>4. QED
    BY <1>13, <2>2, <2>3
<1>15. \A x, m : m \in Tells(steps, x) <=> (x = s /\ m = hello) \/ (x \in peers /\ m = news)
  BY <1>4, <1>5, <1>6, <1>10, <1>14
<1>16. QED
  BY <1>14, <1>15 DEF TellsBoth

\* Who is told nothing when one handler is told of by what it tells.
LEMMA OneTells ==
  ASSUME NEW s \in Sessions, TellsOnce(todo'[s]),
         \A t \in Sessions : t # s => todo'[t] = <<>>
  PROVE  ToldOnce' /\ \A x, m : m \in Told(x)' <=> m \in Tells(todo'[s], x)
<1>1. TellsOnce(<<>>)
  BY DEF TellsOnce
<1>2. ToldOnce'
  <2>1. \A t \in Sessions : TellsOnce(todo'[t])
    BY <1>1
  <2>2. QED
    BY <2>1 DEF ToldOnce
<1>3. \A x : Told(x)' = Tells(todo'[s], x)
  BY ToldByOne
<1>4. QED
  BY <1>2, <1>3

\* A request that is refused, or answered without a word about who is there.
LEMMA AnswerKeepsPresence ==
  ASSUME NEW n, TypedUpTo(n), TypedUpTo(n)', PresenceInv,
         \A t \in Sessions : todo[t] = <<>>, NEW s \in Sessions,
         \A t \in Sessions : t # s => todo'[t] = <<>>,
         NEW to, NEW m, \A r \in RoomIds : ~About(m, r), Continue(s, Send(to, m)),
         UNCHANGED <<clients, session, nextPeerSeq, link, rooms, outbox>>,
         DOMAIN db'.members = DOMAIN db.members,
         \A x \in Sessions : Asked(x)' \subseteq Asked(x)
  PROVE  PresenceInv'
<1>1. todo'[s] = Send(to, m)
  BY DEF Continue, TypedUpTo
<1>2. \A i \in DOMAIN todo'[s] : todo'[s][i].msg = m
  BY <1>1, SendTells
<1>3. \A i \in DOMAIN todo'[s], r \in RoomIds :
        todo'[s][i].op = "send" => ~About(todo'[s][i].msg, r)
  BY <1>2
<1>4. QED
  BY <1>3, RepliesKeepPresence

(***************************************************************************)
(* A join, granted or refused.                                              *)
(***************************************************************************)
LEMMA HandleJoinKeepsPresence ==
  ASSUME NEW n \in Nat, TypedUpTo(n), TypedUpTo(n)', RegistryInv, RegistryInv', PresenceInv,
         \A t \in Sessions : todo[t] = <<>>,
         NEW s \in Sessions, session[s] = "open",
         \A t \in Sessions : t # s => todo'[t] = <<>>,
         NEW req \in RequestsUpTo(n), req.type = "join", HandleJoin(s, req),
         UNCHANGED <<session, link, rooms, outbox>>,
         \A x \in Sessions : Asked(x)' \subseteq Asked(x)
  PROVE  PresenceInv'
<1>1. PICK r \in RoomIds, u \in Usernames, t \in RequestedTypes :
        req.roomId = r /\ req.username = u /\ req.roomType = t
  BY DEF RequestsUpTo, RequestedTypes, RoomTypes
<1>2. PICK type : type = JoinedType(r, t)
  OBVIOUS
<1>3. CASE Continue(s, Send({s}, Error)) /\ (Refuse(s) \/ JoinRefused(s, r, u, t))
  <2>1. UNCHANGED <<clients, nextPeerSeq>> /\ DOMAIN db'.members = DOMAIN db.members
    <3>1. WithRoom(r, t).members = db.members
      <4>1. IsDb(db)
        BY DEF RegistryInv, TypeOK
      <4>2. QED
        BY <4>1, WithRoomDb
    <3>2. QED
      BY <1>3, <3>1 DEF Refuse, registryVars, JoinRefused
  <2>2. \A y \in RoomIds : ~About(Error, y)
    BY DEF About, Error
  <2>3. QED
    BY <1>3, <2>1, <2>2, AnswerKeepsPresence
<1>4. ASSUME JoinReconnect(s, r, u, t) \/ JoinNew(s, r, u, t), NEW c \in clients' \ clients,
             NEW others, others = {q \in FindMembersByRoom(db, r) \ {c.peerId} : Online(q)},
             NEW look, look = LookUp(r, c.peerId) \/ look = <<>>,
             Continue(s, Send({s}, Joined(r, c.roomType, c.peerId, others)) \o look
                         \o Send(OnlinePeers(r, c.peerId), PeerJoined(r, c.peerId)))
      PROVE  PresenceInv'
  <2>1. PICK p \in PeerIds : Admits(s, r, u, type, p)
    BY <1>2, <1>4, ReconnectAdmits, NewAdmits
  <2>2. ~InRoom(s, r)
    BY <1>4, Zenon DEF JoinReconnect, JoinNew, MayAsk
  <2>3. c = [session |-> s, roomId |-> r, peerId |-> p, username |-> u, roomType |-> type]
    BY <2>1 DEF Admits
  <2>4. c.peerId = p /\ c.roomType = type
    BY <2>3
  <2>5. p \in DOMAIN db.members \/ p = nextPeerSeq
    <3>1. PICK k : Enter(s, r, u, t, k) /\ (k \in Namesakes(r, u) \/ k = nextPeerSeq)
      BY <1>4, Zenon DEF JoinReconnect, JoinNew
    <3>2. c.peerId = k
      BY <3>1 DEF Enter
    <3>3. QED
      BY <2>4, <3>1, <3>2 DEF Namesakes, FindMembersByRoom
  <2>6. PICK peers : peers = OnlinePeers(r, p)
    OBVIOUS
  <2>7. peers \in SUBSET Sessions /\ s \notin peers
    BY <2>2, <2>6, DeliveriesGoToSessions, OnlineMeans DEF RegistryInv, InRoom
  <2>8. Joined(r, type, p, others) \in MessagesUpTo(n) /\ PeerJoined(r, p) \in MessagesUpTo(n)
    <3>1. others \in SUBSET PeerIds /\ type \in RoomTypes
      <4>1. others \in SUBSET PeerIds
        BY <1>4 DEF RegistryInv, TypeOK, IsDb, IsTable, FindMembersByRoom
      <4>2. c \in ClientInfo
        BY DEF RegistryInv, TypeOK, RamTypeOK
      <4>3. QED
        BY <2>4, <4>1, <4>2 DEF ClientInfo
    <3>2. QED
      BY <3>1, MessagesAreTyped
  <2>9. todo'[s] = Send({s}, Joined(r, type, p, others)) \o look \o Send(peers, PeerJoined(r, p))
    BY <1>4, <2>4, <2>6 DEF Continue, TypedUpTo
  <2>10. PICK steps : steps = todo'[s]
    OBVIOUS
  <2>11. /\ TellsOnce(steps)
         /\ \A x, m : m \in Tells(steps, x) <=>
              (x = s /\ m = Joined(r, type, p, others)) \/ (x \in peers /\ m = PeerJoined(r, p))
    <3>1. PICK hello, news : hello = Joined(r, type, p, others) /\ news = PeerJoined(r, p)
      OBVIOUS
    <3>2. /\ hello \in MessagesUpTo(n) /\ news \in MessagesUpTo(n)
          /\ look = LookUp(r, p) \/ look = <<>>
          /\ steps = Send({s}, hello) \o look \o Send(peers, news)
      BY <1>4, <2>4, <2>8, <2>9, <2>10, <3>1
    <3>3. TellsBoth(steps, s, hello, peers, news)
      BY <2>7, <3>2, JoinTells
    <3>4. QED
      BY <3>1, <3>3 DEF TellsBoth
  <2>12. ToldOnce' /\ \A x, m : m \in Told(x)' <=> m \in Tells(steps, x)
    BY <2>10, <2>11, OneTells
  <2>13. ToldBoth(s, Joined(r, type, p, others), peers, PeerJoined(r, p))'
    BY <2>11, <2>12 DEF ToldBoth
  <2>14. others = {q \in FindMembersByRoom(db, r) \ {p} : Online(q)}
    BY <1>4, <2>4
  <2>15. QED
    BY <2>1, <2>2, <2>5, <2>6, <2>12, <2>13, <2>14, JoinKeepsPresence
<1>5. CASE /\ JoinReconnect(s, r, u, t) \/ JoinNew(s, r, u, t)
           /\ \E c \in clients' \ clients : \E others, look :
                /\ others = {q \in FindMembersByRoom(db, r) \ {c.peerId} : Online(q)}
                /\ look = LookUp(r, c.peerId) \/ look = <<>>
                /\ Continue(s, Send({s}, Joined(r, c.roomType, c.peerId, others)) \o look
                               \o Send(OnlinePeers(r, c.peerId), PeerJoined(r, c.peerId)))
  BY <1>4, <1>5
<1>6. \/ Continue(s, Send({s}, Error)) /\ (Refuse(s) \/ JoinRefused(s, r, u, t))
      \/ /\ JoinReconnect(s, r, u, t) \/ JoinNew(s, r, u, t)
         /\ \E c \in clients' \ clients : \E others, look :
              /\ others = {q \in FindMembersByRoom(db, r) \ {c.peerId} : Online(q)}
              /\ look = LookUp(r, c.peerId) \/ look = <<>>
              /\ Continue(s, Send({s}, Joined(r, c.roomType, c.peerId, others)) \o look
                             \o Send(OnlinePeers(r, c.peerId), PeerJoined(r, c.peerId)))
  BY <1>1 DEF HandleJoin, Refuse
<1>7. QED
  BY <1>3, <1>5, <1>6

(***************************************************************************)
(* A leave, granted or refused.                                             *)
(***************************************************************************)
LEMMA HandleLeaveKeepsPresence ==
  ASSUME NEW n, TypedUpTo(n), TypedUpTo(n)', RegistryInv, ClosedIsEmpty, PresenceInv,
         \A t \in Sessions : todo[t] = <<>>, NEW s \in Sessions,
         \A t \in Sessions : t # s => todo'[t] = <<>>,
         NEW req \in Asked(s), req.type = "leave", HandleLeave(s, req),
         UNCHANGED <<session, link, rooms, outbox>>,
         \A x \in Sessions : Asked(x)' \subseteq Asked(x)
  PROVE  PresenceInv'
<1>1. CASE Refuse(s)
  <2>1. \A y \in RoomIds : ~About(Error, y)
    BY DEF About, Error
  <2>2. UNCHANGED <<db, clients, nextPeerSeq>> /\ Continue(s, Send({s}, Error))
    BY <1>1 DEF Refuse, registryVars
  <2>3. QED
    BY <2>1, <2>2, AnswerKeepsPresence
<1>2. ASSUME NEW c \in clients, c.session = s, c.roomId = req.roomId, c.peerId = req.peerId,
             Leave(c), Continue(s, Send(OnlinePeers(c.roomId, c.peerId),
                                        PeerLeft(c.roomId, c.peerId)))
      PROVE  PresenceInv'
  <2>1. PICK peers, m : /\ peers = OnlinePeers(c.roomId, c.peerId)
                        /\ m = PeerLeft(c.roomId, c.peerId)
    OBVIOUS
  <2>2. PICK steps : steps = todo'[s]
    OBVIOUS
  <2>3. steps = Send(peers, m)
    BY <1>2, <2>1, <2>2 DEF Continue, TypedUpTo
  <2>4. /\ TellsOnce(steps)
        /\ \A x : Tells(steps, x) = IF x \in peers THEN {m} ELSE {}
    BY <2>3, SendTells
  <2>5. ToldOnce' /\ \A x, k : k \in Told(x)' <=> k \in Tells(steps, x)
    BY <2>2, <2>4, OneTells
  <2>6. PICK G : G = {c}
    OBVIOUS
  <2>7. /\ \A x, k : k \in Told(x)' => \E g \in G : k = PeerLeft(g.roomId, g.peerId)
        /\ \A g \in G : \A x \in OnlinePeers(g.roomId, g.peerId) :
             PeerLeft(g.roomId, g.peerId) \in Told(x)'
    <3>1. \A x, k : k \in Told(x)' <=> x \in peers /\ k = m
      BY <2>4, <2>5
    <3>2. QED
      BY <2>1, <2>6, <3>1
  <2>8. /\ G \in SUBSET clients /\ clients' = clients \ G /\ nextPeerSeq' = nextPeerSeq
        /\ DOMAIN db'.members = DOMAIN db.members \ {c.peerId}
    <3>1. DOMAIN WithoutMember(c).members = DOMAIN db.members \ {c.peerId}
      <4>1. IsDb(db)
        BY DEF RegistryInv, TypeOK
      <4>2. QED
        BY <4>1, LeaveMembers
    <3>2. QED
      BY <1>2, <2>6, <3>1 DEF Leave
  <2>9. \A x \in Sessions :
          IF session'[x] = "open" THEN session[x] = "open" /\ outbox'[x] = outbox[x]
          ELSE outbox'[x] = <<>>
    BY DEF ClosedIsEmpty
  <2>10. /\ ~JoinUnderWay(s, c.roomId)
         /\ \A v \in Usernames : link[v] = s => ~Knows(v, c.roomId) /\ v \in Leavers
    <3>1. LeaveIsLast(s, req) /\ InAs(s, req.roomId, req.peerId)
      BY <1>2 DEF PresenceInv, EntriesInv, LeavesAreLast, InAs
    <3>2. \A v \in Usernames : link[v] = s => v \in Leavers
      BY DEF PresenceInv, EntriesInv, OthersStay
    <3>3. QED
      BY <1>2, <3>1, <3>2 DEF LeaveIsLast
  <2>11. /\ \A g \in G : session'[g.session] = "open" =>
              /\ ~JoinUnderWay(g.session, g.roomId)
              /\ \A v \in Usernames : link[v] = g.session =>
                   ~Knows(v, g.roomId) /\ v \in Leavers
         /\ \A g \in G : g.peerId \notin DOMAIN db'.members \/ Asked(g.session)' = {}
    BY <1>2, <2>6, <2>8, <2>10
  <2>12. DOMAIN db'.members \subseteq DOMAIN db.members
    BY <2>8
  <2>13. QED
    BY <2>5, <2>7, <2>8, <2>9, <2>11, <2>12, GoneKeepsPresence
<1>3. QED
  BY <1>1, <1>2 DEF HandleLeave, Found, ClientsOf

\* The sequences that list a finite set list all of it, and nothing twice.
LEMMA ListsAll ==
  ASSUME NEW set, IsFiniteSet(set), NEW order \in SeqExt!SetToSeqs(set)
  PROVE  /\ \A i \in DOMAIN order : order[i] \in set
         /\ \A i, j \in DOMAIN order : order[i] = order[j] => i = j
         /\ \A e \in set : \E i \in DOMAIN order : order[i] = e
<1>1. PICK k \in Nat : k = Cardinality(set)
  BY FS_CardinalityType
<1>2. order \in [1..k -> set] /\ \A i, j \in 1..k : i # j => order[i] # order[j]
  BY <1>1 DEF SeqExt!SetToSeqs, SeqExt!Cardinality, Cardinality
<1>3. order \in Injection(1..k, set)
  BY <1>2 DEF Injection, IsInjective
<1>4. Cardinality(1..k) = k
  BY FS_Interval
<1>5. order \in Surjection(1..k, set)
  BY <1>1, <1>3, <1>4, FS_Injection
<1>6. QED
  BY <1>2, <1>5 DEF Surjection

(***************************************************************************)
(* When a session ends, those online in its rooms are told of it, each of    *)
(* them once for a room.                                                    *)
(***************************************************************************)
LEMMA FarewellsTell ==
  ASSUME RegistryInv, OneEntry, NEW s, NEW farewells \in Farewells(s)
  PROVE  /\ TellsOnce(farewells)
         /\ \A x, m : m \in Tells(farewells, x) <=>
              \E g \in ClientsOf(s) :
                x \in OnlinePeers(g.roomId, g.peerId) /\ m = PeerLeft(g.roomId, g.peerId)
<1> DEFINE told == {c \in ClientsOf(s) : OnlinePeers(c.roomId, c.peerId) # {}}
<1>1. PICK order \in SeqExt!SetToSeqs(told) :
        farewells = [i \in DOMAIN order |->
          [op  |-> "send",
           to  |-> OnlinePeers(order[i].roomId, order[i].peerId),
           msg |-> PeerLeft(order[i].roomId, order[i].peerId)]]
  BY DEF Farewells
<1>2. told \subseteq clients /\ IsFiniteSet(told)
  BY ClientsAreFinite, FS_Subset DEF ClientsOf
<1>3. \A c \in told : c.session = s
  BY DEF ClientsOf
<1>4. \A x, c : c \in ClientsOf(s) /\ x \in OnlinePeers(c.roomId, c.peerId) => c \in told
  OBVIOUS
<1>5. told \subseteq ClientsOf(s)
  OBVIOUS
<1> HIDE DEF told
<1>6. /\ \A i \in DOMAIN order : order[i] \in told
      /\ \A i, j \in DOMAIN order : order[i] = order[j] => i = j
      /\ \A e \in told : \E i \in DOMAIN order : order[i] = e
  BY <1>1, <1>2, ListsAll
<1>7. /\ DOMAIN farewells = DOMAIN order
      /\ \A i \in DOMAIN order :
           /\ farewells[i].op = "send"
           /\ farewells[i].to = OnlinePeers(order[i].roomId, order[i].peerId)
           /\ farewells[i].msg = PeerLeft(order[i].roomId, order[i].peerId)
  BY <1>1
<1>8. TellsOnce(farewells)
  <2>1. ASSUME NEW i \in DOMAIN farewells, NEW j \in DOMAIN farewells, NEW r \in RoomIds,
               About(farewells[i].msg, r), About(farewells[j].msg, r)
        PROVE  i = j
    <3>1. \A y, q, k : About(PeerLeft(y, q), k) => y = k
      BY DEF About, PeerLeft
    <3>2. /\ farewells[i].msg = PeerLeft(order[i].roomId, order[i].peerId)
          /\ farewells[j].msg = PeerLeft(order[j].roomId, order[j].peerId)
      BY <1>7, <2>1
    <3>3. About(PeerLeft(order[i].roomId, order[i].peerId), r)
      BY <2>1, <3>2
    <3>4. About(PeerLeft(order[j].roomId, order[j].peerId), r)
      BY <2>1, <3>2
    <3>5. order[i].roomId = r /\ order[j].roomId = r
      BY <3>1, <3>3, <3>4
    <3>6. order[i] = order[j]
      BY <1>2, <1>3, <1>6, <1>7, <2>1, <3>5 DEF OneEntry
    <3>7. QED
      BY <1>6, <1>7, <2>1, <3>6
  <2>2. QED
    BY <1>7, <2>1 DEF TellsOnce
<1>9. ASSUME NEW x, NEW m
      PROVE  m \in Tells(farewells, x) <=>
               \E g \in ClientsOf(s) :
                 x \in OnlinePeers(g.roomId, g.peerId) /\ m = PeerLeft(g.roomId, g.peerId)
  <2>1. ASSUME m \in Tells(farewells, x)
        PROVE  \E g \in ClientsOf(s) :
                 x \in OnlinePeers(g.roomId, g.peerId) /\ m = PeerLeft(g.roomId, g.peerId)
    <3>1. PICK i \in DOMAIN farewells :
            farewells[i].op = "send" /\ x \in farewells[i].to /\ farewells[i].msg = m
      BY <2>1, TellsMean
    <3>2. order[i] \in ClientsOf(s)
      BY <1>5, <1>6, <1>7, <3>1
    <3>3. QED
      BY <1>7, <3>1, <3>2
  <2>2. ASSUME NEW g \in ClientsOf(s), x \in OnlinePeers(g.roomId, g.peerId),
               m = PeerLeft(g.roomId, g.peerId)
        PROVE  m \in Tells(farewells, x)
    <3>1. g \in told
      BY <1>4, <2>2
    <3>2. PICK i \in DOMAIN order : order[i] = g
      BY <1>6, <3>1
    <3>3. /\ i \in DOMAIN farewells /\ farewells[i].op = "send"
          /\ x \in farewells[i].to /\ farewells[i].msg = m
      BY <1>7, <2>2, <3>2
    <3>4. QED
      BY <3>3, TellsMean
  <2>3. QED
    BY <2>1, <2>2
<1>10. QED
  BY <1>8, <1>9

(***************************************************************************)
(* The end of a session.                                                    *)
(***************************************************************************)
LEMMA ExpireKeepsPresence ==
  ASSUME Workers = 1, NEW n, TypedUpTo(n), TypedUpTo(n)', RegistryInv, OneThread, OneEntry,
         ClosedIsEmpty, PresenceInv, NEW s \in Sessions, Expire(s)
  PROVE  PresenceInv'
<1>1. /\ Idle /\ UNCHANGED <<db, nextPeerSeq, link, rooms>>
      /\ clients' = clients \ ClientsOf(s)
      /\ session' = [session EXCEPT ![s] = "absent"]
      /\ requests' = [requests EXCEPT ![s] = <<>>]
      /\ outbox' = [outbox EXCEPT ![s] = <<>>]
  BY DEF Expire, Cleanup, Runs, Close, Disconnect, clientVars
<1>2. PICK farewells \in Farewells(s) : Continue(s, farewells)
  BY DEF Expire, Cleanup
<1>3. \A t \in Sessions : todo[t] = <<>>
  BY <1>1, IdleMeansDone
<1>4. todo'[s] = farewells /\ \A t \in Sessions : t # s => todo'[t] = <<>>
  BY <1>2, <1>3, OneBegins
<1>5. PICK G : G = ClientsOf(s)
  OBVIOUS
<1>6. /\ TellsOnce(farewells)
      /\ \A x, m : m \in Tells(farewells, x) <=>
           \E g \in G :
             x \in OnlinePeers(g.roomId, g.peerId) /\ m = PeerLeft(g.roomId, g.peerId)
  BY <1>5, FarewellsTell
<1>7. ToldOnce' /\ \A x, m : m \in Told(x)' <=> m \in Tells(farewells, x)
  BY <1>4, <1>6, OneTells
<1>8. /\ \A x, m : m \in Told(x)' => \E g \in G : m = PeerLeft(g.roomId, g.peerId)
      /\ \A g \in G : \A x \in OnlinePeers(g.roomId, g.peerId) :
           PeerLeft(g.roomId, g.peerId) \in Told(x)'
  BY <1>6, <1>7
<1>9. G \in SUBSET clients /\ clients' = clients \ G /\ \A g \in G : g.session = s
  BY <1>1, <1>5 DEF ClientsOf
<1>10. /\ session'[s] = "absent" /\ outbox'[s] = <<>> /\ requests'[s] = <<>>
       /\ \A t \in Sessions : t # s => /\ session'[t] = session[t]
                                       /\ requests'[t] = requests[t] /\ outbox'[t] = outbox[t]
  BY <1>1 DEF TypedUpTo, RegistryInv, TypeOK
<1>11. \A x \in Sessions :
         IF session'[x] = "open" THEN session[x] = "open" /\ outbox'[x] = outbox[x]
         ELSE outbox'[x] = <<>>
  BY <1>10 DEF ClosedIsEmpty
<1>12. Asked(s)' = {} /\ \A x \in Sessions : Asked(x)' \subseteq Asked(x)
  <2>1. Asked(s)' = {}
    BY <1>10 DEF Asked
  <2>2. \A x \in Sessions : x # s => Asked(x)' = Asked(x)
    BY <1>10 DEF Asked
  <2>3. QED
    BY <2>1, <2>2
<1>13. /\ \A g \in G : session'[g.session] # "open"
       /\ \A g \in G : Asked(g.session)' = {}
  BY <1>9, <1>10, <1>12
<1>14. DOMAIN db'.members \subseteq DOMAIN db.members
  BY <1>1
<1>15. QED
  BY <1>1, <1>3, <1>7, <1>8, <1>9, <1>11, <1>12, <1>13, <1>14, GoneKeepsPresence

\* All steps of a list have the message m.
Repeats(steps, m) == \A i \in DOMAIN steps : steps[i].msg = m

\* The same message for two groups of sessions.
LEMMA SameTwice ==
  ASSUME NEW m, NEW to, NEW peers,
         NEW all, all = Send(to, m) \o Send(peers, m)
  PROVE  Repeats(all, m)
<1>1. PICK a, b : a = Send(to, m) /\ b = Send(peers, m)
  OBVIOUS
<1>2. /\ \A i \in DOMAIN a : a[i].msg = m
      /\ \A i \in DOMAIN b : b[i].msg = m
  BY <1>1, SendTells
<1>3. PICK A : a \in Seq(A)
  <2> DEFINE st == [op |-> "send", to |-> to, msg |-> m]
  <2>1. a = <<>> \/ a = <<st>>
    BY <1>1 DEF Send
  <2> HIDE DEF st
  <2>2. <<>> \in Seq({st}) /\ <<st>> \in Seq({st})
    OBVIOUS
  <2>3. QED
    BY <2>1, <2>2
<1>4. PICK B : b \in Seq(B)
  <2> DEFINE st == [op |-> "send", to |-> peers, msg |-> m]
  <2>1. b = <<>> \/ b = <<st>>
    BY <1>1 DEF Send
  <2> HIDE DEF st
  <2>2. <<>> \in Seq({st}) /\ <<st>> \in Seq({st})
    OBVIOUS
  <2>3. QED
    BY <2>1, <2>2
<1>5. ASSUME NEW i \in DOMAIN (a \o b)
      PROVE  \/ i \in DOMAIN a /\ (a \o b)[i] = a[i]
             \/ i - Len(a) \in DOMAIN b /\ (a \o b)[i] = b[i - Len(a)]
  BY <1>3, <1>4
<1>6. QED
  BY <1>1, <1>2, <1>5 DEF Repeats

\* A message that is posted goes on to all who are online; a request to
\* acknowledge messages lets nobody in or out.
LEMMA MembersStay ==
  ASSUME NEW n, TypedUpTo(n), RegistryInv, NEW s \in Sessions, NEW req \in Asked(s)
  PROVE  /\ \A c \in clients : Broadcast(c) => DOMAIN db'.members = DOMAIN db.members
         /\ req.type = "ack" => \A c \in clients :
              Acknowledge(c, req.upToSeq) => DOMAIN db'.members = DOMAIN db.members
<1>1. IsDb(db) /\ db.nextSeq \in Nat
  BY DEF RegistryInv, TypeOK, IsDb
<1>2. ASSUME NEW c \in clients, Broadcast(c)
      PROVE  DOMAIN db'.members = DOMAIN db.members
  BY <1>1, <1>2 DEF Broadcast, SaveGroupMessage
<1>3. ASSUME req.type = "ack", NEW c \in clients, Acknowledge(c, req.upToSeq)
      PROVE  DOMAIN db'.members = DOMAIN db.members
  <2>1. PICK k \in Int : k = req.upToSeq
    BY <1>3, AskedAreRequests DEF RequestsUpTo
  <2>2. /\ IsDb(UpdateLastAckedSeq(db, c.peerId, k))
        /\ DOMAIN UpdateLastAckedSeq(db, c.peerId, k).members = DOMAIN db.members
    BY <1>1, UpdateLastAckedSeqDb
  <2>3. QED
    BY <1>3, <2>1, <2>2, RemoveMessagesDb DEF Acknowledge, CleanupMessages
<1>4. QED
  BY <1>2, <1>3

(***************************************************************************)
(* A request is read when nothing else is left to do.                       *)
(***************************************************************************)
LEMMA ReadKeepsPresence ==
  ASSUME Workers = 1, NEW n \in Nat, TypedUpTo(n), TypedUpTo(n)', RegistryInv, RegistryInv',
         OneThread, ClosedIsEmpty, PresenceInv, NEW s \in Sessions, OnRead(s),
         UNCHANGED <<link, rooms>>
  PROVE  PresenceInv'
<1>1. Idle /\ session[s] = "open" /\ requests[s] # <<>> /\ UNCHANGED <<session, outbox>>
  BY DEF OnRead, Runs
<1>2. \A t \in Sessions : todo[t] = <<>>
  BY <1>1, IdleMeansDone
<1>3. PICK req : /\ req = Head(requests[s])
                 /\ \/ req.type = "join" /\ HandleJoin(s, req)
                    \/ req.type = "leave" /\ HandleLeave(s, req)
                    \/ req.type = "group-message" /\ HandleGroupMessage(s, req)
                    \/ req.type = "ack" /\ HandleAck(s, req)
  BY DEF OnRead
<1>4. PICK steps : Continue(s, steps)
  BY <1>3, Zenon DEF HandleJoin, HandleLeave, HandleGroupMessage, HandleAck, Refuse
<1>5. todo'[s] = steps /\ \A t \in Sessions : t # s => todo'[t] = <<>>
  BY <1>2, <1>4, OneBegins
<1>6. \A x \in Sessions : Asked(x)' \subseteq Asked(x)
  BY AskedShrinks
<1>7. req \in Asked(s) /\ req \in RequestsUpTo(n)
  <2>1. 1 \in DOMAIN requests[s] /\ requests[s][1] = req
    BY <1>1, <1>3 DEF TypedUpTo
  <2>2. req \in Asked(s)
    BY <2>1 DEF Asked
  <2>3. QED
    BY <2>2, AskedAreRequests
<1>8. CASE req.type = "join" /\ HandleJoin(s, req)
  BY <1>1, <1>2, <1>5, <1>6, <1>7, <1>8, HandleJoinKeepsPresence
<1>9. CASE req.type = "leave" /\ HandleLeave(s, req)
  BY <1>1, <1>2, <1>5, <1>6, <1>7, <1>9, HandleLeaveKeepsPresence
<1>10. ASSUME NEW to, NEW m, \A r \in RoomIds : ~About(m, r), Continue(s, Send(to, m)),
              UNCHANGED <<clients, nextPeerSeq>>, DOMAIN db'.members = DOMAIN db.members
       PROVE  PresenceInv'
  BY <1>1, <1>2, <1>5, <1>6, <1>10, AnswerKeepsPresence
<1>11. CASE Refuse(s)
  <2>1. \A r \in RoomIds : ~About(Error, r)
    BY DEF About, Error
  <2>2. UNCHANGED <<db, clients, nextPeerSeq>> /\ Continue(s, Send({s}, Error))
    BY <1>11 DEF Refuse, registryVars
  <2>3. QED
    BY <1>10, <2>1, <2>2
<1>12. CASE req.type = "ack" /\ HandleAck(s, req)
  <2>1. ASSUME NEW c \in clients, Acknowledge(c, req.upToSeq),
               Continue(s, Send({s}, AckConfirm(req.roomId, req.upToSeq)))
        PROVE  PresenceInv'
    <3>1. \A r \in RoomIds : ~About(AckConfirm(req.roomId, req.upToSeq), r)
      BY DEF About, AckConfirm
    <3>2. UNCHANGED <<clients, nextPeerSeq>>
      BY <2>1 DEF Acknowledge
    <3>3. DOMAIN db'.members = DOMAIN db.members
      BY <1>7, <1>12, <2>1, MembersStay
    <3>4. QED
      BY <1>10, <2>1, <3>1, <3>2, <3>3
  <2>2. QED
    BY <1>11, <1>12, <2>1 DEF HandleAck, Found, ClientsOf
<1>13. CASE req.type = "group-message" /\ HandleGroupMessage(s, req)
  <2>1. ASSUME NEW c \in clients, Broadcast(c), NEW m, NEW peers,
               m = GroupMessage(c.roomId, c.peerId, db'.nextSeq),
               Continue(s, Send({s}, m) \o Send(peers, m))
        PROVE  PresenceInv'
    <3>1. \A r \in RoomIds : ~About(m, r)
      BY <2>1 DEF About, GroupMessage
    <3>2. UNCHANGED <<clients, nextPeerSeq>>
      BY <2>1 DEF Broadcast
    <3>3. DOMAIN db'.members = DOMAIN db.members
      BY <1>7, <2>1, MembersStay
    <3>4. PICK all : all = todo'[s]
      OBVIOUS
    <3>5. \A i \in DOMAIN todo'[s] : todo'[s][i].msg = m
      <4>1. all = Send({s}, m) \o Send(peers, m)
        BY <2>1, <3>4 DEF Continue, TypedUpTo
      <4>2. PICK k : k = m
        OBVIOUS
      <4>3. all = Send({s}, k) \o Send(peers, k)
        BY <4>1, <4>2
      <4>4. Repeats(all, k)
        BY <4>3, SameTwice
      <4>5. QED
        BY <3>4, <4>2, <4>4 DEF Repeats
    <3>6. \A i \in DOMAIN todo'[s], r \in RoomIds :
            todo'[s][i].op = "send" => ~About(todo'[s][i].msg, r)
      BY <3>1, <3>5
    <3>7. QED
      BY <1>1, <1>2, <1>5, <1>6, <3>2, <3>3, <3>6, RepliesKeepPresence
  <2>2. CASE \E c \in clients : \E m, peers :
               /\ Broadcast(c)
               /\ m = GroupMessage(c.roomId, c.peerId, db'.nextSeq)
               /\ Continue(s, Send({s}, m) \o Send(peers, m))
    BY <2>1, <2>2
  <2>3. QED
    BY <1>11, <1>13, <2>2 DEF HandleGroupMessage, Found, ClientsOf
<1>14. QED
  BY <1>3, <1>8, <1>9, <1>12, <1>13

-----------------------------------------------------------------------------
(* The theorems.                                                           *)

(***************************************************************************)
(* Nobody is connected at the start.                                        *)
(***************************************************************************)
LEMMA InitPresenceInv == ChatInit => PresenceInv
<1> SUFFICES ASSUME ChatInit PROVE PresenceInv
  OBVIOUS
<1>1. \A s \in Sessions : todo[s] = <<>> /\ outbox[s] = <<>> /\ requests[s] = <<>>
  BY DEF ChatInit, HandlerInit
<1>2. /\ \A u \in Usernames : link[u] = NoLink /\ rooms[u] = EmptyTable
      /\ NoLink \notin Sessions
  BY GroupChatAssumption DEF ChatInit
<1>3. DOMAIN <<>> = {} /\ DOMAIN EmptyTable = {}
  BY DEF EmptyTable
<1>4. \A x : Told(x) = {}
  BY <1>1, NothingTold
<1>5. \A x \in Sessions : Asked(x) = {}
  BY <1>1, <1>3 DEF Asked
<1>6. ToldOnce
  <2>1. TellsOnce(<<>>)
    BY DEF TellsOnce
  <2>2. QED
    BY <1>1, <2>1 DEF ToldOnce
<1>7. JoinsAreEntries
  <2>1. StartsOnce(<<>>)
    BY <1>3 DEF StartsOnce
  <2>2. QED
    BY <1>1, <1>3, <1>4, <2>1 DEF JoinsAreEntries
<1>8. \A u \in Usernames, x \in Sessions : ~Attached(u, x)
  BY <1>2 DEF Attached
<1>9. KnownAreEntries /\ NobodyMissed /\ NoGhostsToCome
  BY <1>8 DEF KnownAreEntries, NobodyMissed, NoGhostsToCome
<1>10. LeavesAreLast /\ OthersStay
  BY <1>5 DEF LeavesAreLast, OthersStay
<1>11. LostIsFresh
  BY <1>2, <1>3 DEF LostIsFresh
<1>12. QED
  BY <1>6, <1>7, <1>9, <1>10, <1>11 DEF PresenceInv, EntriesInv

(***************************************************************************)
(* PresenceInv is inductive with the order of what is sent.                 *)
(***************************************************************************)
LEMMA NextPresenceInv ==
  ASSUME Workers = 1, ChatInv, ChatInv', OrderInv, PresenceInv, [ChatNext]_chatVars
  PROVE  PresenceInv'
<1>1. [Next]_vars
  BY ChatStepsAreRegistrySteps DEF ChatInv
<1>2. PICK n \in Nat : n = db.nextSeq
  BY <1>1, NumbersOnlyGrow DEF ChatInv
<1>3. PICK k \in Nat : k = db'.nextSeq /\ n <= k
  BY <1>1, <1>2, NumbersOnlyGrow DEF ChatInv
<1>4. RegistryInv /\ RegistryInv' /\ TypedUpTo(n)
  BY <1>2, ChatTypesMean DEF ChatInv
<1>5. TypedUpTo(k)
  BY <1>2, <1>3, <1>4, TypesGrow
<1>6. TypedUpTo(k)'
  BY <1>3 DEF ChatInv, ChatTypeOK, HandlerTypeOK, TypedUpTo, SentSeqs
<1>7. OneThread /\ LinksApart /\ ClosedIsEmpty /\ OneEntry
  BY DEF OrderInv
<1>8. CASE UNCHANGED chatVars
  <2>1. UNCHANGED <<clients, session, nextPeerSeq, db, link, rooms, outbox, requests, todo>>
    BY <1>8 DEF chatVars, handlerVars, vars, clientVars
  <2>2. /\ \A x, m : m \in Told(x)' <=> m \in Told(x)
        /\ \A x \in Sessions : Asked(x)' \subseteq Asked(x)
    BY <2>1 DEF Told, Asked
  <2>3. ToldOnce'
    BY <2>1 DEF PresenceInv, ToldOnce
  <2>4. DOMAIN db'.members = DOMAIN db.members
    BY <2>1
  <2>5. QED
    BY <1>5, <1>6, <2>1, <2>2, <2>3, <2>4, NewsKeepPresence
<1>9. ASSUME NEW u \in Usernames, NEW r \in RoomIds,
             JoinChat(u, r) \/ LeaveChat(u, r) \/ Post(u, r)
      PROVE  PresenceInv'
  BY <1>4, <1>5, <1>6, <1>7, <1>9, JoinChatKeepsPresence, LeaveChatKeepsPresence,
     PostKeepsPresence
<1>10. ASSUME NEW u \in Usernames, NEW s \in Sessions, OnConnected(u, s)
       PROVE  PresenceInv'
  BY <1>4, <1>5, <1>6, <1>7, <1>10, ConnectKeepsPresence
<1>11. ASSUME NEW u \in Usernames, OnDisconnected(u) \/ OnMessage(u)
       PROVE  PresenceInv'
  BY <1>5, <1>6, <1>7, <1>11, DisconnectedKeepsPresence, OnMessageKeepsPresence
<1>12. ASSUME NEW s \in Sessions, Handler(s)
       PROVE  PresenceInv'
  <2>1. UNCHANGED <<link, rooms>>
    BY <1>12 DEF Handler, clientVars
  <2>2. CASE OnRead(s)
    BY <1>4, <1>5, <1>6, <1>7, <2>1, <2>2, ReadKeepsPresence
  <2>3. CASE SendText(s)
    BY <1>5, <1>6, <1>7, <2>1, <2>3, SendTextKeepsPresence
  <2>4. CASE SendPending(s)
    <3>1. k = db.nextSeq
      BY <1>3, <2>4 DEF SendPending, vars
    <3>2. QED
      BY <1>4, <1>5, <1>6, <1>7, <2>1, <2>4, <3>1, SendPendingKeepsPresence
  <2>5. QED
    BY <1>12, <2>2, <2>3, <2>4 DEF Handler
<1>13. ASSUME NEW s \in Sessions, Expire(s)
       PROVE  PresenceInv'
  BY <1>4, <1>5, <1>6, <1>7, <1>13, ExpireKeepsPresence
<1>14. QED
  BY <1>8, <1>9, <1>10, <1>11, <1>12, <1>13 DEF ChatNext

(***************************************************************************)
(* What the invariant says of a client when all is quiet.                   *)
(***************************************************************************)
LEMMA QuietMeans ==
  ASSUME ChatInv, OneEntry, PresenceInv,
         NEW u \in Usernames, Quiet(u), NEW r \in DOMAIN rooms[u],
         rooms[u][r].myPeerId # NoPeer
  PROVE  /\ OnlineOthers(r, rooms[u][r].myPeerId) \subseteq rooms[u][r].participants
         /\ u \notin Leavers =>
              rooms[u][r].participants \subseteq OnlineOthers(r, rooms[u][r].myPeerId)
<1>1. PICK n \in Nat : n = db.nextSeq
  BY DEF ChatInv, RegistryInv, TypeOK, IsDb
<1>2. TypedUpTo(n) /\ RegistryInv
  BY <1>1, ChatTypesMean DEF ChatInv
<1>3. PICK x \in Sessions : link[u] = x
  BY <1>2 DEF Quiet, TypedUpTo
<1>4. Attached(u, x) /\ outbox[x] = <<>> /\ \A s \in Sessions : todo[s] = <<>>
  BY <1>3 DEF Quiet, Attached
<1>5. PICK me, seen : me = rooms[u][r].myPeerId /\ seen = rooms[u][r].participants
  OBVIOUS
<1>6. r \in RoomIds /\ seen \in SUBSET PeerIds /\ Knows(u, r) /\ Seen(u, r) = seen
  BY <1>2, <1>5 DEF TypedUpTo, IsTable, RoomStates, Knows, Seen
<1>7. PICK c \in clients : c.session = x /\ c.roomId = r /\ c.peerId = me
  BY <1>3, <1>4, <1>5, <1>6 DEF PresenceInv, EntriesInv, KnownAreEntries, InAs
<1>8. ~JoinUnderWay(x, r)
  BY <1>3, <1>4, <1>6 DEF PresenceInv, EntriesInv, KnownAreEntries
<1>9. \A q : q \in OnlineOthers(r, me) <=>
               q # me /\ \E d \in clients : d.roomId = r /\ d.peerId = q
  <2>1. \A q : q \in FindMembersByRoom(db, r) /\ Online(q) <=>
               \E d \in clients : d.roomId = r /\ d.peerId = q
    BY <1>2, OnlineIsEntered
  <2>2. QED
    BY <2>1 DEF OnlineOthers
<1>10. \A q : q \in OnlineOthers(r, me) <=> Meets(x, r, q)
  <2>1. \A d \in clients : d.session = x /\ d.roomId = r => d = c
    BY <1>7 DEF OneEntry
  <2>2. QED
    BY <1>7, <1>9, <2>1 DEF Meets
<1>11. \A q : ~ToldAdds(x, r, q) /\ ~ToldDrops(x, r, q)
  BY <1>4, NothingTold DEF ToldAdds, ToldDrops
<1>12. \A q : After(outbox[x], r, q, seen) <=> q \in seen
  <2>1. DOMAIN outbox[x] = {}
    BY <1>4
  <2>2. QED
    BY <2>1 DEF After, Stays
<1>13. ASSUME NEW q \in OnlineOthers(r, me)
       PROVE  q \in seen
  <2>1. q \in PeerIds
    BY <1>2, <1>9, <1>13 DEF RegistryInv, TypeOK, RamTypeOK, ClientInfo
  <2>2. WillKnow(u, x, r, q)
    BY <1>4, <1>6, <1>10, <1>13, <2>1 DEF PresenceInv, NobodyMissed
  <2>3. QED
    BY <1>6, <1>8, <1>11, <1>12, <2>2 DEF WillKnow, JoinUnderWay
<1>14. ASSUME u \notin Leavers, NEW q \in seen
       PROVE  q \in OnlineOthers(r, me)
  <2>1. WillSee(u, x, r, q) /\ q \in PeerIds
    BY <1>6, <1>11, <1>12, <1>14 DEF WillSee
  <2>2. Meets(x, r, q)
    BY <1>4, <1>6, <1>14, <2>1 DEF PresenceInv, NoGhostsToCome
  <2>3. QED
    BY <1>10, <2>2
<1>15. QED
  BY <1>5, <1>13, <1>14

\* The invariant, inductive with one worker thread.
LEMMA PresenceHolds ==
  ASSUME Workers = 1
  PROVE  ChatSpec => [](ChatInv /\ OrderInv /\ PresenceInv)
<1>1. ChatInv /\ OrderInv /\ PresenceInv /\ [ChatNext]_chatVars
        => (ChatInv /\ OrderInv /\ PresenceInv)'
  BY NextChatInv, NextOrderInv, NextPresenceInv
<1>2. QED
  BY <1>1, InitChatInv, InitOrderInv, InitPresenceInv, PTL DEF ChatSpec

(***************************************************************************)
(* With one worker thread no client misses anybody: when nothing is on its   *)
(* way to or from it, it shows everybody who is online in its rooms, however *)
(* many came, went, lost their connections and came back before.            *)
(***************************************************************************)
THEOREM NobodyMissingWithOneThread ==
  ASSUME Workers = 1
  PROVE  ChatSpec => []NobodyMissing
<1>1. ChatInv /\ OrderInv /\ PresenceInv => NobodyMissing
  BY QuietMeans DEF NobodyMissing, OrderInv
<1>2. QED
  BY <1>1, PresenceHolds, PTL

(***************************************************************************)
(* Nor does a client that leaves no chat show anybody who is gone.          *)
(***************************************************************************)
THEOREM NoGhostsWithOneThread ==
  ASSUME Workers = 1
  PROVE  ChatSpec => []NoGhosts
<1>1. ChatInv /\ OrderInv /\ PresenceInv => NoGhosts
  BY QuietMeans DEF NoGhosts, OrderInv
<1>2. QED
  BY <1>1, PresenceHolds, PTL
=============================================================================

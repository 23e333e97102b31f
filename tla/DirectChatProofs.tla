---------------------------- MODULE DirectChatProofs ----------------------------
(***************************************************************************)
(* Proofs about DirectChat: types, the cap of the queue, and that messages   *)
(* are shown in the order they were sent in and only once, whatever is lost. *)
(***************************************************************************)
EXTENDS DirectChat, FiniteSetTheorems, TLAPS

-----------------------------------------------------------------------------
(* Two clients.                                                            *)

(***************************************************************************)
(* Each of the two is the other of its other.                              *)
(***************************************************************************)
LEMMA TwoPeers ==
  ASSUME NEW c \in Peers
  PROVE  /\ Other(c) \in Peers /\ Other(c) # c /\ Other(Other(c)) = c
         /\ Peers = {c, Other(c)}
<1>1. Cardinality(Peers) = 2 /\ IsFiniteSet(Peers)
  BY DirectChatAssumption
<1>2. IsFiniteSet(Peers \ {c}) /\ Cardinality(Peers \ {c}) = 1
  BY <1>1, FS_RemoveElement
<1>3. PICK d : Peers \ {c} = {d}
  BY <1>2, FS_Singleton
<1>4. Peers = {c, d} /\ d # c
  BY <1>3
<1>5. Other(c) = d /\ Other(d) = c
  BY <1>4 DEF Other
<1>6. QED
  BY <1>4, <1>5

-----------------------------------------------------------------------------
(* The way of a message: it is queued, on the wire, in an event, and shown.  *)
(* Ordered says of the four sequences on the way to one client that they     *)
(* are in order, one after the other; n is the number of messages sent.     *)

Event ==
  [type: {"offer", "incoming"}, pc: Nat]
    \cup [type: {"answer"}, pc: Nat, to: Nat]
    \cup [type: {"opened"}]
    \cup [type: {"message"}, text: Nat]

Increasing(s) == \A i, j \in DOMAIN s : i < j => s[i] < s[j]

EventsIncreasing(e) ==
  \A i, j \in DOMAIN e :
    i < j /\ e[i].type = "message" /\ e[j].type = "message"
      => e[i].text < e[j].text

TextsIn(s) == {s[i] : i \in DOMAIN s}

Posted(e) == {e[i].text : i \in {j \in DOMAIN e : e[j].type = "message"}}

Before(A, B) == \A x \in A, y \in B : x < y

Typed(g, e, w, p, n) ==
  g \in Seq(Nat) /\ e \in Seq(Event) /\ w \in Seq(Nat) /\ p \in Seq(Nat) /\ n \in Nat

Ordered(g, e, w, p, n) ==
  /\ Typed(g, e, w, p, n)
  /\ Increasing(g) /\ EventsIncreasing(e) /\ Increasing(w) /\ Increasing(p)
  /\ Before(TextsIn(g), Posted(e) \cup TextsIn(w) \cup TextsIn(p) \cup {n + 1})
  /\ Before(Posted(e), TextsIn(w) \cup TextsIn(p) \cup {n + 1})
  /\ Before(TextsIn(w), TextsIn(p) \cup {n + 1})
  /\ Before(TextsIn(p), {n + 1})

(***************************************************************************)
(* A sequence and its texts, when one is added at its end.                 *)
(***************************************************************************)
LEMMA AppendText ==
  ASSUME NEW s \in Seq(Nat), Increasing(s), NEW x \in Nat,
         Before(TextsIn(s), {x})
  PROVE  /\ Append(s, x) \in Seq(Nat)
         /\ Increasing(Append(s, x))
         /\ TextsIn(Append(s, x)) = TextsIn(s) \cup {x}
<1>1. /\ Append(s, x) \in Seq(Nat)
      /\ DOMAIN Append(s, x) = DOMAIN s \cup {Len(s) + 1}
      /\ \A i \in DOMAIN s : Append(s, x)[i] = s[i]
      /\ Append(s, x)[Len(s) + 1] = x
      /\ DOMAIN s = 1..Len(s) /\ Len(s) \in Nat
  OBVIOUS
<1>2. Increasing(Append(s, x))
  BY <1>1 DEF Increasing, Before, TextsIn
<1>3. TextsIn(Append(s, x)) = TextsIn(s) \cup {x}
  BY <1>1 DEF TextsIn
<1>4. QED
  BY <1>1, <1>2, <1>3

(***************************************************************************)
(* The same when the first is taken off: it comes before the others.       *)
(***************************************************************************)
LEMMA TailTexts ==
  ASSUME NEW s \in Seq(Nat), Increasing(s), s # <<>>
  PROVE  /\ Head(s) \in TextsIn(s) /\ Head(s) \in Nat
         /\ Tail(s) \in Seq(Nat)
         /\ Increasing(Tail(s))
         /\ TextsIn(Tail(s)) \subseteq TextsIn(s)
         /\ Before({Head(s)}, TextsIn(Tail(s)))
<1>1. /\ Tail(s) \in Seq(Nat)
      /\ Head(s) = s[1] /\ 1 \in DOMAIN s /\ s[1] \in Nat
      /\ DOMAIN Tail(s) \subseteq Nat \ {0}
      /\ \A i \in DOMAIN Tail(s) :
           i + 1 \in DOMAIN s /\ Tail(s)[i] = s[i + 1]
  OBVIOUS
<1>2. Increasing(Tail(s))
  BY <1>1 DEF Increasing
<1>3. TextsIn(Tail(s)) \subseteq TextsIn(s)
  BY <1>1 DEF TextsIn
<1>4. Before({Head(s)}, TextsIn(Tail(s)))
  BY <1>1 DEF Increasing, Before, TextsIn
<1>5. QED
  BY <1>1, <1>2, <1>3, <1>4 DEF TextsIn

(***************************************************************************)
(* One sequence after another.                                             *)
(***************************************************************************)
LEMMA ConcatTexts ==
  ASSUME NEW s \in Seq(Nat), NEW t \in Seq(Nat), Increasing(s), Increasing(t),
         Before(TextsIn(s), TextsIn(t))
  PROVE  /\ s \o t \in Seq(Nat)
         /\ Increasing(s \o t)
         /\ TextsIn(s \o t) = TextsIn(s) \cup TextsIn(t)
<1>1. /\ s \o t \in Seq(Nat)
      /\ Len(s) \in Nat /\ Len(t) \in Nat
      /\ DOMAIN s = 1..Len(s) /\ DOMAIN t = 1..Len(t)
      /\ DOMAIN (s \o t) = 1..(Len(s) + Len(t))
      /\ \A i \in DOMAIN (s \o t) :
           (s \o t)[i] = IF i <= Len(s) THEN s[i] ELSE t[i - Len(s)]
  OBVIOUS
<1>2. \A i \in DOMAIN (s \o t) :
        \/ i <= Len(s) /\ i \in DOMAIN s /\ (s \o t)[i] = s[i]
        \/ i > Len(s) /\ i - Len(s) \in DOMAIN t /\ (s \o t)[i] = t[i - Len(s)]
  BY <1>1
<1>3. Increasing(s \o t)
  <2> SUFFICES ASSUME NEW i \in DOMAIN (s \o t), NEW j \in DOMAIN (s \o t), i < j
               PROVE  (s \o t)[i] < (s \o t)[j]
    BY DEF Increasing
  <2>1. CASE j <= Len(s)
    BY <1>1, <1>2, <2>1 DEF Increasing
  <2>2. CASE i > Len(s)
    BY <1>1, <1>2, <2>2 DEF Increasing
  <2>3. CASE i <= Len(s) /\ j > Len(s)
    BY <1>1, <1>2, <2>3 DEF Before, TextsIn
  <2>4. QED
    BY <1>1, <2>1, <2>2, <2>3
<1>4. \A i \in DOMAIN s : i \in DOMAIN (s \o t) /\ (s \o t)[i] = s[i]
  BY <1>1
<1>5. \A i \in DOMAIN t :
        i + Len(s) \in DOMAIN (s \o t) /\ (s \o t)[i + Len(s)] = t[i]
  BY <1>1
<1>6. TextsIn(s \o t) = TextsIn(s) \cup TextsIn(t)
  <2>1. TextsIn(s \o t) \subseteq TextsIn(s) \cup TextsIn(t)
    BY <1>2 DEF TextsIn
  <2>2. TextsIn(s) \subseteq TextsIn(s \o t)
    BY <1>4 DEF TextsIn
  <2>3. TextsIn(t) \subseteq TextsIn(s \o t)
    BY <1>5 DEF TextsIn
  <2>4. QED
    BY <2>1, <2>2, <2>3
<1>7. QED
  BY <1>1, <1>3, <1>6

(***************************************************************************)
(* An event is posted.                                                     *)
(***************************************************************************)
LEMMA AppendEvent ==
  ASSUME NEW e \in Seq(Event), EventsIncreasing(e), NEW x \in Event,
         x.type = "message" => Before(Posted(e), {x.text})
  PROVE  /\ Append(e, x) \in Seq(Event)
         /\ EventsIncreasing(Append(e, x))
         /\ Posted(Append(e, x)) =
              Posted(e) \cup (IF x.type = "message" THEN {x.text} ELSE {})
<1>1. /\ Append(e, x) \in Seq(Event)
      /\ DOMAIN Append(e, x) = DOMAIN e \cup {Len(e) + 1}
      /\ \A i \in DOMAIN e : Append(e, x)[i] = e[i]
      /\ Append(e, x)[Len(e) + 1] = x
      /\ DOMAIN e = 1..Len(e) /\ Len(e) \in Nat
  OBVIOUS
<1>2. EventsIncreasing(Append(e, x))
  BY <1>1 DEF EventsIncreasing, Before, Posted
<1>3. Posted(Append(e, x)) =
        Posted(e) \cup (IF x.type = "message" THEN {x.text} ELSE {})
  BY <1>1 DEF Posted
<1>4. QED
  BY <1>1, <1>2, <1>3

(***************************************************************************)
(* The first event is run.                                                 *)
(***************************************************************************)
LEMMA TailEvents ==
  ASSUME NEW e \in Seq(Event), EventsIncreasing(e), e # <<>>
  PROVE  /\ Head(e) \in Event
         /\ Tail(e) \in Seq(Event)
         /\ EventsIncreasing(Tail(e))
         /\ Posted(Tail(e)) \subseteq Posted(e)
         /\ Head(e).type = "message" =>
              /\ Head(e).text \in Posted(e)
              /\ Before({Head(e).text}, Posted(Tail(e)))
<1>1. /\ Tail(e) \in Seq(Event)
      /\ Head(e) = e[1] /\ 1 \in DOMAIN e /\ e[1] \in Event
      /\ DOMAIN Tail(e) \subseteq Nat \ {0}
      /\ \A i \in DOMAIN Tail(e) :
           i + 1 \in DOMAIN e /\ Tail(e)[i] = e[i + 1]
  OBVIOUS
<1>2. EventsIncreasing(Tail(e))
  BY <1>1 DEF EventsIncreasing
<1>3. Posted(Tail(e)) \subseteq Posted(e)
  BY <1>1 DEF Posted
<1>4. ASSUME Head(e).type = "message"
      PROVE  /\ Head(e).text \in Posted(e)
             /\ Before({Head(e).text}, Posted(Tail(e)))
  BY <1>1, <1>4 DEF EventsIncreasing, Before, Posted
<1>5. QED
  BY <1>1, <1>2, <1>3, <1>4

-----------------------------------------------------------------------------
(* The steps of a message keep the order.                                  *)

(***************************************************************************)
(* Emptiness: no texts, and any order.                                     *)
(***************************************************************************)
LEMMA NoTexts == <<>> \in Seq(Nat) /\ Increasing(<<>>) /\ TextsIn(<<>>) = {}
  BY DEF Increasing, TextsIn

(***************************************************************************)
(* An event that carries no text is posted.                                *)
(***************************************************************************)
LEMMA OrderedPost ==
  ASSUME NEW g, NEW e, NEW w, NEW p, NEW n, Ordered(g, e, w, p, n),
         NEW x \in Event, x.type # "message"
  PROVE  Ordered(g, Append(e, x), w, p, n)
<1>1. e \in Seq(Event) /\ EventsIncreasing(e)
  BY DEF Ordered, Typed
<1>2. /\ Append(e, x) \in Seq(Event) /\ EventsIncreasing(Append(e, x))
      /\ Posted(Append(e, x)) = Posted(e)
  BY <1>1, AppendEvent
<1>3. QED
  BY <1>2 DEF Ordered, Typed

(***************************************************************************)
(* What is on the wire, or in the queue, is lost.                          *)
(***************************************************************************)
LEMMA OrderedLose ==
  ASSUME NEW g, NEW e, NEW w, NEW p, NEW n, Ordered(g, e, w, p, n)
  PROVE  Ordered(g, e, <<>>, p, n) /\ Ordered(g, e, w, <<>>, n)
  BY NoTexts DEF Ordered, Typed, Before

(***************************************************************************)
(* The queue is flushed.                                                   *)
(***************************************************************************)
LEMMA OrderedFlush ==
  ASSUME NEW g, NEW e, NEW w, NEW p, NEW n, Ordered(g, e, w, p, n)
  PROVE  Ordered(g, e, w \o p, <<>>, n)
<1>1. /\ w \in Seq(Nat) /\ p \in Seq(Nat) /\ Increasing(w) /\ Increasing(p)
      /\ Before(TextsIn(w), TextsIn(p))
  BY DEF Ordered, Typed, Before
<1>2. /\ w \o p \in Seq(Nat) /\ Increasing(w \o p)
      /\ TextsIn(w \o p) = TextsIn(w) \cup TextsIn(p)
  BY <1>1, ConcatTexts
<1>3. QED
  BY <1>2, NoTexts DEF Ordered, Typed, Before

(***************************************************************************)
(* The oldest in the queue is dropped.                                     *)
(***************************************************************************)
LEMMA OrderedDrop ==
  ASSUME NEW g, NEW e, NEW w, NEW p, NEW n, Ordered(g, e, w, p, n), p # <<>>
  PROVE  Ordered(g, e, w, Tail(p), n)
<1>1. p \in Seq(Nat) /\ Increasing(p)
  BY DEF Ordered, Typed
<1>2. /\ Tail(p) \in Seq(Nat) /\ Increasing(Tail(p))
      /\ TextsIn(Tail(p)) \subseteq TextsIn(p)
  BY <1>1, TailTexts
<1>3. QED
  BY <1>2 DEF Ordered, Typed, Before

(***************************************************************************)
(* Another message is sent: it is queued, or goes nowhere.                 *)
(***************************************************************************)
LEMMA OrderedSend ==
  ASSUME NEW g, NEW e, NEW w, NEW p, NEW n, Ordered(g, e, w, p, n)
  PROVE  /\ Ordered(g, e, w, p, n + 1)
         /\ Ordered(g, e, w, Append(p, n + 1), n + 1)
<1>1. /\ Typed(g, e, w, p, n) /\ n \in Nat /\ n + 1 \in Nat
      /\ p \in Seq(Nat) /\ Increasing(p) /\ Before(TextsIn(p), {n + 1})
  BY DEF Ordered, Typed
<1>2. TextsIn(g) \subseteq Nat /\ Posted(e) \subseteq Nat /\ TextsIn(w) \subseteq Nat
      /\ TextsIn(p) \subseteq Nat
  <2>1. Posted(e) \subseteq Nat
    <3>1. \A x \in Event : x.type = "message" => x.text \in Nat
      BY DEF Event
    <3>2. \A i \in DOMAIN e : e[i] \in Event
      BY <1>1 DEF Typed
    <3>3. QED
      BY <3>1, <3>2 DEF Posted
  <2>2. \A s \in Seq(Nat) : TextsIn(s) \subseteq Nat
    BY DEF TextsIn
  <2>3. QED
    BY <1>1, <2>1, <2>2 DEF Typed
<1>3. \A A \in SUBSET Nat : Before(A, {n + 1}) => Before(A, {n + 1 + 1})
  BY <1>1 DEF Before
<1>4. /\ Before(TextsIn(g), {n + 1 + 1}) /\ Before(Posted(e), {n + 1 + 1})
      /\ Before(TextsIn(w), {n + 1 + 1}) /\ Before(TextsIn(p), {n + 1 + 1})
  <2>1. /\ Before(TextsIn(g), {n + 1}) /\ Before(Posted(e), {n + 1})
        /\ Before(TextsIn(w), {n + 1})
    BY DEF Ordered, Before
  <2>2. QED
    BY <2>1, <1>1, <1>2, <1>3
<1>5. Ordered(g, e, w, p, n + 1)
  BY <1>1, <1>4 DEF Ordered, Typed, Before
<1>6. /\ Append(p, n + 1) \in Seq(Nat) /\ Increasing(Append(p, n + 1))
      /\ TextsIn(Append(p, n + 1)) = TextsIn(p) \cup {n + 1}
  BY <1>1, AppendText
<1>7. Before({n + 1}, {n + 1 + 1})
  BY <1>1 DEF Before
<1>8. Ordered(g, e, w, Append(p, n + 1), n + 1)
  BY <1>1, <1>4, <1>6, <1>7 DEF Ordered, Typed, Before
<1>9. QED
  BY <1>5, <1>8

(***************************************************************************)
(* The first on the wire arrives and is posted.                            *)
(***************************************************************************)
LEMMA OrderedArrive ==
  ASSUME NEW g, NEW e, NEW w, NEW p, NEW n, Ordered(g, e, w, p, n), w # <<>>
  PROVE  Ordered(g, Append(e, [type |-> "message", text |-> Head(w)]), Tail(w), p, n)
<1> DEFINE x == [type |-> "message", text |-> Head(w)]
<1>1. w \in Seq(Nat) /\ Increasing(w) /\ e \in Seq(Event) /\ EventsIncreasing(e)
  BY DEF Ordered, Typed
<1>2. /\ Head(w) \in TextsIn(w) /\ Head(w) \in Nat
      /\ Tail(w) \in Seq(Nat) /\ Increasing(Tail(w))
      /\ TextsIn(Tail(w)) \subseteq TextsIn(w)
      /\ Before({Head(w)}, TextsIn(Tail(w)))
  BY <1>1, TailTexts
<1>3. x \in Event /\ x.type = "message" /\ x.text = Head(w)
  BY <1>2 DEF Event
<1>4. Before(Posted(e), {x.text})
  BY <1>2, <1>3 DEF Ordered, Before
<1>5. /\ Append(e, x) \in Seq(Event) /\ EventsIncreasing(Append(e, x))
      /\ Posted(Append(e, x)) = Posted(e) \cup {Head(w)}
  <2> HIDE DEF x
  <2>1. QED
    BY <1>1, <1>3, <1>4, AppendEvent
<1>6. Ordered(g, Append(e, x), Tail(w), p, n)
  <2> HIDE DEF x
  <2>1. QED
    BY <1>2, <1>5 DEF Ordered, Typed, Before
<1>7. QED
  BY <1>6

(***************************************************************************)
(* The first event is run: a message is shown or dropped.                  *)
(***************************************************************************)
LEMMA OrderedRun ==
  ASSUME NEW g, NEW e, NEW w, NEW p, NEW n, Ordered(g, e, w, p, n), e # <<>>
  PROVE  /\ Ordered(g, Tail(e), w, p, n)
         /\ Head(e).type = "message"
              => Ordered(Append(g, Head(e).text), Tail(e), w, p, n)
<1>1. e \in Seq(Event) /\ EventsIncreasing(e) /\ g \in Seq(Nat) /\ Increasing(g)
  BY DEF Ordered, Typed
<1>2. /\ Head(e) \in Event /\ Tail(e) \in Seq(Event) /\ EventsIncreasing(Tail(e))
      /\ Posted(Tail(e)) \subseteq Posted(e)
      /\ Head(e).type = "message" =>
           /\ Head(e).text \in Posted(e)
           /\ Before({Head(e).text}, Posted(Tail(e)))
  BY <1>1, TailEvents
<1>3. Ordered(g, Tail(e), w, p, n)
  BY <1>2 DEF Ordered, Typed, Before
<1>4. ASSUME Head(e).type = "message"
      PROVE  Ordered(Append(g, Head(e).text), Tail(e), w, p, n)
  <2>1. PICK t : t = Head(e).text
    OBVIOUS
  <2>2. t \in Nat /\ t \in Posted(e) /\ Before({t}, Posted(Tail(e)))
    BY <2>1, <1>2, <1>4 DEF Event
  <2>3. Before(TextsIn(g), {t})
    BY <2>2 DEF Ordered, Before
  <2>4. /\ Append(g, t) \in Seq(Nat) /\ Increasing(Append(g, t))
        /\ TextsIn(Append(g, t)) = TextsIn(g) \cup {t}
    BY <1>1, <2>2, <2>3, AppendText
  <2>5. Before({t}, TextsIn(w) \cup TextsIn(p) \cup {n + 1})
    BY <2>2 DEF Ordered, Before
  <2>6. Ordered(Append(g, t), Tail(e), w, p, n)
    BY <1>2, <2>2, <2>4, <2>5 DEF Ordered, Typed, Before
  <2>7. QED
    BY <2>1, <2>6
<1>5. QED
  BY <1>3, <1>4

-----------------------------------------------------------------------------
(* The inductive invariant.                                                *)

Signal ==
  [type: {"joined"}, participants: SUBSET Peers]
    \cup [type: {"peer-joined", "peer-left"}]
    \cup [type: {"offer"}, pc: Nat]
    \cup [type: {"answer"}, pc: Nat, to: Nat]

Connection ==
  [pc: Nat, isInitiator: BOOLEAN, remote: Nat, dc: Nat,
   state: {"none", "new", "open", "closed"}]

\* A connection, and what its descriptions and callbacks carry, has a number
\* that was given out.
ConnUpTo(cn, n) ==
  /\ cn \in Connection
  /\ cn.pc <= n /\ cn.remote <= n /\ cn.dc <= n
  /\ cn.pc = 0 => cn = NoConn

Numbered == {"offer", "answer", "incoming"}

UpTo(s, n) == \A i \in DOMAIN s : s[i].type \in Numbered => s[i].pc <= n

RoomOK ==
  /\ online \subseteq Peers /\ crashed \subseteq Peers
  /\ knows \in [Peers -> BOOLEAN] /\ joined \in [Peers -> BOOLEAN]
  /\ localId \in [Peers -> {0} \cup Peers \cup ForeignIds]

InboxOK ==
  /\ inbox \in [Peers -> Seq(Signal)]
  /\ \A c \in Peers : UpTo(inbox[c], pcs)

RtcOK ==
  /\ pcs \in Nat
  /\ conn \in [Peers -> Connection] /\ \A c \in Peers : ConnUpTo(conn[c], pcs)
  /\ events \in [Peers -> Seq(Event)] /\ \A c \in Peers : UpTo(events[c], pcs)

QueueOK ==
  /\ pending \in [Peers -> Seq(Nat)]
  /\ \A c \in Peers : Len(pending[c]) <= QueueCap
  /\ wire \in [Peers -> Seq(Nat)] /\ got \in [Peers -> Seq(Nat)]
  /\ sent \in [Peers -> Nat]

InOrder ==
  \A c \in Peers :
    Ordered(got[c], events[c], wire[c], pending[Other(c)], sent[Other(c)])

DirectInv == RoomOK /\ InboxOK /\ RtcOK /\ QueueOK /\ InOrder

-----------------------------------------------------------------------------
(* Numbers of connections.                                                 *)

(***************************************************************************)
(* Numbers that were given out stay so when more are.                      *)
(***************************************************************************)
LEMMA UpToLater ==
  ASSUME NEW n \in Nat, NEW m \in Nat, n <= m
  PROVE  /\ \A s \in Seq(Event) : UpTo(s, n) => UpTo(s, m)
         /\ \A s \in Seq(Signal) : UpTo(s, n) => UpTo(s, m)
         /\ \A cn : ConnUpTo(cn, n) => ConnUpTo(cn, m)
<1>1. \A x \in Event : x.type \in Numbered => x.pc \in Nat
  BY DEF Event, Numbered
<1>2. \A x \in Signal : x.type \in Numbered => x.pc \in Nat
  BY DEF Signal, Numbered
<1>3. \A s \in Seq(Event) : UpTo(s, n) => UpTo(s, m)
  BY <1>1 DEF UpTo
<1>4. \A s \in Seq(Signal) : UpTo(s, n) => UpTo(s, m)
  BY <1>2 DEF UpTo
<1>5. \A cn : ConnUpTo(cn, n) => ConnUpTo(cn, m)
  BY DEF ConnUpTo, Connection
<1>6. QED
  BY <1>3, <1>4, <1>5

(***************************************************************************)
(* An element is added at the end of a sequence, or its first taken off.   *)
(***************************************************************************)
LEMMA UpToAppend ==
  ASSUME NEW S, NEW s \in Seq(S), NEW n, UpTo(s, n),
         NEW x \in S, x.type \in Numbered => x.pc <= n
  PROVE  Append(s, x) \in Seq(S) /\ UpTo(Append(s, x), n)
<1>1. /\ Append(s, x) \in Seq(S)
      /\ DOMAIN Append(s, x) = DOMAIN s \cup {Len(s) + 1}
      /\ \A i \in DOMAIN s : Append(s, x)[i] = s[i]
      /\ Append(s, x)[Len(s) + 1] = x
  OBVIOUS
<1>2. QED
  BY <1>1 DEF UpTo

(***************************************************************************)
(* To take the first message of a queue keeps the bound on its numbers.     *)
(***************************************************************************)
LEMMA UpToTail ==
  ASSUME NEW S, NEW s \in Seq(S), NEW n, UpTo(s, n), s # <<>>
  PROVE  /\ Head(s) \in S /\ (Head(s).type \in Numbered => Head(s).pc <= n)
         /\ Tail(s) \in Seq(S) /\ UpTo(Tail(s), n)
<1>1. /\ Tail(s) \in Seq(S) /\ Head(s) = s[1] /\ 1 \in DOMAIN s /\ s[1] \in S
      /\ \A i \in DOMAIN Tail(s) : i + 1 \in DOMAIN s /\ Tail(s)[i] = s[i + 1]
  OBVIOUS
<1>2. QED
  BY <1>1 DEF UpTo

(***************************************************************************)
(* An empty queue is bounded by anything.                                   *)
(***************************************************************************)
LEMMA UpToEmpty == \A S, n : <<>> \in Seq(S) /\ UpTo(<<>>, n)
  BY DEF UpTo

-----------------------------------------------------------------------------
(* What a step does on the way of messages, when it shows and sends none.  *)

\* f is e with up to two events that carry no text.
Quietly(e, f) ==
  \/ f = e
  \/ \E x \in Event : x.type # "message" /\ f = Append(e, x)
  \/ \E x, y \in Event :
       x.type # "message" /\ y.type # "message" /\ f = Append(Append(e, x), y)

EventsQuiet == \A d \in Peers : Quietly(events[d], events'[d])

WireKeptOrLost == wire' = wire \/ wire' = [d \in Peers |-> <<>>]

(***************************************************************************)
(* Events without text do not disturb the order.                           *)
(***************************************************************************)
LEMMA OrderedQuiet ==
  ASSUME NEW g, NEW e, NEW w, NEW p, NEW n, Ordered(g, e, w, p, n),
         NEW f, Quietly(e, f)
  PROVE  Ordered(g, f, w, p, n)
<1>1. CASE f = e
  BY <1>1
<1>2. ASSUME NEW x \in Event, x.type # "message", f = Append(e, x)
      PROVE  Ordered(g, f, w, p, n)
  BY <1>2, OrderedPost
<1>3. ASSUME NEW x \in Event, NEW y \in Event,
             x.type # "message", y.type # "message",
             f = Append(Append(e, x), y)
      PROVE  Ordered(g, f, w, p, n)
  <2>1. Ordered(g, Append(e, x), w, p, n)
    BY <1>3, OrderedPost
  <2>2. QED
    BY <1>3, <2>1, OrderedPost
<1>4. QED
  BY <1>1, <1>2, <1>3 DEF Quietly

(***************************************************************************)
(* A step that posts no message, keeps or loses what is on the wire and    *)
(* shows, queues and sends nothing keeps the order.                        *)
(***************************************************************************)
LEMMA QuietKeepsOrder ==
  ASSUME QueueOK, InOrder, EventsQuiet, WireKeptOrLost,
         UNCHANGED <<got, pending, sent>>
  PROVE  QueueOK' /\ InOrder'
<1>1. QueueOK'
  <2>1. wire' \in [Peers -> Seq(Nat)]
    BY NoTexts DEF QueueOK, WireKeptOrLost
  <2>2. QED
    BY <2>1 DEF QueueOK
<1>2. ASSUME NEW c \in Peers
      PROVE  Ordered(got'[c], events'[c], wire'[c], pending'[Other(c)], sent'[Other(c)])
  <2>1. Ordered(got[c], events[c], wire[c], pending[Other(c)], sent[Other(c)])
    BY DEF InOrder
  <2>2. wire'[c] = wire[c] \/ wire'[c] = <<>>
    BY DEF WireKeptOrLost
  <2>3. Ordered(got[c], events[c], wire'[c], pending[Other(c)], sent[Other(c)])
    BY <2>1, <2>2, OrderedLose
  <2>4. Ordered(got[c], events'[c], wire'[c], pending[Other(c)], sent[Other(c)])
    BY <2>3, OrderedQuiet DEF EventsQuiet
  <2>5. QED
    BY <2>4
<1>3. InOrder'
  BY <1>2 DEF InOrder
<1>4. QED
  BY <1>1, <1>3

-----------------------------------------------------------------------------
(* The connections.                                                        *)

(***************************************************************************)
(* A new connection, as initiator or as receiver: a number is given out,   *)
(* the entry of c is replaced and an event that carries the number posted. *)
(***************************************************************************)
LEMMA NewConnection ==
  ASSUME RtcOK, NEW c \in Peers, NEW cn, NEW x \in Event,
         ConnUpTo(cn, pcs + 1), x.type \in {"offer", "answer"}, x.pc = pcs + 1,
         pcs' = pcs + 1, conn' = [conn EXCEPT ![c] = cn],
         events' = [events EXCEPT ![c] = Append(@, x)]
  PROVE  RtcOK' /\ pcs <= pcs' /\ EventsQuiet
<1>1. /\ pcs \in Nat /\ pcs' \in Nat /\ pcs <= pcs'
      /\ conn \in [Peers -> Connection] /\ events \in [Peers -> Seq(Event)]
      /\ cn \in Connection
  BY DEF RtcOK, ConnUpTo
<1>2. /\ \A s \in Seq(Event) : UpTo(s, pcs) => UpTo(s, pcs')
      /\ \A k : ConnUpTo(k, pcs) => ConnUpTo(k, pcs')
  BY <1>1, UpToLater
<1>3. conn' \in [Peers -> Connection] /\ \A d \in Peers : ConnUpTo(conn'[d], pcs')
  BY <1>1, <1>2 DEF RtcOK
<1>4. Append(events[c], x) \in Seq(Event) /\ UpTo(Append(events[c], x), pcs')
  <2>1. events[c] \in Seq(Event) /\ UpTo(events[c], pcs')
    BY <1>1, <1>2 DEF RtcOK
  <2>2. x.pc <= pcs'
    BY <1>1
  <2>3. QED
    BY <2>1, <2>2, UpToAppend
<1>5. /\ events' \in [Peers -> Seq(Event)]
      /\ \A d \in Peers : UpTo(events'[d], pcs')
  BY <1>1, <1>2, <1>4 DEF RtcOK
<1>6. EventsQuiet
  BY <1>1 DEF EventsQuiet, Quietly
<1>7. QED
  BY <1>1, <1>3, <1>5, <1>6 DEF RtcOK

(***************************************************************************)
(* A new connection that makes an offer has the next number, and posts no   *)
(* text.                                                                    *)
(***************************************************************************)
LEMMA InitiateKeeps ==
  ASSUME RtcOK, NEW c \in Peers, Initiate(c)
  PROVE  RtcOK' /\ pcs <= pcs' /\ EventsQuiet
<1> DEFINE cn == [pc |-> pcs + 1, isInitiator |-> TRUE, remote |-> 0,
                  dc |-> pcs + 1, state |-> "new"]
           x == Offer(pcs + 1)
<1>1. pcs \in Nat
  BY DEF RtcOK
<1>2. ConnUpTo(cn, pcs + 1)
  BY <1>1 DEF ConnUpTo, Connection
<1>3. x \in Event /\ x.type \in {"offer", "answer"} /\ x.pc = pcs + 1
  BY <1>1 DEF Event, Offer
<1>4. /\ pcs' = pcs + 1 /\ conn' = [conn EXCEPT ![c] = cn]
      /\ events' = [events EXCEPT ![c] = Append(@, x)]
  BY DEF Initiate
<1> HIDE DEF cn, x
<1>5. QED
  BY <1>2, <1>3, <1>4, NewConnection

(***************************************************************************)
(* So has the one that is made only if there is none.                       *)
(***************************************************************************)
LEMMA EnsureKeeps ==
  ASSUME RtcOK, NEW c \in Peers, Ensure(c)
  PROVE  RtcOK' /\ pcs <= pcs' /\ EventsQuiet
<1>1. CASE Exists(c)
  BY <1>1 DEF Ensure, RtcOK, EventsQuiet, Quietly
<1>2. CASE ~Exists(c)
  BY <1>2, InitiateKeeps DEF Ensure
<1>3. QED
  BY <1>1, <1>2

(***************************************************************************)
(* Setting a description keeps the types, and posts callbacks without text. *)
(***************************************************************************)
LEMMA ReceiveKeeps ==
  ASSUME RtcOK, NEW c \in Peers, NEW m, m.pc \in Nat, m.pc <= pcs, Receive(c, m)
  PROVE  RtcOK' /\ pcs <= pcs' /\ EventsQuiet
<1> DEFINE cn == [pc |-> pcs + 1, isInitiator |-> FALSE, remote |-> m.pc,
                  dc |-> 0, state |-> "new"]
           x == Answer(pcs + 1, m.pc)
<1>1. pcs \in Nat
  BY DEF RtcOK
<1>2. ConnUpTo(cn, pcs + 1)
  BY <1>1 DEF ConnUpTo, Connection
<1>3. x \in Event /\ x.type \in {"offer", "answer"} /\ x.pc = pcs + 1
  BY <1>1 DEF Event, Answer
<1>4. /\ pcs' = pcs + 1 /\ conn' = [conn EXCEPT ![c] = cn]
      /\ events' = [events EXCEPT ![c] = Append(@, x)]
  BY DEF Receive
<1> HIDE DEF cn, x
<1>5. QED
  BY <1>2, <1>3, <1>4, NewConnection

(***************************************************************************)
(* The entry of c changes and no number is given out.                      *)
(***************************************************************************)
LEMMA ConnectionChanges ==
  ASSUME RtcOK, NEW c \in Peers, NEW cn, ConnUpTo(cn, pcs),
         conn' = [conn EXCEPT ![c] = cn], UNCHANGED <<pcs, events>>
  PROVE  RtcOK' /\ pcs <= pcs' /\ EventsQuiet
<1>1. cn \in Connection
  BY DEF ConnUpTo
<1>2. QED
  BY <1>1 DEF RtcOK, EventsQuiet, Quietly

(***************************************************************************)
(* The state of a connection may be any of the states.                      *)
(***************************************************************************)
LEMMA StateChanges ==
  ASSUME NEW n \in Nat, NEW cn, ConnUpTo(cn, n), cn.pc # 0,
         NEW st \in {"none", "new", "open", "closed"}
  PROVE  ConnUpTo([cn EXCEPT !.state = st], n)
<1> DEFINE k == [cn EXCEPT !.state = st]
<1>1. cn \in Connection /\ cn.pc <= n /\ cn.remote <= n /\ cn.dc <= n
  BY DEF ConnUpTo
<1>2. /\ k \in Connection /\ k.pc = cn.pc /\ k.remote = cn.remote
      /\ k.dc = cn.dc
  BY <1>1 DEF Connection
<1> HIDE DEF k
<1>3. ConnUpTo(k, n)
  BY <1>1, <1>2 DEF ConnUpTo
<1>4. QED
  BY <1>3 DEF k

(***************************************************************************)
(* Closing a connection loses at most what is on the wire.                  *)
(***************************************************************************)
LEMMA ClosedKeeps ==
  ASSUME RtcOK, NEW c \in Peers, Closed(c), UNCHANGED <<pcs, events>>
  PROVE  RtcOK' /\ pcs <= pcs' /\ EventsQuiet /\ WireKeptOrLost
<1>1. ConnUpTo(NoConn, pcs)
  BY DEF RtcOK, NoConn, ConnUpTo, Connection
<1>2. RtcOK' /\ pcs <= pcs' /\ EventsQuiet
  BY <1>1, ConnectionChanges DEF Closed
<1>3. QED
  BY <1>2 DEF Closed, WireKeptOrLost

-----------------------------------------------------------------------------
(* The signaling messages.                                                 *)

(***************************************************************************)
(* Connections and events stay as they are.                                *)
(***************************************************************************)
LEMMA RtcUnchanged ==
  ASSUME RtcOK, UNCHANGED <<pcs, conn, events>>
  PROVE  RtcOK' /\ pcs <= pcs' /\ EventsQuiet
  BY DEF RtcOK, EventsQuiet, Quietly

(***************************************************************************)
(* An offer, from whichever connection, keeps the types and shows no text.  *)
(***************************************************************************)
LEMMA OnOfferKeeps ==
  ASSUME RtcOK, NEW c \in Peers, NEW m, m.pc \in Nat, m.pc <= pcs, OnOffer(c, m)
  PROVE  RtcOK' /\ pcs <= pcs' /\ EventsQuiet /\ WireKeptOrLost
<1>1. CASE Exists(c) /\ ~(conn[c].isInitiator /\ Polite(c))
  BY <1>1, RtcUnchanged DEF OnOffer, WireKeptOrLost
<1>2. CASE ~(Exists(c) /\ ~(conn[c].isInitiator /\ Polite(c)))
  BY <1>2, ReceiveKeeps DEF OnOffer, WireKeptOrLost
<1>3. QED
  BY <1>1, <1>2

(***************************************************************************)
(* So does an answer.                                                       *)
(***************************************************************************)
LEMMA OnAnswerKeeps ==
  ASSUME RtcOK, NEW c \in Peers, NEW m, m.pc \in Nat, m.pc <= pcs, OnAnswer(c, m)
  PROVE  RtcOK' /\ pcs <= pcs' /\ EventsQuiet /\ WireKeptOrLost
<1>1. WireKeptOrLost
  BY DEF OnAnswer, WireKeptOrLost
<1>2. CASE Exists(c) /\ conn[c].isInitiator /\ conn[c].remote = 0
  <2> DEFINE cn == [conn[c] EXCEPT !.remote = m.pc]
  <2>1. conn' = [conn EXCEPT ![c] = cn] /\ UNCHANGED <<pcs, events>>
    BY <1>2 DEF OnAnswer
  <2>2. ConnUpTo(cn, pcs)
    <3>1. ConnUpTo(conn[c], pcs) /\ pcs \in Nat
      BY DEF RtcOK
    <3>2. QED
      BY <3>1, <1>2 DEF ConnUpTo, Connection, Exists
  <2> HIDE DEF cn
  <2>3. QED
    BY <1>1, <2>1, <2>2, ConnectionChanges
<1>3. CASE ~(Exists(c) /\ conn[c].isInitiator /\ conn[c].remote = 0)
  BY <1>1, <1>3, RtcUnchanged DEF OnAnswer
<1>4. QED
  BY <1>2, <1>3

(***************************************************************************)
(* What handling the first signaling message of c does to the connections, *)
(* the events and the wire.                                                *)
(***************************************************************************)
LEMMA OnMessageRtc ==
  ASSUME RtcOK, InboxOK, NEW c \in Peers, OnMessage(c)
  PROVE  /\ RtcOK' /\ pcs <= pcs' /\ EventsQuiet /\ WireKeptOrLost
         /\ UNCHANGED pending
<1>1. PICK m : m = Head(inbox[c])
  OBVIOUS
<1>2. m \in Signal /\ (m.type \in Numbered => m.pc <= pcs)
  BY <1>1, UpToTail DEF InboxOK, OnMessage
<1>3. CASE m.type = "joined" /\ OnJoined(c, m)
  BY <1>3, RtcUnchanged DEF OnJoined, rtcVars, WireKeptOrLost
<1>4. CASE m.type = "peer-joined" /\ OnPeerJoined(c)
  <2>1. CASE joined[c]
    BY <1>4, <2>1, EnsureKeeps DEF OnPeerJoined, WireKeptOrLost
  <2>2. CASE ~joined[c]
    BY <1>4, <2>2, RtcUnchanged DEF OnPeerJoined, WireKeptOrLost
  <2>3. QED
    BY <2>1, <2>2
<1>5. CASE m.type = "peer-left" /\ OnPeerLeft(c)
  BY <1>5, ClosedKeeps DEF OnPeerLeft
<1>6. CASE m.type = "offer" /\ OnOffer(c, m)
  <2>1. m.pc \in Nat /\ m.pc <= pcs
    BY <1>2, <1>6 DEF Signal, Numbered
  <2>2. QED
    BY <1>6, <2>1, OnOfferKeeps DEF OnOffer
<1>7. CASE m.type = "answer" /\ OnAnswer(c, m)
  <2>1. m.pc \in Nat /\ m.pc <= pcs
    BY <1>2, <1>7 DEF Signal, Numbered
  <2>2. QED
    BY <1>7, <2>1, OnAnswerKeeps DEF OnAnswer
<1>8. QED
  BY <1>1, <1>3, <1>4, <1>5, <1>6, <1>7 DEF OnMessage

(***************************************************************************)
(* And to what c knows of the room.                                        *)
(***************************************************************************)
LEMMA OnMessageRoom ==
  ASSUME RoomOK, NEW c \in Peers, OnMessage(c)
  PROVE  RoomOK'
<1>1. PICK m : m = Head(inbox[c])
  OBVIOUS
<1>2. UNCHANGED online
  BY DEF OnMessage
<1>3. CASE m.type = "joined" /\ OnJoined(c, m)
  BY <1>2, <1>3 DEF OnJoined, RoomOK
<1>4. CASE m.type = "peer-joined" /\ OnPeerJoined(c)
  BY <1>2, <1>4 DEF OnPeerJoined, RoomOK
<1>5. CASE m.type = "peer-left" /\ OnPeerLeft(c)
  BY <1>2, <1>5 DEF OnPeerLeft, RoomOK
<1>6. CASE OnOffer(c, m) /\ UNCHANGED <<knows, joined, localId>>
  BY <1>2, <1>6 DEF OnOffer, RoomOK
<1>7. CASE OnAnswer(c, m) /\ UNCHANGED <<knows, joined, localId>>
  <2>1. crashed' \subseteq Peers
    BY <1>7 DEF OnAnswer, RoomOK
  <2>2. QED
    BY <1>2, <1>7, <2>1 DEF RoomOK
<1>8. QED
  BY <1>1, <1>3, <1>4, <1>5, <1>6, <1>7 DEF OnMessage

(***************************************************************************)
(* A signaling message keeps types and order.                               *)
(***************************************************************************)
LEMMA OnMessageKeeps ==
  ASSUME DirectInv, NEW c \in Peers, OnMessage(c)
  PROVE  DirectInv'
<1>1. /\ RtcOK' /\ pcs <= pcs' /\ EventsQuiet /\ WireKeptOrLost
      /\ UNCHANGED pending
  BY OnMessageRtc DEF DirectInv
<1>2. RoomOK'
  BY OnMessageRoom DEF DirectInv
<1>3. InboxOK'
  <2>1. inbox' = [inbox EXCEPT ![c] = Tail(@)] /\ inbox[c] # <<>>
    BY DEF OnMessage
  <2>2. Tail(inbox[c]) \in Seq(Signal) /\ UpTo(Tail(inbox[c]), pcs)
    BY <2>1, UpToTail DEF DirectInv, InboxOK
  <2>3. \A s \in Seq(Signal) : UpTo(s, pcs) => UpTo(s, pcs')
    BY <1>1, UpToLater DEF DirectInv, RtcOK
  <2>4. QED
    BY <2>1, <2>2, <2>3 DEF DirectInv, InboxOK
<1>4. QueueOK' /\ InOrder'
  BY <1>1, QuietKeepsOrder DEF DirectInv, OnMessage, history
<1>5. QED
  BY <1>1, <1>2, <1>3, <1>4 DEF DirectInv

(***************************************************************************)
(* What the server tells the clients when one comes or goes.               *)
(***************************************************************************)
LEMMA Told ==
  ASSUME InboxOK, UNCHANGED pcs, NEW c \in Peers, NEW own, NEW m \in Signal,
         m.type \notin Numbered, own \in Seq(Signal), UpTo(own, pcs),
         inbox' = [d \in Peers |-> IF d = c THEN own
                                   ELSE IF d \in online THEN Append(inbox[d], m)
                                   ELSE inbox[d]]
  PROVE  InboxOK'
<1>1. \A d \in Peers : inbox[d] \in Seq(Signal) /\ UpTo(inbox[d], pcs)
  BY DEF InboxOK
<1>2. \A d \in Peers :
        Append(inbox[d], m) \in Seq(Signal) /\ UpTo(Append(inbox[d], m), pcs)
  BY <1>1, UpToAppend
<1>3. \A d \in Peers : inbox'[d] \in Seq(Signal) /\ UpTo(inbox'[d], pcs)
  BY <1>1, <1>2
<1>4. QED
  BY <1>3 DEF InboxOK

(***************************************************************************)
(* Joining the room keeps types and order.                                  *)
(***************************************************************************)
LEMMA JoinKeeps ==
  ASSUME DirectInv, NEW c \in Peers, Join(c)
  PROVE  DirectInv'
<1> DEFINE own == << [type |-> "joined", participants |-> online] >>
           m == [type |-> "peer-joined"]
<1>1. RoomOK'
  BY DEF Join, DirectInv, RoomOK
<1>2. RtcOK' /\ EventsQuiet /\ WireKeptOrLost
  BY RtcUnchanged DEF Join, DirectInv, rtcVars, WireKeptOrLost
<1>3. InboxOK'
  <2>1. own \in Seq(Signal) /\ UpTo(own, pcs)
    <3>1. [type |-> "joined", participants |-> online] \in Signal
      BY DEF DirectInv, RoomOK, Signal
    <3>2. QED
      BY <3>1 DEF UpTo, Numbered
  <2>2. m \in Signal /\ m.type \notin Numbered
    BY DEF Signal, Numbered
  <2>3. inbox' = [d \in Peers |-> IF d = c THEN own
                                  ELSE IF d \in online THEN Append(inbox[d], m)
                                  ELSE inbox[d]]
    BY DEF Join
  <2>4. InboxOK /\ UNCHANGED pcs
    BY DEF DirectInv, Join, rtcVars
  <2> HIDE DEF own, m
  <2>5. QED
    BY <2>1, <2>2, <2>3, <2>4, Told
<1>4. QueueOK' /\ InOrder'
  BY <1>2, QuietKeepsOrder DEF DirectInv, Join, rtcVars, history
<1>5. QED
  BY <1>1, <1>2, <1>3, <1>4 DEF DirectInv

(***************************************************************************)
(* Losing the server keeps types and order.                                 *)
(***************************************************************************)
LEMMA DisconnectKeeps ==
  ASSUME DirectInv, NEW c \in Peers, Disconnect(c)
  PROVE  DirectInv'
<1> DEFINE m == [type |-> "peer-left"]
<1>1. RoomOK'
  BY DEF Disconnect, DirectInv, RoomOK
<1>2. RtcOK' /\ EventsQuiet /\ WireKeptOrLost
  <2>1. CASE knows[c]
    BY <2>1, ClosedKeeps DEF Disconnect, DirectInv
  <2>2. CASE ~knows[c]
    BY <2>2, RtcUnchanged DEF Disconnect, DirectInv, WireKeptOrLost
  <2>3. QED
    BY <2>1, <2>2
<1>3. InboxOK'
  <2>1. <<>> \in Seq(Signal) /\ UpTo(<<>>, pcs)
    BY UpToEmpty
  <2>2. m \in Signal /\ m.type \notin Numbered
    BY DEF Signal, Numbered
  <2>3. inbox' = [d \in Peers |-> IF d = c THEN <<>>
                                  ELSE IF d \in online THEN Append(inbox[d], m)
                                  ELSE inbox[d]]
    BY DEF Disconnect
  <2>4. InboxOK /\ UNCHANGED pcs
    BY DEF DirectInv, Disconnect
  <2> HIDE DEF m
  <2>5. QED
    BY <2>1, <2>2, <2>3, <2>4, Told
<1>4. QueueOK'
  <2>1. wire' \in [Peers -> Seq(Nat)]
    BY <1>2, NoTexts DEF DirectInv, QueueOK, WireKeptOrLost
  <2>2. pending' = [pending EXCEPT ![c] = <<>>]
    BY DEF Disconnect
  <2>3. pending' \in [Peers -> Seq(Nat)] /\ \A d \in Peers : Len(pending'[d]) <= QueueCap
    <3>1. <<>> \in Seq(Nat) /\ Len(<<>>) = 0
      OBVIOUS
    <3>2. QueueCap \in Nat \ {0}
      BY DirectChatAssumption
    <3>3. \A d \in Peers : pending'[d] = pending[d] \/ pending'[d] = <<>>
      BY <2>2 DEF DirectInv, QueueOK
    <3>4. pending' \in [Peers -> Seq(Nat)]
      BY <2>2, <3>1 DEF DirectInv, QueueOK
    <3>5. QED
      BY <3>1, <3>2, <3>3, <3>4 DEF DirectInv, QueueOK
  <2>4. UNCHANGED <<got, sent>>
    BY DEF Disconnect, history
  <2>5. QED
    BY <2>1, <2>3, <2>4 DEF DirectInv, QueueOK
<1>5. InOrder'
  <2> SUFFICES ASSUME NEW d \in Peers
               PROVE  Ordered(got'[d], events'[d], wire'[d], pending'[Other(d)],
                              sent'[Other(d)])
    BY DEF InOrder
  <2>1. Ordered(got[d], events[d], wire[d], pending[Other(d)], sent[Other(d)])
    BY DEF DirectInv, InOrder
  <2>2. wire'[d] = wire[d] \/ wire'[d] = <<>>
    BY <1>2 DEF WireKeptOrLost
  <2>3. pending'[Other(d)] = pending[Other(d)] \/ pending'[Other(d)] = <<>>
    BY TwoPeers DEF Disconnect, DirectInv, QueueOK
  <2>4. UNCHANGED <<got, events, sent>>
    BY DEF Disconnect, history
  <2>5. Ordered(got[d], events[d], wire'[d], pending[Other(d)], sent[Other(d)])
    BY <2>1, <2>2, OrderedLose
  <2>6. Ordered(got[d], events[d], wire'[d], pending'[Other(d)], sent[Other(d)])
    BY <2>5, <2>3, OrderedLose
  <2>7. QED
    BY <2>6, <2>4
<1>6. QED
  BY <1>1, <1>2, <1>3, <1>4, <1>5 DEF DirectInv

(***************************************************************************)
(* Joining another room keeps types and order.                              *)
(***************************************************************************)
LEMMA JoinOtherKeeps ==
  ASSUME DirectInv, NEW c \in Peers, NEW id \in ForeignIds, JoinOther(c, id)
  PROVE  DirectInv'
<1>1. RoomOK'
  BY DEF JoinOther, DirectInv, RoomOK
<1>2. RtcOK' /\ EventsQuiet /\ WireKeptOrLost
  BY RtcUnchanged DEF JoinOther, DirectInv, rtcVars, WireKeptOrLost
<1>3. InboxOK'
  BY DEF JoinOther, DirectInv, rtcVars, InboxOK
<1>4. QueueOK' /\ InOrder'
  BY <1>2, QuietKeepsOrder DEF DirectInv, JoinOther, rtcVars, history
<1>5. QED
  BY <1>1, <1>2, <1>3, <1>4 DEF DirectInv

-----------------------------------------------------------------------------
(* The library.                                                            *)

(***************************************************************************)
(* An opening channel keeps types and order.                                *)
(***************************************************************************)
LEMMA ConnectKeeps ==
  ASSUME DirectInv, NEW c \in Peers, Connect(c)
  PROVE  DirectInv'
<1> DEFINE o == Other(c)
           opened == [type |-> "opened"]
           incoming == [type |-> "incoming", pc |-> conn[o].pc]
<1>1. o \in Peers /\ o # c /\ Peers = {c, o}
  BY TwoPeers
<1>2. /\ pcs \in Nat /\ conn \in [Peers -> Connection]
      /\ events \in [Peers -> Seq(Event)]
      /\ \A d \in Peers : ConnUpTo(conn[d], pcs) /\ UpTo(events[d], pcs)
  BY DEF DirectInv, RtcOK
<1>3. /\ opened \in Event /\ opened.type = "opened"
      /\ incoming \in Event /\ incoming.type = "incoming" /\ incoming.pc <= pcs
  BY <1>1, <1>2 DEF Event, ConnUpTo, Connection
<1>4. /\ conn' \in [Peers -> Connection]
      /\ \A d \in Peers : ConnUpTo(conn'[d], pcs)
  <2>1. \A d \in Peers : conn'[d] = [conn[d] EXCEPT !.state = "open"]
    BY DEF Connect
  <2>2. \A d \in Peers : conn[d].pc # 0
    BY <1>1 DEF Connect, Matched, Exists
  <2>3. \A d \in Peers : conn'[d] \in Connection /\ ConnUpTo(conn'[d], pcs)
    <3>1. \A d \in Peers : ConnUpTo(conn'[d], pcs)
      <4> SUFFICES ASSUME NEW d \in Peers
                   PROVE  ConnUpTo([conn[d] EXCEPT !.state = "open"], pcs)
        BY <2>1
      <4>1. pcs \in Nat /\ ConnUpTo(conn[d], pcs) /\ conn[d].pc # 0
        BY <1>2, <2>2
      <4>2. QED
        BY <4>1, StateChanges
    <3>2. QED
      BY <3>1 DEF ConnUpTo
  <2>4. conn' = [d \in Peers |-> conn'[d]]
    BY DEF Connect
  <2>5. QED
    BY <2>3, <2>4
<1>5. /\ events' \in [Peers -> Seq(Event)]
      /\ events'[c] = Append(events[c], opened)
      /\ events'[o] = Append(Append(events[o], incoming), opened)
  <2>1. events' = [events EXCEPT ![c] = Append(@, opened),
                                 ![o] = @ \o << incoming, opened >>]
    BY DEF Connect
  <2> HIDE DEF opened, incoming, o
  <2>2. events[c] \in Seq(Event) /\ events[o] \in Seq(Event)
    BY <1>1, <1>2
  <2>3. events[o] \o << incoming, opened >>
          = Append(Append(events[o], incoming), opened)
    BY <1>3, <2>2
  <2>4. /\ Append(events[c], opened) \in Seq(Event)
        /\ Append(Append(events[o], incoming), opened) \in Seq(Event)
    BY <1>3, <2>2
  <2>5. QED
    BY <1>1, <1>2, <2>1, <2>3, <2>4
<1>6. RtcOK'
  <2> HIDE DEF opened, incoming, o
  <2>1. UpTo(events'[c], pcs)
    <3>1. events[c] \in Seq(Event) /\ UpTo(events[c], pcs)
      BY <1>1, <1>2
    <3>2. opened \in Event /\ opened.type \notin Numbered
      BY <1>3 DEF Numbered
    <3>3. QED
      BY <1>5, <3>1, <3>2, UpToAppend
  <2>2. /\ Append(events[o], incoming) \in Seq(Event)
        /\ UpTo(Append(events[o], incoming), pcs)
    BY <1>1, <1>2, <1>3, UpToAppend
  <2>3. UpTo(events'[o], pcs)
    BY <1>3, <1>5, <2>2, UpToAppend DEF Numbered
  <2>4. UNCHANGED pcs
    BY DEF Connect
  <2>5. QED
    BY <1>1, <1>2, <1>4, <1>5, <2>1, <2>3, <2>4 DEF RtcOK
<1>7. EventsQuiet
  <2> HIDE DEF opened, incoming, o
  <2>1. Quietly(events[c], events'[c])
    BY <1>3, <1>5 DEF Quietly
  <2>2. Quietly(events[o], events'[o])
    BY <1>3, <1>5 DEF Quietly
  <2>3. QED
    BY <1>1, <2>1, <2>2 DEF EventsQuiet
<1>8. RoomOK' /\ InboxOK'
  BY DEF Connect, roomVars, DirectInv, RoomOK, InboxOK
<1>9. QueueOK' /\ InOrder'
  BY <1>7, QuietKeepsOrder DEF DirectInv, Connect, history, WireKeptOrLost
<1>10. QED
  BY <1>6, <1>8, <1>9 DEF DirectInv

(***************************************************************************)
(* The end of a channel, noticed, keeps types and order.                    *)
(***************************************************************************)
LEMMA NoticeClosedKeeps ==
  ASSUME DirectInv, NEW c \in Peers, NoticeClosed(c)
  PROVE  DirectInv'
<1> DEFINE cn == [conn[c] EXCEPT !.state = "closed"]
<1>1. RtcOK' /\ EventsQuiet
  <2>1. ConnUpTo(cn, pcs)
    <3>1. ConnUpTo(conn[c], pcs) /\ pcs \in Nat
      BY DEF DirectInv, RtcOK
    <3>2. conn[c].pc # 0
      BY <3>1 DEF NoticeClosed, ConnUpTo, NoConn
    <3>3. QED
      BY <3>1, <3>2, StateChanges
  <2>2. conn' = [conn EXCEPT ![c] = cn] /\ UNCHANGED <<pcs, events>>
    BY DEF NoticeClosed
  <2> HIDE DEF cn
  <2>3. QED
    BY <2>1, <2>2, ConnectionChanges DEF DirectInv
<1>2. RoomOK' /\ InboxOK'
  BY DEF NoticeClosed, roomVars, DirectInv, RoomOK, InboxOK
<1>3. QueueOK' /\ InOrder'
  BY <1>1, QuietKeepsOrder DEF DirectInv, NoticeClosed, history, WireKeptOrLost
<1>4. QED
  BY <1>1, <1>2, <1>3 DEF DirectInv

(***************************************************************************)
(* A text that arrives moves from the head of the wire to the end of the    *)
(* events.                                                                  *)
(***************************************************************************)
LEMMA ArriveKeeps ==
  ASSUME DirectInv, NEW c \in Peers, Arrive(c)
  PROVE  DirectInv'
<1> DEFINE x == [type |-> "message", text |-> Head(wire[c])]
<1>1. /\ wire[c] \in Seq(Nat) /\ wire[c] # <<>> /\ events[c] \in Seq(Event)
      /\ wire \in [Peers -> Seq(Nat)] /\ events \in [Peers -> Seq(Event)]
      /\ UpTo(events[c], pcs)
  BY DEF Arrive, DirectInv, QueueOK, RtcOK
<1>2. /\ events' = [events EXCEPT ![c] = Append(@, x)]
      /\ wire' = [wire EXCEPT ![c] = Tail(@)]
      /\ UNCHANGED <<conn, pending, pcs, got, sent>>
  BY DEF Arrive, history
<1>3. x \in Event /\ x.type = "message"
  <2>1. Head(wire[c]) \in Nat
    BY <1>1
  <2>2. QED
    BY <2>1 DEF Event
<1>4. RtcOK'
  <2> HIDE DEF x
  <2>1. Append(events[c], x) \in Seq(Event) /\ UpTo(Append(events[c], x), pcs)
    BY <1>1, <1>3, UpToAppend DEF Numbered
  <2>2. QED
    BY <1>1, <1>2, <2>1 DEF DirectInv, RtcOK
<1>5. RoomOK' /\ InboxOK'
  BY <1>2 DEF Arrive, roomVars, DirectInv, RoomOK, InboxOK
<1>6. QueueOK'
  BY <1>1, <1>2 DEF DirectInv, QueueOK
<1>7. InOrder'
  <2> SUFFICES ASSUME NEW d \in Peers
               PROVE  Ordered(got'[d], events'[d], wire'[d], pending'[Other(d)],
                              sent'[Other(d)])
    BY DEF InOrder
  <2>1. Ordered(got[d], events[d], wire[d], pending[Other(d)], sent[Other(d)])
    BY DEF DirectInv, InOrder
  <2>2. CASE d # c
    BY <1>1, <1>2, <2>1, <2>2
  <2>3. CASE d = c
    <3>1. Ordered(got[c], Append(events[c], x), Tail(wire[c]),
                  pending[Other(c)], sent[Other(c)])
      BY <1>1, <2>1, <2>3, OrderedArrive
    <3>2. events'[c] = Append(events[c], x) /\ wire'[c] = Tail(wire[c])
      BY <1>1, <1>2
    <3>3. QED
      BY <1>2, <2>3, <3>1, <3>2
  <2>4. QED
    BY <2>2, <2>3
<1>8. QED
  BY <1>4, <1>5, <1>6, <1>7 DEF DirectInv

-----------------------------------------------------------------------------
(* Messages.                                                               *)

(***************************************************************************)
(* The queue keeps to its cap, and to its order, when a message is added.  *)
(***************************************************************************)
LEMMA EnqueuedKeeps ==
  ASSUME NEW g, NEW e, NEW w, NEW p, NEW n, Ordered(g, e, w, p, n),
         Len(p) <= QueueCap
  PROVE  /\ Ordered(g, e, w, Enqueued(p, n + 1), n + 1)
         /\ Enqueued(p, n + 1) \in Seq(Nat) /\ Len(Enqueued(p, n + 1)) <= QueueCap
<1>1. p \in Seq(Nat) /\ n + 1 \in Nat /\ QueueCap \in Nat \ {0}
  <2>1. QueueCap \in Nat \ {0}
    BY DirectChatAssumption
  <2>2. QED
    BY <2>1 DEF Ordered, Typed
<1>2. CASE Len(p) >= QueueCap
  <2>1. /\ p # <<>> /\ Tail(p) \in Seq(Nat) /\ Len(Tail(p)) = Len(p) - 1
        /\ Len(p) = QueueCap
    BY <1>1, <1>2
  <2>2. Enqueued(p, n + 1) = Append(Tail(p), n + 1)
    BY <1>2 DEF Enqueued
  <2>3. Ordered(g, e, w, Tail(p), n)
    BY <2>1, OrderedDrop
  <2>4. Ordered(g, e, w, Append(Tail(p), n + 1), n + 1)
    BY <2>3, OrderedSend
  <2>5. /\ Append(Tail(p), n + 1) \in Seq(Nat)
        /\ Len(Append(Tail(p), n + 1)) <= QueueCap
    BY <1>1, <2>1
  <2>6. QED
    BY <2>2, <2>4, <2>5
<1>3. CASE ~(Len(p) >= QueueCap)
  <2>1. Enqueued(p, n + 1) = Append(p, n + 1)
    BY <1>3 DEF Enqueued
  <2>2. Ordered(g, e, w, Append(p, n + 1), n + 1)
    BY OrderedSend
  <2>3. Append(p, n + 1) \in Seq(Nat) /\ Len(Append(p, n + 1)) <= QueueCap
    BY <1>1, <1>3
  <2>4. QED
    BY <2>1, <2>2, <2>3
<1>4. QED
  BY <1>2, <1>3

(***************************************************************************)
(* Flushing moves the queue to the wire as a whole, or loses it, or leaves *)
(* it.                                                                     *)
(***************************************************************************)
LEMMA FlushKeeps ==
  ASSUME pending \in [Peers -> Seq(Nat)], wire \in [Peers -> Seq(Nat)],
         \A d \in Peers : Len(pending[d]) <= QueueCap,
         NEW c \in Peers, NEW q \in Seq(Nat), Len(q) <= QueueCap, NEW cn,
         Flush(c, q, cn)
  PROVE  /\ pending' \in [Peers -> Seq(Nat)] /\ wire' \in [Peers -> Seq(Nat)]
         /\ \A d \in Peers : Len(pending'[d]) <= QueueCap
         /\ pending'[Other(c)] = pending[Other(c)] /\ wire'[c] = wire[c]
         /\ \A g, e, n : Ordered(g, e, wire[Other(c)], q, n)
              => Ordered(g, e, wire'[Other(c)], pending'[c], n)
<1> DEFINE o == Other(c)
<1>1. o \in Peers /\ o # c
  BY TwoPeers
<1>2. QueueCap \in Nat \ {0}
  BY DirectChatAssumption
<1>3. CASE IsOpen(cn)
  <2>1. pending' = [pending EXCEPT ![c] = <<>>]
    BY <1>3 DEF Flush
  <2>2. wire' = [wire EXCEPT ![o] = @ \o q] \/ wire' = wire
    BY <1>3 DEF Flush
  <2> HIDE DEF o
  <2>3. <<>> \in Seq(Nat) /\ Len(<<>>) = 0 /\ wire[o] \o q \in Seq(Nat)
    BY <1>1
  <2>4. pending' \in [Peers -> Seq(Nat)] /\ pending'[o] = pending[o] /\ pending'[c] = <<>>
    BY <1>1, <2>1, <2>3
  <2>5. \A d \in Peers : Len(pending'[d]) <= QueueCap
    BY <1>2, <2>1, <2>3
  <2>6. /\ wire' \in [Peers -> Seq(Nat)] /\ wire'[c] = wire[c]
        /\ wire'[o] = wire[o] \o q \/ wire'[o] = wire[o]
    BY <1>1, <2>2, <2>3
  <2>7. ASSUME NEW g, NEW e, NEW n, Ordered(g, e, wire[o], q, n)
        PROVE  Ordered(g, e, wire'[o], pending'[c], n)
    <3>1. Ordered(g, e, wire[o] \o q, <<>>, n)
      BY <2>7, OrderedFlush
    <3>2. Ordered(g, e, wire[o], <<>>, n)
      BY <2>7, OrderedLose
    <3>3. QED
      BY <2>4, <2>6, <3>1, <3>2
  <2>8. QED
    BY <2>4, <2>5, <2>6, <2>7 DEF o
<1>4. CASE ~IsOpen(cn)
  <2>1. pending' = [pending EXCEPT ![c] = q] /\ wire' = wire
    BY <1>4 DEF Flush
  <2>2. pending' \in [Peers -> Seq(Nat)] /\ pending'[o] = pending[o] /\ pending'[c] = q
    BY <1>1, <2>1
  <2>3. \A d \in Peers : Len(pending'[d]) <= QueueCap
    BY <2>1
  <2>4. QED
    BY <2>1, <2>2, <2>3
<1>5. QED
  BY <1>3, <1>4

(***************************************************************************)
(* A text that is sent is the newest, and goes behind all others.           *)
(***************************************************************************)
LEMMA SendMessageKeeps ==
  ASSUME DirectInv, NEW c \in Peers, SendMessage(c)
  PROVE  DirectInv'
<1> DEFINE o == Other(c)
           n == sent[c]
           q == Enqueued(pending[c], n + 1)
<1>1. o \in Peers /\ o # c /\ Other(o) = c /\ Peers = {c, o}
  BY TwoPeers
<1>2. /\ pending \in [Peers -> Seq(Nat)] /\ wire \in [Peers -> Seq(Nat)]
      /\ \A d \in Peers : Len(pending[d]) <= QueueCap
      /\ sent \in [Peers -> Nat] /\ got \in [Peers -> Seq(Nat)]
  BY DEF DirectInv, QueueOK
<1>3. /\ sent' = [sent EXCEPT ![c] = n + 1] /\ sent'[c] = n + 1
      /\ UNCHANGED <<roomVars, got>>
  BY <1>2 DEF SendMessage
<1>4. /\ Ordered(got[o], events[o], wire[o], pending[c], n)
      /\ Ordered(got[c], events[c], wire[c], pending[o], sent[o])
  BY <1>1 DEF DirectInv, InOrder
<1>5. CASE knows[c]
  <2>1. Ensure(c) /\ Flush(c, q, conn[c])
    BY <1>3, <1>5 DEF SendMessage
  <2>2. RtcOK' /\ pcs <= pcs' /\ EventsQuiet
    BY <2>1, EnsureKeeps DEF DirectInv
  <2>3. Ordered(got[o], events[o], wire[o], q, n + 1) /\ q \in Seq(Nat) /\ Len(q) <= QueueCap
    BY <1>2, <1>4, EnqueuedKeeps
  <2> HIDE DEF q, n, o
  <2>4. /\ pending' \in [Peers -> Seq(Nat)] /\ wire' \in [Peers -> Seq(Nat)]
        /\ \A d \in Peers : Len(pending'[d]) <= QueueCap
        /\ pending'[o] = pending[o] /\ wire'[c] = wire[c]
        /\ Ordered(got[o], events[o], wire'[o], pending'[c], n + 1)
    BY <1>2, <2>1, <2>3, FlushKeeps DEF o
  <2>5. Ordered(got[o], events'[o], wire'[o], pending'[c], n + 1)
    BY <1>1, <2>2, <2>4, OrderedQuiet DEF EventsQuiet
  <2>6. Ordered(got[c], events'[c], wire'[c], pending'[o], sent[o])
    <3>1. Quietly(events[c], events'[c])
      BY <2>2 DEF EventsQuiet
    <3>2. Ordered(got[c], events'[c], wire[c], pending[o], sent[o])
      BY <1>4, <3>1, OrderedQuiet
    <3>3. QED
      BY <2>4, <3>2
  <2>7. sent' \in [Peers -> Nat] /\ sent'[o] = sent[o]
    BY <1>1, <1>2, <1>3 DEF n
  <2>8. InOrder'
    <3>1. \A d \in Peers : d = c \/ d = o
      BY <1>1
    <3>2. \A d \in Peers :
            Ordered(got'[d], events'[d], wire'[d], pending'[Other(d)], sent'[Other(d)])
      BY <1>1, <1>3, <2>5, <2>6, <2>7, <3>1 DEF o
    <3>3. QED
      BY <3>2 DEF InOrder
  <2>9. QueueOK'
    BY <1>2, <1>3, <2>4, <2>7 DEF QueueOK
  <2>10. InboxOK'
    <3>1. \A s \in Seq(Signal) : UpTo(s, pcs) => UpTo(s, pcs')
      BY <2>2, UpToLater DEF DirectInv, RtcOK
    <3>2. QED
      BY <1>3, <3>1 DEF DirectInv, InboxOK, roomVars
  <2>11. RoomOK'
    BY <1>3 DEF DirectInv, RoomOK, roomVars, SendMessage
  <2>12. QED
    BY <2>2, <2>8, <2>9, <2>10, <2>11 DEF DirectInv
<1>6. CASE ~knows[c]
  <2>1. UNCHANGED <<pcs, conn, events, pending, wire>>
    BY <1>6 DEF SendMessage
  <2>2. RoomOK' /\ InboxOK' /\ RtcOK'
    BY <1>3, <2>1 DEF DirectInv, RoomOK, InboxOK, RtcOK, roomVars, SendMessage
  <2>3. Ordered(got[o], events[o], wire[o], pending[c], n + 1)
    BY <1>4, OrderedSend
  <2> HIDE DEF n, o
  <2>4. sent' \in [Peers -> Nat] /\ sent'[o] = sent[o]
    BY <1>1, <1>2, <1>3 DEF n
  <2>5. QueueOK'
    BY <1>2, <1>3, <2>1, <2>4 DEF QueueOK
  <2>6. InOrder'
    <3>1. \A d \in Peers : d = c \/ d = o
      BY <1>1
    <3>2. \A d \in Peers :
            Ordered(got'[d], events'[d], wire'[d], pending'[Other(d)], sent'[Other(d)])
      BY <1>1, <1>3, <1>4, <2>1, <2>3, <2>4, <3>1 DEF o
    <3>3. QED
      BY <3>2 DEF InOrder
  <2>7. QED
    BY <2>2, <2>5, <2>6 DEF DirectInv
<1>7. QED
  BY <1>5, <1>6

-----------------------------------------------------------------------------
(* The event loop.                                                         *)

(***************************************************************************)
(* The first event of c has run, which may have changed its connection.    *)
(***************************************************************************)
LEMMA EventTaken ==
  ASSUME DirectInv, NEW c \in Peers, events[c] # <<>>,
         events' = [events EXCEPT ![c] = Tail(@)],
         ConnUpTo(conn'[c], pcs), conn' \in [Peers -> Connection],
         \A d \in Peers : d # c => conn'[d] = conn[d],
         UNCHANGED <<pcs, sent>>, UNCHANGED <<online, knows, joined, localId, crashed>>
  PROVE  /\ RoomOK' /\ RtcOK'
         /\ Head(events[c]) \in Event
         /\ Head(events[c]).type \in Numbered => Head(events[c]).pc <= pcs
<1>1. /\ events[c] \in Seq(Event) /\ UpTo(events[c], pcs)
      /\ events \in [Peers -> Seq(Event)]
  BY DEF DirectInv, RtcOK
<1>2. /\ Head(events[c]) \in Event
      /\ Head(events[c]).type \in Numbered => Head(events[c]).pc <= pcs
      /\ Tail(events[c]) \in Seq(Event) /\ UpTo(Tail(events[c]), pcs)
  BY <1>1, UpToTail
<1>3. RtcOK'
  <2>1. /\ events' \in [Peers -> Seq(Event)]
        /\ \A d \in Peers : UpTo(events'[d], pcs)
    BY <1>1, <1>2 DEF DirectInv, RtcOK
  <2>2. \A d \in Peers : ConnUpTo(conn'[d], pcs)
    BY DEF DirectInv, RtcOK
  <2>3. QED
    BY <2>1, <2>2 DEF DirectInv, RtcOK
<1>4. RoomOK'
  BY DEF DirectInv, RoomOK
<1>5. QED
  BY <1>2, <1>3, <1>4

(***************************************************************************)
(* A signal is passed on.                                                  *)
(***************************************************************************)
LEMMA RelayKeeps ==
  ASSUME InboxOK, NEW c \in Peers, NEW m \in Signal, m.type \in Numbered => m.pc <= pcs,
         Relay(c, m), UNCHANGED pcs
  PROVE  InboxOK'
<1>1. Other(c) \in Peers
  BY TwoPeers
<1>2. CASE Peers \subseteq online
  <2>1. inbox' = [inbox EXCEPT ![Other(c)] = Append(@, m)]
    BY <1>2 DEF Relay, Tell
  <2>2. /\ Append(inbox[Other(c)], m) \in Seq(Signal)
        /\ UpTo(Append(inbox[Other(c)], m), pcs)
    BY <1>1, UpToAppend DEF InboxOK
  <2>3. QED
    BY <1>1, <2>1, <2>2 DEF InboxOK
<1>3. CASE ~(Peers \subseteq online)
  BY <1>3 DEF Relay, InboxOK
<1>4. QED
  BY <1>2, <1>3

(***************************************************************************)
(* A posted callback keeps types and order: a text is shown, or the queue   *)
(* is flushed to the wire, which is where its texts come next.              *)
(***************************************************************************)
LEMMA OnEventKeeps ==
  ASSUME DirectInv, NEW c \in Peers, OnEvent(c)
  PROVE  DirectInv'
<1> DEFINE o == Other(c)
<1>1. PICK e : e = Head(events[c])
  OBVIOUS
<1>2. /\ events[c] # <<>> /\ events' = [events EXCEPT ![c] = Tail(@)]
      /\ UNCHANGED <<pcs, sent>>
      /\ UNCHANGED <<online, knows, joined, localId, crashed>>
  BY DEF OnEvent
<1>3. /\ pcs \in Nat /\ conn \in [Peers -> Connection]
      /\ events \in [Peers -> Seq(Event)]
      /\ \A d \in Peers : ConnUpTo(conn[d], pcs)
      /\ pending \in [Peers -> Seq(Nat)] /\ wire \in [Peers -> Seq(Nat)]
      /\ \A d \in Peers : Len(pending[d]) <= QueueCap
      /\ sent \in [Peers -> Nat] /\ got \in [Peers -> Seq(Nat)]
  BY DEF DirectInv, RtcOK, QueueOK
<1>4. o \in Peers /\ o # c /\ Other(o) = c /\ Peers = {c, o}
  BY TwoPeers
<1>5. events'[c] = Tail(events[c]) /\ events'[o] = events[o]
  BY <1>2, <1>3, <1>4
<1>6. /\ Ordered(got[o], events[o], wire[o], pending[c], sent[c])
      /\ Ordered(got[c], events[c], wire[c], pending[o], sent[o])
  BY <1>4 DEF DirectInv, InOrder
<1>7. Ordered(got[c], Tail(events[c]), wire[c], pending[o], sent[o])
  BY <1>2, <1>6, OrderedRun
<1>8. e \in Event /\ (e.type \in Numbered => e.pc <= pcs)
  BY <1>1, <1>2, UpToTail DEF DirectInv, RtcOK
<1> HIDE DEF o
<1>9. CASE /\ e.type \in {"offer", "answer"} /\ Relay(c, e)
           /\ UNCHANGED <<conn, wire, pending, got>>
  <2>1. RoomOK' /\ RtcOK'
    BY <1>2, <1>3, <1>9, EventTaken
  <2>2. InboxOK'
    <3>1. e \in Signal
      BY <1>8, <1>9 DEF Event, Signal
    <3>2. QED
      BY <1>2, <1>8, <1>9, <3>1, RelayKeeps DEF DirectInv
  <2>3. QueueOK'
    BY <1>2, <1>9 DEF DirectInv, QueueOK
  <2>4. InOrder'
    <3>1. \A d \in Peers : d = c \/ d = o
      BY <1>4
    <3>2. \A d \in Peers :
            Ordered(got'[d], events'[d], wire'[d], pending'[Other(d)], sent'[Other(d)])
      BY <1>2, <1>4, <1>5, <1>6, <1>7, <1>9, <3>1 DEF o
    <3>3. QED
      BY <3>2 DEF InOrder
  <2>5. QED
    BY <2>1, <2>2, <2>3, <2>4 DEF DirectInv
<1>10. CASE /\ e.type = "incoming"
            /\ conn' = IF Exists(c) THEN [conn EXCEPT ![c].dc = e.pc] ELSE conn
            /\ UNCHANGED <<inbox, wire, pending, got>>
  <2>1. /\ ConnUpTo(conn'[c], pcs) /\ conn' \in [Peers -> Connection]
        /\ \A d \in Peers : d # c => conn'[d] = conn[d]
    <3>1. CASE Exists(c)
      <4> DEFINE k == [conn[c] EXCEPT !.dc = e.pc]
      <4>1. conn' = [conn EXCEPT ![c] = k]
        BY <1>10, <3>1
      <4>2. e.pc \in Nat /\ e.pc <= pcs
        BY <1>8, <1>10 DEF Event, Numbered
      <4>3. ConnUpTo(conn[c], pcs) /\ conn[c].pc # 0
        BY <1>3, <3>1 DEF Exists
      <4>4. ConnUpTo(k, pcs) /\ k \in Connection
        BY <4>2, <4>3 DEF ConnUpTo, Connection
      <4> HIDE DEF k
      <4>5. QED
        BY <1>3, <4>1, <4>4
    <3>2. CASE ~Exists(c)
      BY <1>3, <1>10, <3>2
    <3>3. QED
      BY <3>1, <3>2
  <2>2. RoomOK' /\ RtcOK'
    BY <1>2, <2>1, EventTaken
  <2>3. InboxOK' /\ QueueOK'
    BY <1>2, <1>10 DEF DirectInv, InboxOK, QueueOK
  <2>4. InOrder'
    <3>1. \A d \in Peers : d = c \/ d = o
      BY <1>4
    <3>2. \A d \in Peers :
            Ordered(got'[d], events'[d], wire'[d], pending'[Other(d)], sent'[Other(d)])
      BY <1>2, <1>4, <1>5, <1>6, <1>7, <1>10, <3>1 DEF o
    <3>3. QED
      BY <3>2 DEF InOrder
  <2>5. QED
    BY <2>2, <2>3, <2>4 DEF DirectInv
<1>11. CASE /\ e.type = "opened" /\ Flush(c, pending[c], conn[c])
            /\ UNCHANGED <<inbox, conn, got>>
  <2>1. RoomOK' /\ RtcOK'
    BY <1>2, <1>3, <1>11, EventTaken
  <2>2. /\ pending' \in [Peers -> Seq(Nat)] /\ wire' \in [Peers -> Seq(Nat)]
        /\ \A d \in Peers : Len(pending'[d]) <= QueueCap
        /\ pending'[o] = pending[o] /\ wire'[c] = wire[c]
        /\ Ordered(got[o], events[o], wire'[o], pending'[c], sent[c])
    <3>1. pending[c] \in Seq(Nat) /\ Len(pending[c]) <= QueueCap
      BY <1>3
    <3>2. QED
      BY <1>3, <1>6, <1>11, <3>1, FlushKeeps DEF o
  <2>3. InboxOK' /\ QueueOK'
    BY <1>2, <1>3, <1>11, <2>2 DEF DirectInv, InboxOK, QueueOK
  <2>4. InOrder'
    <3>1. \A d \in Peers : d = c \/ d = o
      BY <1>4
    <3>2. \A d \in Peers :
            Ordered(got'[d], events'[d], wire'[d], pending'[Other(d)], sent'[Other(d)])
      BY <1>2, <1>4, <1>5, <1>7, <1>11, <2>2, <3>1 DEF o
    <3>3. QED
      BY <3>2 DEF InOrder
  <2>5. QED
    BY <2>1, <2>3, <2>4 DEF DirectInv
<1>12. CASE /\ e.type = "message"
            /\ got' = IF knows[c] THEN [got EXCEPT ![c] = Append(@, e.text)] ELSE got
            /\ UNCHANGED <<inbox, conn, wire, pending>>
  <2>1. RoomOK' /\ RtcOK'
    BY <1>2, <1>3, <1>12, EventTaken
  <2>2. e.text \in Nat
    BY <1>8, <1>12 DEF Event
  <2>3. /\ got' \in [Peers -> Seq(Nat)] /\ got'[o] = got[o]
        /\ got'[c] = got[c] \/ got'[c] = Append(got[c], e.text)
    <3>1. Append(got[c], e.text) \in Seq(Nat)
      BY <1>3, <2>2
    <3>2. QED
      BY <1>3, <1>4, <1>12, <3>1
  <2>4. InboxOK' /\ QueueOK'
    BY <1>2, <1>3, <1>12, <2>3 DEF DirectInv, InboxOK, QueueOK
  <2>5. Ordered(Append(got[c], e.text), Tail(events[c]), wire[c], pending[o], sent[o])
    BY <1>1, <1>2, <1>6, <1>12, OrderedRun
  <2>6. Ordered(got'[c], Tail(events[c]), wire[c], pending[o], sent[o])
    BY <1>7, <2>3, <2>5
  <2>7. InOrder'
    <3>1. \A d \in Peers : d = c \/ d = o
      BY <1>4
    <3>2. \A d \in Peers :
            Ordered(got'[d], events'[d], wire'[d], pending'[Other(d)], sent'[Other(d)])
      BY <1>2, <1>4, <1>5, <1>6, <1>12, <2>3, <2>6, <3>1 DEF o
    <3>3. QED
      BY <3>2 DEF InOrder
  <2>8. QED
    BY <2>1, <2>4, <2>7 DEF DirectInv
<1>13. QED
  BY <1>1, <1>9, <1>10, <1>11, <1>12 DEF OnEvent

-----------------------------------------------------------------------------
(* The theorems.                                                           *)

(***************************************************************************)
(* Nothing is on its way at the start.                                      *)
(***************************************************************************)
LEMMA InitDirectInv == Init => DirectInv
<1> SUFFICES ASSUME Init PROVE DirectInv
  OBVIOUS
<1>1. RoomOK
  BY DEF Init, RoomOK
<1>2. InboxOK
  BY UpToEmpty DEF Init, InboxOK
<1>3. RtcOK
  <2>1. ConnUpTo(NoConn, 0)
    BY DEF NoConn, ConnUpTo, Connection
  <2>2. NoConn \in Connection
    BY <2>1 DEF ConnUpTo
  <2>3. QED
    BY <2>1, <2>2, UpToEmpty DEF Init, RtcOK
<1>4. QueueOK
  <2>1. <<>> \in Seq(Nat) /\ Len(<<>>) = 0
    OBVIOUS
  <2>2. QueueCap \in Nat \ {0}
    BY DirectChatAssumption
  <2>3. QED
    BY <2>1, <2>2 DEF Init, QueueOK
<1>5. InOrder
  <2>1. <<>> \in Seq(Event) /\ EventsIncreasing(<<>>) /\ Posted(<<>>) = {}
    BY DEF EventsIncreasing, Posted
  <2>2. Ordered(<<>>, <<>>, <<>>, <<>>, 0)
    BY <2>1, NoTexts DEF Ordered, Typed, Before
  <2>3. \A c \in Peers : Other(c) \in Peers
    BY TwoPeers
  <2>4. QED
    BY <2>2, <2>3 DEF Init, InOrder
<1>6. QED
  BY <1>1, <1>2, <1>3, <1>4, <1>5 DEF DirectInv

(***************************************************************************)
(* DirectInv is inductive.                                                  *)
(***************************************************************************)
LEMMA NextDirectInv == DirectInv /\ [Next]_vars => DirectInv'
<1> SUFFICES ASSUME DirectInv, [Next]_vars PROVE DirectInv'
  OBVIOUS
<1>1. CASE UNCHANGED vars
  BY <1>1 DEF vars, roomVars, rtcVars, history, DirectInv, RoomOK, InboxOK,
              RtcOK, QueueOK, InOrder
<1>2. ASSUME NEW c \in Peers, Join(c) PROVE DirectInv'
  BY <1>2, JoinKeeps
<1>3. ASSUME NEW c \in Peers, Disconnect(c) PROVE DirectInv'
  BY <1>3, DisconnectKeeps
<1>4. ASSUME NEW c \in Peers, NEW id \in ForeignIds, JoinOther(c, id) PROVE DirectInv'
  BY <1>4, JoinOtherKeeps
<1>5. ASSUME NEW c \in Peers, OnMessage(c) PROVE DirectInv'
  BY <1>5, OnMessageKeeps
<1>6. ASSUME NEW c \in Peers, OnEvent(c) PROVE DirectInv'
  BY <1>6, OnEventKeeps
<1>7. ASSUME NEW c \in Peers, SendMessage(c) PROVE DirectInv'
  BY <1>7, SendMessageKeeps
<1>8. ASSUME NEW c \in Peers, Connect(c) PROVE DirectInv'
  BY <1>8, ConnectKeeps
<1>9. ASSUME NEW c \in Peers, NoticeClosed(c) PROVE DirectInv'
  BY <1>9, NoticeClosedKeeps
<1>10. ASSUME NEW c \in Peers, Arrive(c) PROVE DirectInv'
  BY <1>10, ArriveKeeps
<1>11. QED
  BY <1>1, <1>2, <1>3, <1>4, <1>5, <1>6, <1>7, <1>8, <1>9, <1>10 DEF Next

(***************************************************************************)
(* A client's queue keeps to its cap, its connections carry numbers that   *)
(* were given out, and without a connection there is no channel.           *)
(***************************************************************************)
THEOREM DirectTypes == Spec => []TypeOK
<1>1. DirectInv => TypeOK
  <2> SUFFICES ASSUME DirectInv PROVE TypeOK
    OBVIOUS
  <2>1. pcs \in Nat
    BY DEF DirectInv, RtcOK
  <2>2. \A k : k \in Connection /\ k.pc <= pcs /\ k.remote <= pcs /\ k.dc <= pcs
          => k \in [pc: 0..pcs, isInitiator: BOOLEAN, remote: 0..pcs,
                    dc: 0..pcs, state: {"none", "new", "open", "closed"}]
    BY <2>1 DEF Connection
  <2>3. \A c \in Peers :
          /\ conn[c] \in [pc: 0..pcs, isInitiator: BOOLEAN, remote: 0..pcs,
                          dc: 0..pcs, state: {"none", "new", "open", "closed"}]
          /\ ~Exists(c) => conn[c] = NoConn
    BY <2>2 DEF DirectInv, RtcOK, ConnUpTo, Exists
  <2>4. \A c \in Peers : Len(pending[c]) <= QueueCap
    BY DEF DirectInv, QueueOK
  <2>5. QED
    BY <2>3, <2>4 DEF TypeOK, DirectInv, RoomOK
<1>2. QED
  BY <1>1, InitDirectInv, NextDirectInv, PTL DEF Spec

(***************************************************************************)
(* What a user is shown comes in the order it was sent in and only once,   *)
(* for any number of messages, joins and troubles: through offers that     *)
(* cross, connections that are lost with what was on them, queues that     *)
(* overflow and peer ids that are confused between rooms.                  *)
(***************************************************************************)
THEOREM DirectMessagesInOrder == Spec => []ShownInOrder
<1>1. DirectInv => ShownInOrder
  BY DEF DirectInv, InOrder, Ordered, Increasing, ShownInOrder
<1>2. QED
  BY <1>1, InitDirectInv, NextDirectInv, PTL DEF Spec

-----------------------------------------------------------------------------
(* Offers that cross.                                                      *)

Has(s, m) == \E i \in DOMAIN s : s[i] = m

IsAnswer(m) == m.type = "answer"

HasAnswer(s) == \E i \in DOMAIN s : IsAnswer(s[i])

OneAnswer(s) == \A i, j \in DOMAIN s : IsAnswer(s[i]) /\ IsAnswer(s[j]) => i = j

\* c has made m and the other has not handled it.
InTransit(c, m) == Has(events[c], m) \/ Has(inbox[Other(c)], m)

\* Of answers there is one at most on the way.
OneAnswerFrom(c) ==
  /\ OneAnswer(events[c]) /\ OneAnswer(inbox[Other(c)])
  /\ ~(HasAnswer(events[c]) /\ HasAnswer(inbox[Other(c)]))

\* c has made the offer of its connection pc and has no answer.
Waits(c, pc) ==
  pc # 0 /\ conn[c].pc = pc /\ conn[c].isInitiator /\ conn[c].remote = 0

\* c has a connection it does not give up for an offer.
Holds(c) == Exists(c) /\ (~conn[c].isInitiator \/ Other(c) < c)

\* An offer on its way is one that the other will not take, or that of a
\* connection that waits for the answer.
OffersLive ==
  \A c \in Peers : \A m :
    InTransit(c, m) /\ m.type = "offer" => Holds(Other(c)) \/ Waits(c, m.pc)

\* An answer on its way is from a connection made for an offer, and to the
\* connection of that offer, which waits for it.
AnswersMeet ==
  \A c \in Peers : \A m :
    InTransit(c, m) /\ IsAnswer(m)
      => Exists(c) /\ ~conn[c].isInitiator /\ Waits(Other(c), m.to)

\* Who has a connection, or knows of the other, knows its own id, of which it
\* is told before anything else. Nobody leaves.
IdsKnown ==
  \A c \in Peers :
    /\ c \notin online => inbox[c] = <<>> /\ ~knows[c] /\ ~Exists(c) /\ ~joined[c]
    /\ knows[c] \/ Exists(c) \/ joined[c] => localId[c] = c
    /\ c \in online => \/ localId[c] = c
                       \/ inbox[c] # <<>> /\ Head(inbox[c]).type = "joined"
    /\ \A m : Has(inbox[c], m) => m.type # "peer-left"

GlareOK ==
  OffersLive /\ AnswersMeet /\ \A c \in Peers : OneAnswerFrom(c)

GlareInv == DirectInv /\ GlareOK /\ IdsKnown /\ crashed = {}

(***************************************************************************)
(* What a sequence holds when one is added at its end.                     *)
(***************************************************************************)
LEMMA HasAppend ==
  ASSUME NEW S, NEW s \in Seq(S), NEW x \in S
  PROVE  /\ \A m : Has(Append(s, x), m) <=> Has(s, m) \/ m = x
         /\ HasAnswer(Append(s, x)) <=> HasAnswer(s) \/ IsAnswer(x)
         /\ OneAnswer(s) /\ ~(HasAnswer(s) /\ IsAnswer(x)) => OneAnswer(Append(s, x))
<1>1. /\ DOMAIN Append(s, x) = DOMAIN s \cup {Len(s) + 1}
      /\ \A i \in DOMAIN s : Append(s, x)[i] = s[i]
      /\ Append(s, x)[Len(s) + 1] = x
  OBVIOUS
<1>2. \A m : Has(Append(s, x), m) <=> Has(s, m) \/ m = x
  BY <1>1 DEF Has
<1>3. HasAnswer(Append(s, x)) <=> HasAnswer(s) \/ IsAnswer(x)
  BY <1>1 DEF HasAnswer
<1>4. OneAnswer(s) /\ ~(HasAnswer(s) /\ IsAnswer(x)) => OneAnswer(Append(s, x))
  BY <1>1 DEF HasAnswer, OneAnswer
<1>5. QED
  BY <1>2, <1>3, <1>4

(***************************************************************************)
(* The same when its first is taken off.                                   *)
(***************************************************************************)
LEMMA HasTail ==
  ASSUME NEW S, NEW s \in Seq(S), s # <<>>
  PROVE  /\ \A m : Has(Tail(s), m) => Has(s, m)
         /\ Has(s, Head(s))
         /\ HasAnswer(Tail(s)) => HasAnswer(s)
         /\ IsAnswer(Head(s)) => HasAnswer(s)
         /\ OneAnswer(s) => OneAnswer(Tail(s))
         /\ OneAnswer(s) /\ IsAnswer(Head(s)) => ~HasAnswer(Tail(s))
<1>1. /\ Head(s) = s[1] /\ 1 \in DOMAIN s
      /\ \A i \in DOMAIN Tail(s) :
           i \in Nat \ {0} /\ i + 1 \in DOMAIN s /\ Tail(s)[i] = s[i + 1]
  OBVIOUS
<1>2. (\A m : Has(Tail(s), m) => Has(s, m)) /\ Has(s, Head(s))
  BY <1>1 DEF Has
<1>3. /\ HasAnswer(Tail(s)) => HasAnswer(s)
      /\ IsAnswer(Head(s)) => HasAnswer(s)
  BY <1>1 DEF HasAnswer
<1>4. OneAnswer(s) => OneAnswer(Tail(s))
  BY <1>1 DEF OneAnswer
<1>5. OneAnswer(s) /\ IsAnswer(Head(s)) => ~HasAnswer(Tail(s))
  BY <1>1 DEF OneAnswer, HasAnswer
<1>6. QED
  BY <1>2, <1>3, <1>4, <1>5

(***************************************************************************)
(* An empty queue has no message and no answer.                             *)
(***************************************************************************)
LEMMA HasNone == (\A m : ~Has(<<>>, m)) /\ ~HasAnswer(<<>>) /\ OneAnswer(<<>>)
  BY DEF Has, HasAnswer, OneAnswer

(***************************************************************************)
(* A queue has an answer if a message in it is one.                         *)
(***************************************************************************)
LEMMA HasAnswerMeans == \A s : HasAnswer(s) <=> \E m : Has(s, m) /\ IsAnswer(m)
  BY DEF Has, HasAnswer

-----------------------------------------------------------------------------

\* What offers and answers meet is as it was.
CoreSame ==
  \A d \in Peers : /\ conn'[d].pc = conn[d].pc /\ conn'[d].remote = conn[d].remote
                   /\ conn'[d].isInitiator = conn[d].isInitiator

\* No offer and no answer is made.
NoneMade ==
  \A d \in Peers : \A m :
    InTransit(d, m)' /\ m.type \in {"offer", "answer"} => InTransit(d, m)

OneAnswerEach == \A d \in Peers : OneAnswerFrom(d)

(***************************************************************************)
(* A step that makes no offer and no answer and leaves the descriptions of *)
(* the connections as they are disturbs nothing.                           *)
(***************************************************************************)
LEMMA GlareKept ==
  ASSUME GlareOK, CoreSame, NoneMade, OneAnswerEach'
  PROVE  GlareOK'
<1>1. \A d \in Peers : Other(d) \in Peers
  BY TwoPeers
<1>2. \A d \in Peers : Exists(d)' <=> Exists(d)
  BY DEF CoreSame, Exists
<1>3. \A d \in Peers : Holds(d)' <=> Holds(d)
  BY <1>2 DEF CoreSame, Holds
<1>4. \A d \in Peers : \A n : Waits(d, n)' <=> Waits(d, n)
  BY DEF CoreSame, Waits
<1>5. OffersLive'
  <2> SUFFICES ASSUME NEW d \in Peers, NEW m, InTransit(d, m)', m.type = "offer"
               PROVE  Holds(Other(d))' \/ Waits(d, m.pc)'
    BY DEF OffersLive
  <2>1. InTransit(d, m)
    BY DEF NoneMade
  <2>2. Holds(Other(d)) \/ Waits(d, m.pc)
    BY <2>1 DEF GlareOK, OffersLive
  <2>3. QED
    BY <1>1, <1>3, <1>4, <2>2
<1>6. AnswersMeet'
  <2> SUFFICES ASSUME NEW d \in Peers, NEW m, InTransit(d, m)', IsAnswer(m)
               PROVE  Exists(d)' /\ ~conn'[d].isInitiator /\ Waits(Other(d), m.to)'
    BY DEF AnswersMeet
  <2>1. InTransit(d, m)
    BY DEF NoneMade, IsAnswer
  <2>2. Exists(d) /\ ~conn[d].isInitiator /\ Waits(Other(d), m.to)
    BY <2>1 DEF GlareOK, AnswersMeet
  <2>3. QED
    BY <1>1, <1>2, <1>4, <2>2 DEF CoreSame
<1>7. QED
  BY <1>5, <1>6 DEF GlareOK, OneAnswerEach

\* t has no offer, and no more answers, than s.
Dull(s, t) ==
  /\ \A m : Has(t, m) /\ m.type \in {"offer", "answer"} => Has(s, m)
  /\ OneAnswer(s) => OneAnswer(t)
  /\ HasAnswer(t) => HasAnswer(s)

(***************************************************************************)
(* What a sequence may go through without an offer or an answer being made.*)
(***************************************************************************)
LEMMA DullKinds ==
  ASSUME NEW S, NEW s \in Seq(S)
  PROVE  /\ Dull(s, s) /\ Dull(s, <<>>)
         /\ s # <<>> => Dull(s, Tail(s))
         /\ \A x \in S : x.type \notin {"offer", "answer"} => Dull(s, Append(s, x))
<1>1. Dull(s, s) /\ Dull(s, <<>>)
  BY HasNone DEF Dull
<1>2. s # <<>> => Dull(s, Tail(s))
  BY HasTail DEF Dull
<1>3. ASSUME NEW x \in S, x.type \notin {"offer", "answer"}
      PROVE  Dull(s, Append(s, x))
  <2>1. ~IsAnswer(x)
    BY <1>3 DEF IsAnswer
  <2>2. QED
    BY <1>3, <2>1, HasAppend DEF Dull
<1>4. QED
  BY <1>1, <1>2, <1>3

(***************************************************************************)
(* Steps that queue neither offers nor answers make none.                   *)
(***************************************************************************)
LEMMA DullStep ==
  ASSUME OneAnswerEach,
         \A d \in Peers : Dull(events[d], events'[d]) /\ Dull(inbox[d], inbox'[d])
  PROVE  NoneMade /\ OneAnswerEach'
<1>1. \A d \in Peers : Other(d) \in Peers
  BY TwoPeers
<1>2. NoneMade
  BY <1>1 DEF NoneMade, InTransit, Dull
<1>3. OneAnswerEach'
  BY <1>1 DEF OneAnswerEach, OneAnswerFrom, Dull
<1>4. QED
  BY <1>2, <1>3

(***************************************************************************)
(* Such a step, with the connections' descriptions as they are.            *)
(***************************************************************************)
LEMMA DullKeeps ==
  ASSUME GlareOK, CoreSame,
         \A d \in Peers : Dull(events[d], events'[d]) /\ Dull(inbox[d], inbox'[d])
  PROVE  GlareOK'
<1>1. OneAnswerEach
  BY DEF GlareOK, OneAnswerEach
<1>2. NoneMade /\ OneAnswerEach'
  BY <1>1, DullStep
<1>3. QED
  BY <1>2, GlareKept

(***************************************************************************)
(* A signal leaves the client for the other, or is dropped by the server.  *)
(***************************************************************************)
LEMMA RelayGlare ==
  ASSUME RtcOK, InboxOK, GlareOK, NEW c \in Peers, events[c] # <<>>,
         Head(events[c]) \in Signal, Relay(c, Head(events[c])),
         events' = [events EXCEPT ![c] = Tail(@)], UNCHANGED conn
  PROVE  GlareOK'
<1> DEFINE o == Other(c)
<1>1. PICK e : e = Head(events[c])
  OBVIOUS
<1>2. /\ o \in Peers /\ o # c /\ Other(o) = c /\ Peers = {c, o}
      /\ events[c] \in Seq(Event) /\ events \in [Peers -> Seq(Event)]
      /\ \A d \in Peers : events[d] \in Seq(Event) /\ inbox[d] \in Seq(Signal)
      /\ inbox \in [Peers -> Seq(Signal)]
  BY TwoPeers DEF RtcOK, InboxOK
<1>3. events'[c] = Tail(events[c]) /\ events'[o] = events[o]
  BY <1>2
<1>4. CoreSame /\ OneAnswerEach
  BY DEF CoreSame, GlareOK, OneAnswerEach
<1>5. CASE ~(Peers \subseteq online)
  <2>1. inbox' = inbox
    BY <1>5 DEF Relay
  <2>2. \A d \in Peers : Dull(inbox[d], inbox'[d])
    BY <1>2, <2>1, DullKinds
  <2>3. \A d \in Peers : Dull(events[d], events'[d])
    <3>1. Dull(events[c], events'[c])
      BY <1>2, <1>3, DullKinds
    <3>2. Dull(events[o], events'[o])
      BY <1>2, <1>3, DullKinds
    <3>3. QED
      BY <1>2, <3>1, <3>2
  <2>4. QED
    BY <1>4, <2>2, <2>3, DullKeeps
<1>6. CASE Peers \subseteq online
  <2>1. inbox' = [inbox EXCEPT ![o] = Append(@, e)]
    BY <1>1, <1>6 DEF Relay, Tell
  <2> HIDE DEF o
  <2>2. inbox'[o] = Append(inbox[o], e) /\ inbox'[c] = inbox[c]
    BY <1>2, <2>1
  <2>3. /\ \A m : Has(events'[c], m) => Has(events[c], m)
        /\ Has(events[c], e)
        /\ HasAnswer(events'[c]) => HasAnswer(events[c])
        /\ IsAnswer(e) => HasAnswer(events[c])
        /\ OneAnswer(events[c]) => OneAnswer(events'[c])
        /\ OneAnswer(events[c]) /\ IsAnswer(e) => ~HasAnswer(events'[c])
    BY <1>1, <1>2, <1>3, HasTail
  <2>4. /\ \A m : Has(inbox'[o], m) <=> Has(inbox[o], m) \/ m = e
        /\ HasAnswer(inbox'[o]) <=> HasAnswer(inbox[o]) \/ IsAnswer(e)
        /\ OneAnswer(inbox[o]) /\ ~(HasAnswer(inbox[o]) /\ IsAnswer(e))
             => OneAnswer(inbox'[o])
    <3>1. inbox[o] \in Seq(Signal) /\ e \in Signal
      BY <1>1, <1>2
    <3>2. QED
      BY <2>2, <3>1, HasAppend
  <2>5. NoneMade
    <3>1. \A m : InTransit(c, m)' => InTransit(c, m)
      BY <2>3, <2>4 DEF InTransit, o
    <3>2. \A m : InTransit(o, m)' => InTransit(o, m)
      BY <1>2, <1>3, <2>2 DEF InTransit
    <3>3. QED
      BY <1>2, <3>1, <3>2 DEF NoneMade
  <2>6. OneAnswerEach'
    <3>1. OneAnswerFrom(c)'
      <4>1. /\ OneAnswer(events[c]) /\ OneAnswer(inbox[o])
            /\ ~(HasAnswer(events[c]) /\ HasAnswer(inbox[o]))
        BY <1>4 DEF OneAnswerEach, OneAnswerFrom, o
      <4>2. /\ OneAnswer(events'[c]) /\ OneAnswer(inbox'[o])
            /\ ~(HasAnswer(events'[c]) /\ HasAnswer(inbox'[o]))
        BY <2>3, <2>4, <4>1
      <4>3. QED
        BY <4>2 DEF OneAnswerFrom, o
    <3>2. OneAnswerFrom(o)'
      BY <1>2, <1>3, <1>4, <2>2 DEF OneAnswerEach, OneAnswerFrom
    <3>3. QED
      BY <1>2, <3>1, <3>2 DEF OneAnswerEach
  <2>7. QED
    BY <1>4, <2>5, <2>6, GlareKept
<1>7. QED
  BY <1>5, <1>6

(***************************************************************************)
(* A connection is begun: there was none, so no answer is on its way.      *)
(***************************************************************************)
LEMMA InitiateGlare ==
  ASSUME RtcOK, InboxOK, GlareOK, NEW c \in Peers, ~Exists(c), Initiate(c),
         \A d \in Peers : Dull(inbox[d], inbox'[d])
  PROVE  GlareOK'
<1> DEFINE o == Other(c)
           x == Offer(pcs + 1)
<1>1. /\ o \in Peers /\ o # c /\ Other(o) = c /\ Peers = {c, o}
      /\ events[c] \in Seq(Event) /\ events \in [Peers -> Seq(Event)]
      /\ pcs \in Nat /\ conn \in [Peers -> Connection]
  BY TwoPeers DEF RtcOK, InboxOK
<1>2. x \in Event /\ x.type = "offer" /\ x.pc = pcs + 1 /\ ~IsAnswer(x)
  BY <1>1 DEF Offer, Event, IsAnswer
<1>3. /\ conn'[c].pc = pcs + 1 /\ conn'[c].isInitiator /\ conn'[c].remote = 0
      /\ conn'[o] = conn[o]
      /\ events'[c] = Append(events[c], x) /\ events'[o] = events[o]
  BY <1>1 DEF Initiate
<1> HIDE DEF o, x
<1>4. /\ \A m : Has(events'[c], m) <=> Has(events[c], m) \/ m = x
      /\ HasAnswer(events'[c]) <=> HasAnswer(events[c])
      /\ OneAnswer(events[c]) => OneAnswer(events'[c])
  BY <1>1, <1>2, <1>3, HasAppend
<1>5. \A d \in Peers : \A m : ~(InTransit(d, m) /\ IsAnswer(m))
  <2>1. \A m : ~(InTransit(c, m) /\ IsAnswer(m))
    BY DEF GlareOK, AnswersMeet
  <2>2. \A m : ~(InTransit(o, m) /\ IsAnswer(m))
    <3>1. \A n : ~Waits(c, n)
      BY DEF Waits, Exists
    <3>2. QED
      BY <1>1, <3>1 DEF GlareOK, AnswersMeet
  <2>3. QED
    BY <1>1, <2>1, <2>2
<1>6. \A m : InTransit(c, m)' /\ m.type \in {"offer", "answer"}
        => InTransit(c, m) \/ m = x
  BY <1>1, <1>4 DEF InTransit, Dull, o
<1>7. \A m : InTransit(o, m)' /\ m.type \in {"offer", "answer"} => InTransit(o, m)
  BY <1>1, <1>3 DEF InTransit, Dull
<1>8. AnswersMeet'
  BY <1>1, <1>2, <1>5, <1>6, <1>7 DEF AnswersMeet, IsAnswer
<1>9. OffersLive'
  <2>1. ASSUME NEW m, InTransit(c, m)', m.type = "offer"
        PROVE  Holds(o)' \/ Waits(c, m.pc)'
    <3>1. CASE m = x
      BY <1>1, <1>2, <1>3, <3>1 DEF Waits
    <3>2. CASE InTransit(c, m)
      <4>1. Holds(o) \/ Waits(c, m.pc)
        BY <2>1, <3>2 DEF GlareOK, OffersLive, o
      <4>2. Holds(o)
        BY <4>1 DEF Waits, Exists
      <4>3. QED
        BY <1>3, <4>2 DEF Holds, Exists
    <3>3. QED
      BY <1>6, <2>1, <3>1, <3>2
  <2>2. ASSUME NEW m, InTransit(o, m)', m.type = "offer"
        PROVE  Waits(o, m.pc)'
    <3>1. InTransit(o, m)
      BY <1>7, <2>2
    <3>2. Holds(c) \/ Waits(o, m.pc)
      BY <1>1, <2>2, <3>1 DEF GlareOK, OffersLive
    <3>3. Waits(o, m.pc)
      BY <3>2 DEF Holds
    <3>4. QED
      BY <1>3, <3>3 DEF Waits
  <2>3. QED
    BY <1>1, <2>1, <2>2 DEF OffersLive, o
<1>10. \A d \in Peers : OneAnswerFrom(d)'
  <2>1. \A d \in Peers : OneAnswer(events'[d]) /\ OneAnswer(inbox'[d])
    <3>1. OneAnswerFrom(c) /\ OneAnswerFrom(o)
      BY <1>1 DEF GlareOK
    <3>2. /\ OneAnswer(events[c]) /\ OneAnswer(events[o])
          /\ OneAnswer(inbox[c]) /\ OneAnswer(inbox[o])
      BY <1>1, <3>1 DEF OneAnswerFrom, o
    <3>3. OneAnswer(inbox'[c]) /\ OneAnswer(inbox'[o])
      BY <1>1, <3>2 DEF Dull
    <3>4. OneAnswer(events'[c]) /\ OneAnswer(events'[o])
      BY <1>3, <1>4, <3>2
    <3>5. QED
      BY <1>1, <3>3, <3>4
  <2>2. \A d \in Peers : ~HasAnswer(events[d])
    BY <1>5, HasAnswerMeans DEF InTransit
  <2>3. \A d \in Peers : ~HasAnswer(events'[d])
    <3>1. ~HasAnswer(events'[c]) /\ ~HasAnswer(events'[o])
      BY <1>1, <1>3, <1>4, <2>2
    <3>2. QED
      BY <1>1, <3>1
  <2>4. \A d \in Peers : Other(d) \in Peers
    BY TwoPeers
  <2>5. QED
    BY <2>1, <2>3, <2>4 DEF OneAnswerFrom
<1>11. QED
  BY <1>8, <1>9, <1>10 DEF GlareOK

(***************************************************************************)
(* An offer is taken: the connection that made it waits, and no answer is  *)
(* on its way in either direction.                                         *)
(***************************************************************************)
LEMMA ReceiveGlare ==
  ASSUME RtcOK, InboxOK, GlareOK, NEW c \in Peers, inbox[c] # <<>>,
         Head(inbox[c]).type = "offer", ~Holds(c), Receive(c, Head(inbox[c])),
         inbox' = [inbox EXCEPT ![c] = Tail(@)]
  PROVE  GlareOK'
<1> DEFINE o == Other(c)
<1>1. PICK k : k = Head(inbox[c])
  OBVIOUS
<1> DEFINE x == Answer(pcs + 1, k.pc)
<1>2. /\ o \in Peers /\ o # c /\ Other(o) = c /\ Peers = {c, o}
      /\ events[c] \in Seq(Event) /\ events \in [Peers -> Seq(Event)]
      /\ inbox[c] \in Seq(Signal) /\ inbox \in [Peers -> Seq(Signal)]
      /\ pcs \in Nat /\ conn \in [Peers -> Connection]
      /\ \A d \in Peers : Other(d) \in Peers
  BY TwoPeers DEF RtcOK, InboxOK
<1>3. k \in Signal /\ k.type = "offer" /\ k.pc \in Nat
  BY <1>1, <1>2 DEF Signal
<1>4. x \in Event /\ IsAnswer(x) /\ x.type = "answer" /\ x.to = k.pc
  BY <1>2, <1>3 DEF Answer, Event, IsAnswer
<1>5. /\ conn'[c].pc = pcs + 1 /\ ~conn'[c].isInitiator /\ conn'[o] = conn[o]
      /\ events'[c] = Append(events[c], x) /\ events'[o] = events[o]
      /\ inbox'[c] = Tail(inbox[c]) /\ inbox'[o] = inbox[o]
  BY <1>1, <1>2 DEF Receive
<1> HIDE DEF o, x
<1>6. /\ \A m : Has(events'[c], m) <=> Has(events[c], m) \/ m = x
      /\ HasAnswer(events'[c]) <=> HasAnswer(events[c]) \/ IsAnswer(x)
      /\ OneAnswer(events[c]) /\ ~(HasAnswer(events[c]) /\ IsAnswer(x))
           => OneAnswer(events'[c])
  BY <1>2, <1>4, <1>5, HasAppend
<1>7. /\ \A m : Has(inbox'[c], m) => Has(inbox[c], m)
      /\ Has(inbox[c], k)
      /\ HasAnswer(inbox'[c]) => HasAnswer(inbox[c])
  BY <1>1, <1>2, <1>5, HasTail
<1>8. Waits(o, k.pc)
  <2>1. InTransit(o, k)
    BY <1>2, <1>7 DEF InTransit
  <2>2. QED
    BY <1>2, <1>3, <2>1 DEF GlareOK, OffersLive
<1>9. \A d \in Peers : \A m : ~(InTransit(d, m) /\ IsAnswer(m))
  <2>1. \A m : ~(InTransit(c, m) /\ IsAnswer(m))
    BY DEF GlareOK, AnswersMeet, Holds
  <2>2. \A m : ~(InTransit(o, m) /\ IsAnswer(m))
    BY <1>2, <1>8 DEF GlareOK, AnswersMeet, Waits
  <2>3. QED
    BY <1>2, <2>1, <2>2
<1>10. \A d \in Peers : ~HasAnswer(events[d]) /\ ~HasAnswer(inbox[d])
  <2>1. ~HasAnswer(events[c]) /\ ~HasAnswer(inbox[o])
    BY <1>2, <1>9, HasAnswerMeans DEF InTransit, o
  <2>2. ~HasAnswer(events[o]) /\ ~HasAnswer(inbox[c])
    BY <1>2, <1>9, HasAnswerMeans DEF InTransit
  <2>3. QED
    BY <1>2, <2>1, <2>2
<1>11. \A m : InTransit(c, m)' => InTransit(c, m) \/ m = x
  BY <1>5, <1>6 DEF InTransit, o
<1>12. \A m : InTransit(o, m)' => InTransit(o, m)
  BY <1>2, <1>5, <1>7 DEF InTransit
<1>13. Exists(c)' /\ Holds(c)'
  BY <1>2, <1>5 DEF Exists, Holds
<1>14. AnswersMeet'
  <2>1. ASSUME NEW m, InTransit(c, m)', IsAnswer(m)
        PROVE  Exists(c)' /\ ~conn'[c].isInitiator /\ Waits(o, m.to)'
    <3>1. m = x
      BY <1>2, <1>9, <1>11, <2>1
    <3>2. Waits(o, k.pc)'
      BY <1>5, <1>8 DEF Waits
    <3>3. QED
      BY <1>4, <1>5, <1>13, <3>1, <3>2
  <2>2. ASSUME NEW m, InTransit(o, m)', IsAnswer(m)
        PROVE  FALSE
    BY <1>2, <1>9, <1>12, <2>2
  <2>3. QED
    BY <1>2, <2>1, <2>2 DEF AnswersMeet, o
<1>15. OffersLive'
  <2>1. ASSUME NEW m, InTransit(c, m)', m.type = "offer"
        PROVE  Holds(o)'
    <3>1. InTransit(c, m)
      BY <1>4, <1>11, <2>1
    <3>2. Holds(o) \/ Waits(c, m.pc)
      BY <2>1, <3>1 DEF GlareOK, OffersLive, o
    <3>3. Holds(o)
      <4>1. CASE Holds(o)
        BY <4>1
      <4>2. CASE Waits(c, m.pc)
        <5>1. Exists(c) /\ conn[c].isInitiator /\ ~(o < c)
          BY <4>2 DEF Waits, Exists, Holds, o
        <5>2. c \in Nat /\ o \in Nat
          BY <1>2, DirectChatAssumption
        <5>3. c < o
          BY <1>2, <5>1, <5>2
        <5>4. QED
          BY <1>2, <1>8, <5>3 DEF Waits, Exists, Holds
      <4>3. QED
        BY <3>2, <4>1, <4>2
    <3>4. QED
      BY <1>5, <3>3 DEF Holds, Exists
  <2>2. QED
    BY <1>2, <1>13, <2>1 DEF OffersLive, o
<1>16. \A d \in Peers : OneAnswerFrom(d)'
  <2>1. OneAnswerFrom(c) /\ OneAnswerFrom(o)
    BY <1>2 DEF GlareOK
  <2>2. OneAnswerFrom(c)'
    <3>1. OneAnswer(events'[c])
      BY <1>2, <1>6, <1>10, <2>1 DEF OneAnswerFrom
    <3>2. OneAnswer(inbox'[o]) /\ ~HasAnswer(inbox'[o])
      BY <1>2, <1>5, <1>10, <2>1 DEF OneAnswerFrom, o
    <3>3. QED
      BY <3>1, <3>2 DEF OneAnswerFrom, o
  <2>3. OneAnswerFrom(o)'
    <3>1. OneAnswer(events'[o]) /\ ~HasAnswer(events'[o])
      BY <1>2, <1>5, <1>10, <2>1 DEF OneAnswerFrom
    <3>2. OneAnswer(inbox'[c])
      BY <1>2, <1>5, <2>1, HasTail DEF OneAnswerFrom
    <3>3. QED
      BY <1>2, <3>1, <3>2 DEF OneAnswerFrom
  <2>4. QED
    BY <1>2, <2>2, <2>3
<1>17. QED
  BY <1>14, <1>15, <1>16 DEF GlareOK

(***************************************************************************)
(* An answer meets the connection that waits for it.                       *)
(***************************************************************************)
LEMMA AnswerGlare ==
  ASSUME RtcOK, InboxOK, GlareOK, NEW c \in Peers, inbox[c] # <<>>,
         IsAnswer(Head(inbox[c])), OnAnswer(c, Head(inbox[c])),
         inbox' = [inbox EXCEPT ![c] = Tail(@)]
  PROVE  GlareOK' /\ UNCHANGED crashed
<1> DEFINE o == Other(c)
<1>1. PICK k : k = Head(inbox[c])
  OBVIOUS
<1>2. /\ o \in Peers /\ o # c /\ Other(o) = c /\ Peers = {c, o}
      /\ inbox[c] \in Seq(Signal) /\ inbox \in [Peers -> Seq(Signal)]
      /\ conn \in [Peers -> Connection] /\ k \in Signal
      /\ \A d \in Peers : Other(d) \in Peers
  BY <1>1, TwoPeers DEF RtcOK, InboxOK
<1>3. inbox'[c] = Tail(inbox[c]) /\ inbox'[o] = inbox[o] /\ events' = events
  BY <1>2 DEF OnAnswer
<1> HIDE DEF o
<1>4. /\ \A m : Has(inbox'[c], m) => Has(inbox[c], m)
      /\ Has(inbox[c], k) /\ HasAnswer(inbox[c])
      /\ OneAnswer(inbox[c]) => OneAnswer(inbox'[c]) /\ ~HasAnswer(inbox'[c])
  BY <1>1, <1>2, <1>3, HasTail
<1>5. InTransit(o, k) /\ IsAnswer(k)
  BY <1>1, <1>2, <1>4 DEF InTransit
<1>6. Exists(o) /\ ~conn[o].isInitiator /\ Waits(c, k.to)
  BY <1>2, <1>5 DEF GlareOK, AnswersMeet
<1>7. conn' = [conn EXCEPT ![c].remote = k.pc] /\ UNCHANGED crashed
  BY <1>1, <1>6 DEF OnAnswer, Waits, Exists
<1>8. /\ conn'[c].pc = conn[c].pc /\ conn'[c].isInitiator = conn[c].isInitiator
      /\ conn'[o] = conn[o]
  BY <1>2, <1>7 DEF Connection
<1>9. \A d \in Peers : \A m : InTransit(d, m)' => InTransit(d, m)
  <2>1. \A d \in Peers : \A m : Has(inbox'[d], m) => Has(inbox[d], m)
    BY <1>2, <1>3, <1>4
  <2>2. QED
    BY <1>2, <1>3, <2>1 DEF InTransit
<1>10. \A m : IsAnswer(m) => ~InTransit(c, m)
  BY <1>6 DEF GlareOK, AnswersMeet, Waits
<1>11. /\ OneAnswer(events[o]) /\ OneAnswer(inbox[c]) /\ ~HasAnswer(events[o])
       /\ OneAnswer(events[c]) /\ OneAnswer(inbox[o]) /\ ~HasAnswer(events[c])
  <2>1. OneAnswerFrom(c) /\ OneAnswerFrom(o)
    BY <1>2 DEF GlareOK
  <2>2. ~HasAnswer(events[c])
    BY <1>10, HasAnswerMeans DEF InTransit
  <2>3. QED
    BY <1>2, <1>4, <2>1, <2>2 DEF OneAnswerFrom, o
<1>12. \A m : IsAnswer(m) => ~InTransit(o, m)'
  BY <1>2, <1>3, <1>4, <1>11, HasAnswerMeans DEF InTransit
<1>13. AnswersMeet'
  BY <1>2, <1>9, <1>10, <1>12 DEF AnswersMeet
<1>14. OffersLive'
  <2>1. Holds(o)'
    BY <1>6, <1>8 DEF Holds, Exists
  <2>2. ASSUME NEW m, InTransit(o, m)', m.type = "offer"
        PROVE  Holds(c)'
    <3>1. Holds(c) \/ Waits(o, m.pc)
      BY <1>2, <1>9, <2>2 DEF GlareOK, OffersLive
    <3>2. Holds(c)
      BY <1>6, <3>1 DEF Waits
    <3>3. QED
      BY <1>8, <3>2 DEF Holds, Exists
  <2>3. QED
    BY <1>2, <2>1, <2>2 DEF OffersLive, o
<1>15. \A d \in Peers : OneAnswerFrom(d)'
  <2>1. OneAnswerFrom(c)'
    BY <1>3, <1>11 DEF OneAnswerFrom, o
  <2>2. OneAnswerFrom(o)'
    BY <1>2, <1>3, <1>4, <1>11 DEF OneAnswerFrom
  <2>3. QED
    BY <1>2, <2>1, <2>2
<1>16. QED
  BY <1>7, <1>13, <1>14, <1>15 DEF GlareOK

-----------------------------------------------------------------------------
(* Each action.                                                            *)

\* Nobody loses the server or joins another room.
OneRoomNoLoss == "disconnect" \notin Troubles /\ "other room" \notin Troubles

\* A step that leaves the connections leaves what is said of them.
LEMMA SameConn == UNCHANGED conn => CoreSame
  BY DEF CoreSame

(***************************************************************************)
(* The state and the channel of a connection are none of its descriptions. *)
(***************************************************************************)
LEMMA OtherFields ==
  ASSUME NEW k \in Connection, NEW v
  PROVE  /\ [k EXCEPT !.state = v].pc = k.pc /\ [k EXCEPT !.dc = v].pc = k.pc
         /\ [k EXCEPT !.state = v].remote = k.remote
         /\ [k EXCEPT !.dc = v].remote = k.remote
         /\ [k EXCEPT !.state = v].isInitiator = k.isInitiator
         /\ [k EXCEPT !.dc = v].isInitiator = k.isInitiator
  BY DEF Connection

(***************************************************************************)
(* Joining the room: no connection is left from before, and offers may go   *)
(* out.                                                                     *)
(***************************************************************************)
LEMMA JoinGlare ==
  ASSUME GlareInv, NEW c \in Peers, Join(c)
  PROVE  GlareOK' /\ IdsKnown'
<1> DEFINE own == << [type |-> "joined", participants |-> online] >>
           m == [type |-> "peer-joined"]
<1>1. /\ inbox \in [Peers -> Seq(Signal)] /\ events \in [Peers -> Seq(Event)]
      /\ online \subseteq Peers /\ IdsKnown /\ c \notin online
      /\ localId \in [Peers -> {0} \cup Peers \cup ForeignIds]
  BY DEF GlareInv, DirectInv, InboxOK, RtcOK, RoomOK, Join
<1>2. /\ inbox'[c] = own
      /\ \A d \in Peers : d # c => inbox'[d] = IF d \in online
                                                THEN Append(inbox[d], m) ELSE inbox[d]
      /\ online' = online \cup {c} /\ UNCHANGED <<knows, joined, localId, conn, events>>
  BY DEF Join, rtcVars
<1>3. inbox[c] = <<>>
  BY <1>1 DEF IdsKnown
<1>4. own # <<>> /\ Head(own).type = "joined"
  OBVIOUS
<1>5. m \in Signal /\ m.type = "peer-joined"
  BY DEF Signal
<1>6. \A n : Has(own, n) => n.type = "joined"
  BY DEF Has
<1>7. ~HasAnswer(own) /\ OneAnswer(own)
  BY DEF HasAnswer, OneAnswer, IsAnswer
<1> HIDE DEF own, m
<1>8. Dull(inbox[c], inbox'[c])
  BY <1>2, <1>6, <1>7 DEF Dull
<1>9. \A d \in Peers : Dull(inbox[d], inbox'[d])
  <2> SUFFICES ASSUME NEW d \in Peers, d # c PROVE Dull(inbox[d], inbox'[d])
    BY <1>8
  <2>1. inbox[d] \in Seq(Signal)
    BY <1>1
  <2>2. Dull(inbox[d], inbox[d]) /\ Dull(inbox[d], Append(inbox[d], m))
    BY <1>5, <2>1, DullKinds
  <2>3. QED
    BY <1>2, <2>2
<1>10. \A d \in Peers : Dull(events[d], events'[d])
  BY <1>1, <1>2, DullKinds
<1>11. GlareOK'
  BY <1>2, <1>9, <1>10, SameConn, DullKeeps DEF GlareInv
<1>12. ASSUME NEW d \in Peers
       PROVE  /\ d \notin online' => inbox'[d] = <<>> /\ ~knows'[d] /\ ~Exists(d)' /\ ~joined'[d]
              /\ knows'[d] \/ Exists(d)' \/ joined'[d] => localId'[d] = d
              /\ d \in online' => \/ localId'[d] = d
                                  \/ inbox'[d] # <<>> /\ Head(inbox'[d]).type = "joined"
              /\ \A n : Has(inbox'[d], n) => n.type # "peer-left"
  <2>1. d \notin online' => inbox'[d] = <<>> /\ ~knows'[d] /\ ~Exists(d)' /\ ~joined'[d]
    BY <1>1, <1>2 DEF IdsKnown, Exists
  <2>2. knows'[d] \/ Exists(d)' \/ joined'[d] => localId'[d] = d
    BY <1>1, <1>2 DEF IdsKnown, Exists
  <2>3. CASE d = c
    BY <1>2, <1>4, <1>6, <2>1, <2>2, <2>3
  <2>4. CASE d # c
    <3>1. inbox[d] \in Seq(Signal)
      BY <1>1
    <3>2. inbox[d] # <<>> => Append(inbox[d], m) # <<>>
                              /\ Head(Append(inbox[d], m)) = Head(inbox[d])
      BY <3>1
    <3>3. d \in online' => \/ localId'[d] = d
                           \/ inbox'[d] # <<>> /\ Head(inbox'[d]).type = "joined"
      BY <1>1, <1>2, <2>4, <3>2 DEF IdsKnown
    <3>4. \A n : Has(inbox'[d], n) => Has(inbox[d], n) \/ n = m
      BY <1>2, <1>5, <2>4, <3>1, HasAppend
    <3>5. \A n : Has(inbox'[d], n) => n.type # "peer-left"
      BY <1>1, <1>5, <3>4 DEF IdsKnown
    <3>6. QED
      BY <2>1, <2>2, <3>3, <3>5
  <2>5. QED
    BY <2>3, <2>4
<1>13. IdsKnown'
  BY <1>12 DEF IdsKnown
<1>14. QED
  BY <1>11, <1>13

(***************************************************************************)
(* The room is as it was, and of connections only one with a known id is   *)
(* begun.                                                                  *)
(***************************************************************************)
LEMMA IdsKept ==
  ASSUME IdsKnown, UNCHANGED <<online, knows, joined, localId>>,
         \A d \in Peers :
           Exists(d)' => Exists(d) \/ (d \in online /\ localId[d] = d),
         \A d \in Peers :
           inbox'[d] = inbox[d]
             \/ /\ d \in online /\ (localId[d] # d => inbox'[d] # <<>>)
                /\ localId[d] # d => Head(inbox'[d]) = Head(inbox[d])
                /\ \A n : Has(inbox'[d], n) => n.type # "peer-left"
  PROVE  IdsKnown'
  BY DEF IdsKnown

(***************************************************************************)
(* A channel that closes changes no description.                            *)
(***************************************************************************)
LEMMA NoticeClosedGlare ==
  ASSUME GlareInv, NEW c \in Peers, NoticeClosed(c)
  PROVE  GlareOK' /\ IdsKnown'
<1>1. CoreSame
  BY DEF NoticeClosed, CoreSame, GlareInv, DirectInv, RtcOK, Connection
<1>2. /\ inbox \in [Peers -> Seq(Signal)] /\ events \in [Peers -> Seq(Event)]
      /\ UNCHANGED <<events, inbox>> /\ UNCHANGED <<online, knows, joined, localId>>
  BY DEF GlareInv, DirectInv, InboxOK, RtcOK, NoticeClosed, roomVars
<1>3. \A d \in Peers : Dull(events[d], events'[d]) /\ Dull(inbox[d], inbox'[d])
  BY <1>2, DullKinds
<1>4. \A d \in Peers : Exists(d)' => Exists(d)
  BY <1>1 DEF CoreSame, Exists
<1>5. QED
  BY <1>1, <1>2, <1>3, <1>4, DullKeeps, IdsKept DEF GlareInv

(***************************************************************************)
(* A text that arrives changes no description.                              *)
(***************************************************************************)
LEMMA ArriveGlare ==
  ASSUME GlareInv, NEW c \in Peers, Arrive(c)
  PROVE  GlareOK' /\ IdsKnown'
<1> DEFINE x == [type |-> "message", text |-> Head(wire[c])]
<1>1. /\ inbox \in [Peers -> Seq(Signal)] /\ events \in [Peers -> Seq(Event)]
      /\ events' = [events EXCEPT ![c] = Append(@, x)]
      /\ UNCHANGED <<conn, inbox>> /\ UNCHANGED <<online, knows, joined, localId>>
      /\ wire[c] \in Seq(Nat) /\ wire[c] # <<>>
  BY DEF GlareInv, DirectInv, InboxOK, RtcOK, QueueOK, Arrive, roomVars
<1>2. x \in Event /\ x.type = "message"
  <2>1. Head(wire[c]) \in Nat
    BY <1>1
  <2>2. QED
    BY <2>1 DEF Event
<1> HIDE DEF x
<1>3. \A d \in Peers : Dull(events[d], events[d]) /\ Dull(events[d], Append(events[d], x))
                        /\ Dull(inbox[d], inbox[d])
  BY <1>1, <1>2, DullKinds
<1>4. \A d \in Peers : Dull(events[d], events'[d]) /\ Dull(inbox[d], inbox'[d])
  BY <1>1, <1>3
<1>5. \A d \in Peers : Exists(d)' => Exists(d)
  BY <1>1 DEF Exists
<1>6. QED
  BY <1>1, <1>4, <1>5, SameConn, DullKeeps, IdsKept DEF GlareInv

(***************************************************************************)
(* Two connections whose channel opens keep their descriptions.             *)
(***************************************************************************)
LEMMA ConnectGlare ==
  ASSUME GlareInv, NEW c \in Peers, Connect(c)
  PROVE  GlareOK' /\ IdsKnown'
<1> DEFINE o == Other(c)
           opened == [type |-> "opened"]
           incoming == [type |-> "incoming", pc |-> conn[o].pc]
<1>1. /\ inbox \in [Peers -> Seq(Signal)] /\ events \in [Peers -> Seq(Event)]
      /\ conn \in [Peers -> Connection] /\ UNCHANGED inbox
      /\ UNCHANGED <<online, knows, joined, localId>>
      /\ events' = [events EXCEPT ![c] = Append(@, opened),
                                  ![o] = @ \o << incoming, opened >>]
  BY DEF GlareInv, DirectInv, InboxOK, RtcOK, Connect, roomVars
<1>2. o \in Peers /\ o # c /\ Peers = {c, o}
  BY TwoPeers
<1>3. /\ opened \in Event /\ opened.type \notin {"offer", "answer"}
      /\ incoming \in Event /\ incoming.type \notin {"offer", "answer"}
  BY <1>1, <1>2 DEF Event, Connection
<1>4. CoreSame
  <2>1. \A d \in Peers : conn'[d] = [conn[d] EXCEPT !.state = "open"]
    BY DEF Connect
  <2>2. QED
    <3> SUFFICES ASSUME NEW d \in Peers
                 PROVE  /\ conn'[d].pc = conn[d].pc
                        /\ conn'[d].remote = conn[d].remote
                        /\ conn'[d].isInitiator = conn[d].isInitiator
      BY DEF CoreSame
    <3>1. conn[d] \in Connection /\ conn'[d] = [conn[d] EXCEPT !.state = "open"]
      BY <1>1, <2>1
    <3>2. QED
      BY <3>1, OtherFields
<1> HIDE DEF o, opened, incoming
<1>5. Dull(events[c], events'[c])
  <2>1. events'[c] = Append(events[c], opened)
    BY <1>1, <1>2
  <2>2. QED
    BY <1>1, <1>3, <2>1, DullKinds
<1>6. Dull(events[o], events'[o])
  <2>1. events'[o] = Append(Append(events[o], incoming), opened)
    BY <1>1, <1>2, <1>3
  <2>2. /\ Append(events[o], incoming) \in Seq(Event)
        /\ Dull(events[o], Append(events[o], incoming))
    BY <1>1, <1>2, <1>3, DullKinds
  <2>3. Dull(Append(events[o], incoming), events'[o])
    BY <1>3, <2>1, <2>2, DullKinds
  <2>4. QED
    BY <2>2, <2>3 DEF Dull
<1>7. \A d \in Peers : Dull(inbox[d], inbox'[d])
  BY <1>1, DullKinds
<1>8. \A d \in Peers : Dull(events[d], events'[d])
  BY <1>2, <1>5, <1>6
<1>9. \A d \in Peers : Exists(d)' => Exists(d)
  BY <1>4 DEF CoreSame, Exists
<1>10. QED
  BY <1>1, <1>4, <1>7, <1>8, <1>9, DullKeeps, IdsKept DEF GlareInv

(***************************************************************************)
(* A message may make the first offer of its sender, if there is no         *)
(* connection.                                                              *)
(***************************************************************************)
LEMMA SendMessageGlare ==
  ASSUME GlareInv, NEW c \in Peers, SendMessage(c)
  PROVE  GlareOK' /\ IdsKnown'
<1>1. /\ inbox \in [Peers -> Seq(Signal)] /\ events \in [Peers -> Seq(Event)]
      /\ UNCHANGED <<online, knows, joined, localId>> /\ UNCHANGED inbox
      /\ RtcOK /\ InboxOK /\ GlareOK /\ IdsKnown /\ c \in online
      /\ conn \in [Peers -> Connection]
  BY DEF GlareInv, DirectInv, InboxOK, RtcOK, SendMessage, roomVars
<1>2. \A d \in Peers : Dull(inbox[d], inbox'[d])
  BY <1>1, DullKinds
<1>3. CASE knows[c] /\ ~Exists(c)
  <2>1. Initiate(c)
    BY <1>3 DEF SendMessage, Ensure
  <2>2. GlareOK'
    BY <1>1, <1>2, <1>3, <2>1, InitiateGlare
  <2>3. \A d \in Peers : Exists(d)' => Exists(d) \/ (d \in online /\ localId[d] = d)
    BY <1>1, <1>3, <2>1 DEF IdsKnown, Initiate, Exists
  <2>4. QED
    BY <1>1, <2>2, <2>3, IdsKept
<1>4. CASE ~(knows[c] /\ ~Exists(c))
  <2>1. UNCHANGED <<conn, events>>
    BY <1>4 DEF SendMessage, Ensure
  <2>2. \A d \in Peers : Dull(events[d], events'[d])
    BY <1>1, <2>1, DullKinds
  <2>3. \A d \in Peers : Exists(d)' => Exists(d)
    BY <2>1 DEF Exists
  <2>4. QED
    BY <1>1, <1>2, <2>1, <2>2, <2>3, SameConn, DullKeeps, IdsKept
<1>5. QED
  BY <1>3, <1>4

(***************************************************************************)
(* A callback may send the description it carries to the other side, once.  *)
(***************************************************************************)
LEMMA OnEventGlare ==
  ASSUME GlareInv, NEW c \in Peers, OnEvent(c)
  PROVE  GlareOK' /\ IdsKnown'
<1>1. PICK e : e = Head(events[c])
  OBVIOUS
<1>2. /\ inbox \in [Peers -> Seq(Signal)] /\ events \in [Peers -> Seq(Event)]
      /\ UNCHANGED <<online, knows, joined, localId>>
      /\ RtcOK /\ InboxOK /\ GlareOK /\ IdsKnown /\ events[c] # <<>>
      /\ conn \in [Peers -> Connection]
      /\ events' = [events EXCEPT ![c] = Tail(@)]
  BY DEF GlareInv, DirectInv, InboxOK, RtcOK, OnEvent
<1>3. e \in Event
  BY <1>1, <1>2, HasTail
<1>4. \A d \in Peers : Dull(events[d], events'[d])
  <2>1. \A d \in Peers : Dull(events[d], events[d])
    BY <1>2, DullKinds
  <2>2. Dull(events[c], Tail(events[c]))
    BY <1>2, DullKinds
  <2>3. QED
    BY <1>2, <2>1, <2>2
<1>5. CASE e.type \in {"offer", "answer"} /\ Relay(c, e) /\ UNCHANGED conn
  <2>1. e \in Signal
    BY <1>3, <1>5 DEF Event, Signal
  <2>2. GlareOK'
    BY <1>1, <1>2, <1>5, <2>1, RelayGlare
  <2>3. \A d \in Peers : Exists(d)' => Exists(d)
    BY <1>5 DEF Exists
  <2>4. CASE Peers \subseteq online
    <3>1. inbox' = [inbox EXCEPT ![Other(c)] = Append(@, e)] /\ Other(c) \in online
      BY <1>5, <2>4, TwoPeers DEF Relay, Tell
    <3>2. ASSUME NEW d \in Peers, d = Other(c)
          PROVE  /\ d \in online /\ (localId[d] # d => inbox'[d] # <<>>)
                 /\ localId[d] # d => Head(inbox'[d]) = Head(inbox[d])
                 /\ \A n : Has(inbox'[d], n) => n.type # "peer-left"
      <4>1. inbox[d] \in Seq(Signal) /\ inbox'[d] = Append(inbox[d], e) /\ d \in online
        BY <1>2, <3>1, <3>2
      <4>2. inbox'[d] # <<>> /\ (inbox[d] # <<>> => Head(inbox'[d]) = Head(inbox[d]))
        <5>1. inbox[d] \in Seq(Signal)
          BY <4>1
        <5>2. /\ Append(inbox[d], e) # <<>>
              /\ inbox[d] # <<>> => Head(Append(inbox[d], e)) = Head(inbox[d])
          BY <2>1, <5>1
        <5>3. QED
          BY <4>1, <5>2
      <4>3. \A n : Has(inbox'[d], n) => Has(inbox[d], n) \/ n = e
        BY <2>1, <4>1, HasAppend
      <4>4. QED
        BY <1>2, <1>5, <4>1, <4>2, <4>3 DEF IdsKnown
    <3>3. \A d \in Peers : d # Other(c) => inbox'[d] = inbox[d]
      BY <1>2, <3>1
    <3>4. QED
      BY <1>2, <2>2, <2>3, <3>2, <3>3, IdsKept
  <2>5. CASE ~(Peers \subseteq online)
    <3>1. UNCHANGED inbox
      BY <1>5, <2>5 DEF Relay
    <3>2. QED
      BY <1>2, <2>2, <2>3, <3>1, IdsKept
  <2>6. QED
    BY <2>4, <2>5
<1>6. CASE /\ conn' = conn \/ (Exists(c) /\ conn' = [conn EXCEPT ![c].dc = e.pc])
           /\ UNCHANGED inbox
  <2>1. CoreSame
    <3>1. \A d \in Peers :
            conn'[d] = conn[d] \/ conn'[d] = [conn[d] EXCEPT !.dc = e.pc]
      BY <1>2, <1>6
    <3> SUFFICES ASSUME NEW d \in Peers
                 PROVE  /\ conn'[d].pc = conn[d].pc
                        /\ conn'[d].remote = conn[d].remote
                        /\ conn'[d].isInitiator = conn[d].isInitiator
      BY DEF CoreSame
    <3>2. CASE conn'[d] = [conn[d] EXCEPT !.dc = e.pc]
      <4>1. conn[d] \in Connection
        BY <1>2
      <4>2. QED
        BY <3>2, <4>1, OtherFields
    <3>3. QED
      BY <3>1, <3>2
  <2>2. \A d \in Peers : Dull(inbox[d], inbox'[d])
    BY <1>2, <1>6, DullKinds
  <2>3. \A d \in Peers : Exists(d)' => Exists(d)
    BY <2>1 DEF CoreSame, Exists
  <2>4. QED
    BY <1>2, <1>4, <1>6, <2>1, <2>2, <2>3, DullKeeps, IdsKept
<1>7. QED
  BY <1>1, <1>5, <1>6 DEF OnEvent

(***************************************************************************)
(* c, which knows its id by now, has handled its first message, and what   *)
(* others know has not changed.                                            *)
(***************************************************************************)
LEMMA IdsAfterMessage ==
  ASSUME IdsKnown, InboxOK, NEW c \in Peers, inbox[c] # <<>>,
         inbox' = [inbox EXCEPT ![c] = Tail(@)], UNCHANGED online,
         localId'[c] = c,
         \A d \in Peers : d # c =>
           /\ localId'[d] = localId[d] /\ knows'[d] = knows[d]
           /\ joined'[d] = joined[d] /\ (Exists(d)' => Exists(d))
  PROVE  IdsKnown'
<1>1. /\ inbox \in [Peers -> Seq(Signal)] /\ inbox[c] \in Seq(Signal)
      /\ inbox'[c] = Tail(inbox[c]) /\ \A d \in Peers : d # c => inbox'[d] = inbox[d]
  BY DEF InboxOK
<1>2. c \in online'
  BY DEF IdsKnown
<1>3. \A n : Has(inbox'[c], n) => n.type # "peer-left"
  BY <1>1, HasTail DEF IdsKnown
<1>4. QED
  BY <1>1, <1>2, <1>3 DEF IdsKnown

(***************************************************************************)
(* A description that arrives meets a connection that can take it: nothing  *)
(* crashes.                                                                 *)
(***************************************************************************)
LEMMA OnMessageGlare ==
  ASSUME GlareInv, NEW c \in Peers, OnMessage(c)
  PROVE  GlareOK' /\ IdsKnown' /\ crashed' = {}
<1>1. PICK m : m = Head(inbox[c])
  OBVIOUS
<1>2. /\ inbox \in [Peers -> Seq(Signal)] /\ events \in [Peers -> Seq(Event)]
      /\ knows \in [Peers -> BOOLEAN] /\ joined \in [Peers -> BOOLEAN]
      /\ localId \in [Peers -> {0} \cup Peers \cup ForeignIds]
      /\ UNCHANGED online /\ crashed = {} /\ conn \in [Peers -> Connection]
      /\ RtcOK /\ InboxOK /\ GlareOK /\ IdsKnown /\ inbox[c] # <<>>
      /\ inbox' = [inbox EXCEPT ![c] = Tail(@)]
  BY DEF GlareInv, DirectInv, InboxOK, RtcOK, RoomOK, OnMessage
<1>3. m \in Signal /\ Has(inbox[c], m)
  BY <1>1, <1>2, HasTail DEF Has
<1>4. c \in online /\ (m.type # "joined" => localId[c] = c)
  BY <1>1, <1>2 DEF IdsKnown
<1>5. \A d \in Peers : Dull(inbox[d], inbox'[d])
  <2>1. \A d \in Peers : Dull(inbox[d], inbox[d])
    BY <1>2, DullKinds
  <2>2. Dull(inbox[c], Tail(inbox[c]))
    BY <1>2, DullKinds
  <2>3. QED
    BY <1>2, <2>1, <2>2
<1>6. \A d \in Peers : Dull(events[d], events[d])
  BY <1>2, DullKinds
<1>7. CASE m.type = "joined" /\ OnJoined(c, m)
  <2>1. GlareOK' /\ crashed' = {}
    BY <1>2, <1>5, <1>6, <1>7, SameConn, DullKeeps DEF OnJoined, rtcVars
  <2>2. \A d \in Peers : Exists(d)' => Exists(d)
    BY <1>7 DEF OnJoined, rtcVars, Exists
  <2>3. /\ localId'[c] = c
        /\ \A d \in Peers : d # c =>
             /\ localId'[d] = localId[d] /\ knows'[d] = knows[d]
             /\ joined'[d] = joined[d]
    BY <1>2, <1>7 DEF OnJoined
  <2>4. QED
    BY <1>2, <2>1, <2>2, <2>3, IdsAfterMessage
<1>8. CASE m.type = "peer-joined" /\ OnPeerJoined(c)
  <2>1. /\ localId'[c] = c /\ crashed' = {}
        /\ \A d \in Peers : d # c =>
             /\ localId'[d] = localId[d] /\ knows'[d] = knows[d]
             /\ joined'[d] = joined[d]
    BY <1>2, <1>4, <1>8 DEF OnPeerJoined
  <2>2. CASE joined[c] /\ ~Exists(c)
    <3>1. Initiate(c)
      BY <1>8, <2>2 DEF OnPeerJoined, Ensure
    <3>2. GlareOK'
      BY <1>2, <1>5, <2>2, <3>1, InitiateGlare
    <3>3. \A d \in Peers : d # c /\ Exists(d)' => Exists(d)
      BY <1>2, <3>1 DEF Initiate, Exists
    <3>4. QED
      BY <1>2, <2>1, <3>2, <3>3, IdsAfterMessage
  <2>3. CASE ~(joined[c] /\ ~Exists(c))
    <3>1. UNCHANGED <<conn, events>>
      BY <1>8, <2>3 DEF OnPeerJoined, Ensure
    <3>2. GlareOK'
      BY <1>2, <1>5, <1>6, <3>1, SameConn, DullKeeps
    <3>3. \A d \in Peers : Exists(d)' => Exists(d)
      BY <3>1 DEF Exists
    <3>4. QED
      BY <1>2, <2>1, <3>2, <3>3, IdsAfterMessage
  <2>4. QED
    BY <2>2, <2>3
<1>9. CASE m.type = "peer-left"
  BY <1>2, <1>3, <1>9 DEF IdsKnown
<1>10. CASE m.type = "offer" /\ OnOffer(c, m) /\ UNCHANGED <<knows, joined, localId>>
  <2>1. localId'[c] = c /\ crashed' = {}
    BY <1>2, <1>4, <1>10 DEF OnOffer
  <2>2. CASE Exists(c) /\ ~(conn[c].isInitiator /\ Polite(c))
    <3>1. UNCHANGED <<conn, events>>
      BY <1>10, <2>2 DEF OnOffer
    <3>2. GlareOK'
      BY <1>2, <1>5, <1>6, <3>1, SameConn, DullKeeps
    <3>3. \A d \in Peers : Exists(d)' => Exists(d)
      BY <3>1 DEF Exists
    <3>4. QED
      BY <1>2, <1>10, <2>1, <3>2, <3>3, IdsAfterMessage
  <2>3. CASE ~(Exists(c) /\ ~(conn[c].isInitiator /\ Polite(c)))
    <3>1. ~Holds(c)
      <4>1. c \in Nat /\ Other(c) \in Nat
        BY TwoPeers, DirectChatAssumption
      <4>2. Polite(c) => ~(Other(c) < c)
        BY <1>4, <1>10, <4>1 DEF Polite
      <4>3. QED
        BY <2>3, <4>2 DEF Holds
    <3>2. Receive(c, m)
      BY <1>10, <2>3 DEF OnOffer
    <3>3. GlareOK'
      BY <1>1, <1>2, <1>10, <3>1, <3>2, ReceiveGlare
    <3>4. \A d \in Peers : d # c /\ Exists(d)' => Exists(d)
      BY <1>2, <3>2 DEF Receive, Exists
    <3>5. QED
      BY <1>2, <1>10, <2>1, <3>3, <3>4, IdsAfterMessage
  <2>4. QED
    BY <2>2, <2>3
<1>11. CASE m.type = "answer" /\ OnAnswer(c, m) /\ UNCHANGED <<knows, joined, localId>>
  <2>1. GlareOK' /\ UNCHANGED crashed
    BY <1>1, <1>2, <1>11, AnswerGlare DEF IsAnswer
  <2>2. \A d \in Peers : d # c /\ Exists(d)' => Exists(d)
    BY <1>2, <1>11 DEF OnAnswer, Exists
  <2>3. QED
    BY <1>2, <1>4, <1>11, <2>1, <2>2, IdsAfterMessage
<1>12. QED
  BY <1>1, <1>7, <1>8, <1>9, <1>10, <1>11 DEF OnMessage

(***************************************************************************)
(* There are no connections at the start.                                   *)
(***************************************************************************)
LEMMA InitGlareInv == Init => GlareInv
<1> SUFFICES ASSUME Init PROVE GlareInv
  OBVIOUS
<1>1. \A c \in Peers : Other(c) \in Peers
  BY TwoPeers
<1>2. \A c \in Peers : \A m : ~InTransit(c, m)
  BY <1>1, HasNone DEF Init, InTransit
<1>3. \A c \in Peers : OneAnswerFrom(c)
  BY <1>1, HasNone DEF Init, OneAnswerFrom
<1>4. GlareOK
  BY <1>2, <1>3 DEF GlareOK, OffersLive, AnswersMeet
<1>5. IdsKnown
  BY HasNone DEF Init, IdsKnown, Exists, NoConn
<1>6. QED
  BY <1>4, <1>5, InitDirectInv DEF GlareInv, Init

(***************************************************************************)
(* As long as the clients stay in one room, GlareInv is inductive.          *)
(***************************************************************************)
LEMMA NextGlareInv == OneRoomNoLoss /\ GlareInv /\ [Next]_vars => GlareInv'
<1> SUFFICES ASSUME OneRoomNoLoss, GlareInv, [Next]_vars PROVE GlareInv'
  OBVIOUS
<1>1. DirectInv'
  BY NextDirectInv DEF GlareInv
<1>2. CASE UNCHANGED vars
  <2>1. /\ inbox \in [Peers -> Seq(Signal)] /\ events \in [Peers -> Seq(Event)]
        /\ UNCHANGED <<events, inbox, conn, crashed>>
        /\ UNCHANGED <<online, knows, joined, localId>>
    BY <1>2 DEF vars, roomVars, rtcVars, GlareInv, DirectInv, InboxOK, RtcOK
  <2>2. \A d \in Peers : Dull(events[d], events'[d]) /\ Dull(inbox[d], inbox'[d])
    BY <2>1, DullKinds
  <2>3. GlareOK'
    BY <2>1, <2>2, SameConn, DullKeeps DEF GlareInv
  <2>4. IdsKnown'
    <3>1. \A d \in Peers : Exists(d)' => Exists(d)
      BY <2>1 DEF Exists
    <3>2. QED
      BY <2>1, <3>1, IdsKept DEF GlareInv
  <2>5. QED
    BY <1>1, <2>1, <2>3, <2>4 DEF GlareInv
<1>3. ASSUME NEW c \in Peers, Join(c) PROVE GlareInv'
  BY <1>1, <1>3, JoinGlare DEF GlareInv, Join
<1>4. ASSUME NEW c \in Peers, Disconnect(c) PROVE GlareInv'
  BY <1>4 DEF Disconnect, Trouble, OneRoomNoLoss
<1>5. ASSUME NEW c \in Peers, NEW id \in ForeignIds, JoinOther(c, id) PROVE GlareInv'
  BY <1>5 DEF JoinOther, Trouble, OneRoomNoLoss
<1>6. ASSUME NEW c \in Peers, OnMessage(c) PROVE GlareInv'
  BY <1>1, <1>6, OnMessageGlare DEF GlareInv
<1>7. ASSUME NEW c \in Peers, OnEvent(c) PROVE GlareInv'
  BY <1>1, <1>7, OnEventGlare DEF GlareInv, OnEvent
<1>8. ASSUME NEW c \in Peers, SendMessage(c) PROVE GlareInv'
  BY <1>1, <1>8, SendMessageGlare DEF GlareInv, SendMessage
<1>9. ASSUME NEW c \in Peers, Connect(c) PROVE GlareInv'
  BY <1>1, <1>9, ConnectGlare DEF GlareInv, Connect
<1>10. ASSUME NEW c \in Peers, NoticeClosed(c) PROVE GlareInv'
  BY <1>1, <1>10, NoticeClosedGlare DEF GlareInv, NoticeClosed
<1>11. ASSUME NEW c \in Peers, Arrive(c) PROVE GlareInv'
  BY <1>1, <1>11, ArriveGlare DEF GlareInv, Arrive
<1>12. QED
  BY <1>2, <1>3, <1>4, <1>5, <1>6, <1>7, <1>8, <1>9, <1>10, <1>11 DEF Next

(***************************************************************************)
(* While nobody loses the server or joins another room, an answer meets    *)
(* the offer it is for, in whatever order offers cross and events run: no  *)
(* client is ended by the library.  Channels may fail all the while.       *)
(***************************************************************************)
THEOREM OffersCrossSafely ==
  ASSUME "disconnect" \notin Troubles, "other room" \notin Troubles
  PROVE  Spec => []NoCrash
<1>1. OneRoomNoLoss
  BY DEF OneRoomNoLoss
<1>2. GlareInv /\ [Next]_vars => GlareInv'
  BY <1>1, NextGlareInv
<1>3. GlareInv => NoCrash
  BY DEF GlareInv, NoCrash
<1>4. QED
  BY <1>2, <1>3, InitGlareInv, PTL DEF Spec

=============================================================================

----------------------------- MODULE ConsoleClient -----------------------------
(***************************************************************************)
(* The console client: one loop that asks its user what to do, and keeps   *)
(* what arrives meanwhile in incomingQueue, which it writes to the          *)
(* database at the top of the loop.                                         *)
(*                                                                          *)
(* Every access to the database is a run_and_wait: the coroutine goes to    *)
(* the io_context, which two threads run: the main thread, once by          *)
(* run_one() and then by poll() between pumps of Qt's events, and the       *)
(* ioThread_ of DependencyContainer.  The main thread pumps events there    *)
(* and wherever it waits for the user or the server, and nowhere else.      *)
(*                                                                          *)
(* Rooms are group rooms (direct ones are DirectChat); the server is that   *)
(* of RoomRegistry and MessageHandler as this client sees it.               *)
(***************************************************************************)
EXTENDS LocalStore, FiniteSets, SequencesExt

CONSTANTS
  Rooms,
  Peers,      \* those who write to the rooms besides the user
  None,
  MaxTexts,   \* texts written, by the user and the peers together
  MaxMoves,   \* options chosen at the menu
  MaxEnds,    \* exits and crashes
  MaxBreaks   \* connections lost

Me == "me"
MyPeer == "my peer id"

ASSUME ConsoleBounds ==
  /\ IsFiniteSet(Rooms)
  /\ None \notin Rooms \cup Peers \cup {Me, MyPeer} \cup Nat
  /\ Me \notin Peers
  /\ MaxTexts \in Nat /\ MaxMoves \in Nat /\ MaxEnds \in Nat
  /\ MaxBreaks \in Nat

VARIABLES
  store,    \* the database
  nextId,   \* what the next random uuid is
  pc,       \* where the main thread is; "off" while there is no program
  op,       \* the run_and_wait under way: its two threads of control
  mem,      \* the variables of main() and the rooms of the controller
  walk,     \* the loop of flushIncoming
  link,     \* the socket: "none", "connecting", "up", "broken"
  rooms,    \* the server's rooms
  inbox,    \* sent by the server and not yet read
  author,   \* who wrote each text, in order
  excused,  \* history: the texts that came while the queue was walked, or
            \* were still in it when the program ended
  moves, ends, breaks

progVars  == <<pc, op, mem, walk>>
worldVars == <<rooms, inbox>>
boundVars == <<moves, ends, breaks>>
vars == <<store, nextId, progVars, link, worldVars, author, excused, boundVars>>

-----------------------------------------------------------------------------
(* The server.                                                              *)

EmptyRoom == [log |-> <<>>, session |-> "none", cursor |-> 0]

Entry(room, i) ==
  [from |-> room.log[i].from, text |-> room.log[i].text, seq |-> i]

Unacked(room) ==
  [i \in 1..(Len(room.log) - room.cursor) |-> Entry(room, room.cursor + i)]

\* What it answers to the joins of some rooms, in whichever order they are
\* asked for.
ServeJoins(asked) ==
  LET let   == {r \in asked : rooms[r].session = "none"}
      owing == {r \in let : Unacked(rooms[r]) # <<>>}
  IN  /\ rooms' = [r \in Rooms |->
                     IF r \in let THEN [rooms[r] EXCEPT !.session = "now"]
                     ELSE rooms[r]]
      /\ \E order \in SetToSeqs(owing) :
           inbox' = inbox \o
             [i \in DOMAIN order |-> [room |-> order[i],
                                     messages |-> Unacked(rooms[order[i]])]]

\* A text posted to a room reaches the program if its session is there.
Post(r, from, text) ==
  LET room == [rooms[r] EXCEPT !.log = Append(@, [from |-> from, text |-> text])]
  IN  /\ rooms' = [rooms EXCEPT ![r] = room]
      /\ inbox' = IF room.session # "now" THEN inbox
                  ELSE Append(inbox, [room |-> r,
                                      messages |-> <<Entry(room, Len(room.log))>>])

\* joinChat of the controller: a socket that is not connected refuses it.
JoinChat(r) ==
  IF link = "up" THEN ServeJoins({r}) ELSE UNCHANGED worldVars

-----------------------------------------------------------------------------
(* run_and_wait.                                                            *)

NoOp == [main |-> "none", coroutine |-> "none", id |-> None]

Await(place) ==
  /\ pc' = place
  /\ op' = [main |-> "run_one", coroutine |-> "spawned", id |-> None]

Goto(place) == pc' = place /\ op' = NoOp

\* What the main thread waits for at pc, in the coroutine it has spawned.
Operation ==
  CASE pc = "chat" ->
         store' = AddChat(store, [id |-> nextId, room |-> mem.room])
    [] pc \in {"rejoin self", "join self", "send self"} ->
         store' = AddMember(store, [id |-> nextId, name |-> Me])
    [] pc = "sender" ->
         store' = AddMember(store, [id |-> nextId, name |-> walk.key[2]])
    [] pc = "incoming" ->
         store' = AddMessage(store, [id |-> nextId, chat |-> walk.chat,
                    sender |-> walk.sender, text |-> walk.text,
                    direction |-> "incoming"])
    [] pc = "outgoing" ->
         store' = AddMessage(store, [id |-> nextId, chat |-> mem.chat,
                    sender |-> mem.self[mem.room], text |-> mem.text,
                    direction |-> "outgoing"])
    [] OTHER -> UNCHANGED store

\* One handler of the io_context: the coroutine up to the post of the
\* repository, or from there to its end.  main is the main thread then.
Handler(main) ==
  \/ /\ op.coroutine = "spawned"
     /\ op' = [op EXCEPT !.coroutine = "posted", !.main = main]
     /\ UNCHANGED <<store, nextId>>
  \/ /\ op.coroutine = "posted"
     /\ Operation
     /\ nextId' = IF store' = store THEN nextId ELSE nextId + 1
     /\ op' = [op EXCEPT !.coroutine = "done", !.main = main, !.id = nextId]

quietVars == <<pc, mem, walk, link, worldVars, author, excused, boundVars>>

\* run_one() blocks until this thread has run a handler.
RunOne ==
  /\ op.main = "run_one"
  /\ Handler("loop")
  /\ UNCHANGED quietVars

\* ioThread_, or the main thread in poll().
RunOther ==
  /\ Handler(op.main)
  /\ UNCHANGED quietVars

Returned(place) ==
  pc = place /\ op.main = "loop" /\ op.coroutine = "done"

-----------------------------------------------------------------------------
(* flushIncoming.                                                           *)

Nothing == [room |-> None, from |-> None, text |-> None]

Keys == (Rooms \X (Peers \cup {MyPeer})) \cup {<<None, None>>}

NoWalk == [at |-> 0, size |-> 0, moved |-> FALSE, room |-> None,
           key |-> None, chat |-> None, sender |-> None, text |-> None]

\* The element the loop is at.  Once the vector has been reallocated the
\* reference is to a destroyed string that has been moved from: empty.
Item == IF walk.moved THEN Nothing ELSE mem.queue[walk.at]

\* From the top of the loop; m is main()'s state by then.
FlushIncoming(m) ==
  IF m.queue = <<>>
  THEN mem' = m /\ walk' = NoWalk /\ Goto("menu")
  ELSE /\ mem' = m
       /\ walk' = [NoWalk EXCEPT !.at = 1, !.size = Len(m.queue),
                                 !.room = m.queue[1].room]
       /\ Await("find")

\* The next element up to the end() there was at the start; then clear().
NextItem(m) ==
  IF walk.at = walk.size
  THEN /\ mem' = [m EXCEPT !.queue = <<>>]
       /\ walk' = NoWalk
       /\ Goto("menu")
  ELSE LET next == IF walk.moved THEN Nothing ELSE m.queue[walk.at + 1]
       IN  /\ mem' = m
           /\ walk' = [NoWalk EXCEPT !.at = walk.at + 1, !.size = walk.size,
                         !.moved = walk.moved, !.room = next.room]
           /\ Await("find")

ChatsOf(r) ==
  {i \in DOMAIN GetAllChats(store) : GetAllChats(store)[i].room = r}

\* findLocalChatId has returned, and the sender is looked up in memory.
FoundChat ==
  /\ Returned("find")
  /\ LET chats == ChatsOf(walk.room)
         key   == <<Item.room, Item.from>>
     IN  IF chats = {} THEN NextItem(mem)
         ELSE /\ mem' = mem
              /\ walk' = [walk EXCEPT !.chat = store.chats[Min(chats)].id,
                                      !.key = key,
                                      !.sender = mem.senders[key],
                                      !.text = Item.text]
              /\ Await(IF mem.senders[key] = None THEN "sender"
                       ELSE "incoming")

\* Mutants of AddedSender: its id is not remembered.
AddedSenderForgotten ==
  /\ Returned("sender")
  /\ mem' = mem
  /\ walk' = [walk EXCEPT !.sender = op.id, !.text = Item.text]
  /\ Await("incoming")

\* Another: the loop goes on with the next message.
AddedSenderContinues ==
  /\ Returned("sender")
  /\ NextItem([mem EXCEPT !.senders[walk.key] = op.id])

\* The rest of the message is read after that wait.
AddedSender ==
  /\ Returned("sender")
  /\ mem' = [mem EXCEPT !.senders[walk.key] = op.id]
  /\ walk' = [walk EXCEPT !.sender = op.id, !.text = Item.text]
  /\ Await("incoming")

AddedIncoming == Returned("incoming") /\ NextItem(mem)

Flush ==
  /\ FoundChat \/ AddedSender \/ AddedIncoming
  /\ UNCHANGED <<store, nextId, link, worldVars, author, excused, boundVars>>

-----------------------------------------------------------------------------
(* The start: connecting, and joining the saved chats again.                *)

EmptyMem ==
  [given |-> FALSE, connected |-> FALSE, todo |-> <<>>, joined |-> {},
   self |-> [r \in Rooms |-> None], senders |-> [k \in Keys |-> None],
   queue |-> <<>>, room |-> None, chat |-> None, text |-> None]

\* With --user or without it.
Start ==
  /\ pc = "off"
  /\ \E given \in BOOLEAN : mem' = [EmptyMem EXCEPT !.given = given]
  /\ link' = "connecting"
  /\ Goto("connect")
  /\ UNCHANGED <<store, nextId, walk, worldVars, author, excused, boundVars>>

\* Connected, or five seconds are over.
EndOfConnect ==
  /\ pc = "connect"
  /\ IF mem.connected /\ mem.given
     THEN Await("saved") /\ UNCHANGED <<mem, walk>>
     ELSE FlushIncoming([mem EXCEPT !.given = FALSE])
  /\ UNCHANGED <<worldVars, link>>

ReadSaved ==
  /\ Returned("saved")
  /\ LET m == [mem EXCEPT !.todo = GetAllChats(store), !.given = FALSE]
     IN  IF m.todo = <<>> THEN FlushIncoming(m)
         ELSE mem' = m /\ Goto("rejoin") /\ UNCHANGED walk
  /\ UNCHANGED <<worldVars, link>>

AfterRejoin(m) ==
  /\ mem' = [m EXCEPT !.todo = Tail(@), !.room = None]
  /\ Goto(IF Len(m.todo) = 1 THEN "settle" ELSE "rejoin")

RejoinNext ==
  /\ pc = "rejoin"
  /\ LET r == Head(mem.todo).room
         m == [mem EXCEPT !.joined = @ \cup {r}, !.room = r]
     IN  /\ JoinChat(r)
         /\ IF mem.self[r] = None THEN mem' = m /\ Await("rejoin self")
            ELSE AfterRejoin(m)
  /\ UNCHANGED <<walk, link>>

RejoinedSelf ==
  /\ Returned("rejoin self")
  /\ AfterRejoin([mem EXCEPT !.self[mem.room] = op.id])
  /\ UNCHANGED <<walk, worldVars, link>>

-----------------------------------------------------------------------------
(* The menu.                                                                *)

\* Options 1, 4 and 5 only read; so does whatever is no option.
Look ==
  /\ pc = "menu"
  /\ FlushIncoming(mem)
  /\ UNCHANGED <<worldVars, link>>

ChooseJoin ==
  /\ pc = "menu"
  /\ \E r \in Rooms : mem' = [mem EXCEPT !.room = r]
  /\ Await("chat")
  /\ UNCHANGED <<walk, worldVars, link>>

AddedChat ==
  /\ Returned("chat")
  /\ Await("join self")
  /\ UNCHANGED <<mem, walk, worldVars, link>>

AddedSelf ==
  /\ Returned("join self")
  /\ mem' = [mem EXCEPT !.self[mem.room] = op.id, !.joined = @ \cup {mem.room},
                        !.room = None]
  /\ JoinChat(mem.room)
  /\ Goto("settle")
  /\ UNCHANGED <<walk, link>>

Settled ==
  /\ pc = "settle"
  /\ FlushIncoming(mem)
  /\ UNCHANGED <<worldVars, link>>

ChooseSend ==
  /\ pc = "menu"
  /\ Await("list")
  /\ UNCHANGED <<mem, walk, worldVars, link>>

ListedChats ==
  /\ Returned("list")
  /\ IF store.chats = <<>> THEN FlushIncoming(mem)
     ELSE Goto("select") /\ UNCHANGED <<mem, walk>>
  /\ UNCHANGED <<worldVars, link>>

\* A room that is not joined yet is joined first.
SelectChat ==
  /\ pc = "select"
  /\ \E i \in DOMAIN store.chats :
       LET r == store.chats[i].room
           m == [mem EXCEPT !.room = r, !.chat = store.chats[i].id]
       IN  IF r \in mem.joined
           THEN mem' = m /\ Goto("text") /\ UNCHANGED worldVars
           ELSE IF mem.self[r] = None
           THEN mem' = m /\ Await("send self") /\ UNCHANGED worldVars
           ELSE /\ mem' = [m EXCEPT !.joined = @ \cup {r}]
                /\ JoinChat(r) /\ Goto("settle to send")
  /\ UNCHANGED <<walk, link>>

AddedSelfToSend ==
  /\ Returned("send self")
  /\ mem' = [mem EXCEPT !.self[mem.room] = op.id, !.joined = @ \cup {mem.room}]
  /\ JoinChat(mem.room)
  /\ Goto("settle to send")
  /\ UNCHANGED <<walk, link>>

SettledToSend ==
  /\ pc = "settle to send"
  /\ Goto("text")
  /\ UNCHANGED <<mem, walk, worldVars, link>>

\* sendMessage of the controller, before the message is stored; the server
\* refuses it if the session is not in the room.
SendMessage ==
  /\ pc = "text" /\ Len(author) < MaxTexts
  /\ author' = Append(author, Me)
  /\ mem' = [mem EXCEPT !.text = Len(author')]
  /\ IF link = "up" /\ rooms[mem.room].session = "now"
     THEN Post(mem.room, MyPeer, Len(author'))
     ELSE UNCHANGED worldVars
  /\ Await("outgoing")
  /\ UNCHANGED <<walk, link>>

AddedOutgoing ==
  /\ Returned("outgoing")
  /\ FlushIncoming([mem EXCEPT !.room = None, !.chat = None, !.text = None])
  /\ UNCHANGED <<worldVars, link>>

Choose ==
  /\ moves < MaxMoves
  /\ Look \/ ChooseJoin \/ ChooseSend
  /\ moves' = moves + 1
  /\ UNCHANGED <<store, nextId, author, excused, ends, breaks>>

MainStep ==
  /\ \/ EndOfConnect \/ ReadSaved \/ RejoinNext \/ RejoinedSelf
     \/ AddedChat \/ AddedSelf \/ Settled
     \/ ListedChats \/ SelectChat \/ AddedSelfToSend \/ SettledToSend
     \/ AddedOutgoing
  /\ UNCHANGED <<store, nextId, author, excused, boundVars>>

Send ==
  /\ SendMessage
  /\ UNCHANGED <<store, nextId, excused, boundVars>>

-----------------------------------------------------------------------------
(* The events the main thread pumps.                                        *)

Walking == walk.at > 0

Pumping ==
  \/ pc \in {"connect", "settle", "menu", "select", "settle to send", "text"}
  \/ op.main = "loop"

TextsOf(items) == {items[i].text : i \in DOMAIN items}

\* The elements of the walk not yet read when the vector is reallocated.
Unread ==
  {mem.queue[i].text : i \in (IF pc = "incoming" THEN walk.at + 1
                              ELSE walk.at)..walk.size}

\* Mutant of Acknowledge: the console program does not acknowledge.
AcknowledgeNot(r, seqs, rest) == UNCHANGED rooms /\ inbox' = rest

Acknowledge(r, seqs, rest) ==
  /\ rooms' = IF link = "up" /\ rooms[r].session = "now"
              THEN [rooms EXCEPT ![r].cursor = Max(seqs)] ELSE rooms
  /\ inbox' = rest

\* messageReceived for each message of the event, which is acknowledged at
\* once; push_back reallocates the vector or not.
OnMessages ==
  /\ inbox # <<>>
  /\ LET e     == Head(inbox)
         items == [i \in DOMAIN e.messages |->
                     [room |-> e.room, from |-> e.messages[i].from,
                      text |-> e.messages[i].text]]
     IN  /\ mem' = [mem EXCEPT !.queue = @ \o items]
         /\ Acknowledge(e.room, {e.messages[i].seq : i \in DOMAIN e.messages},
                        Tail(inbox))
         /\ \/ /\ ~Walking
               /\ UNCHANGED <<walk, excused>>
            \/ /\ Walking
               /\ excused' = excused \cup TextsOf(items)
               /\ UNCHANGED walk
            \/ /\ Walking /\ ~walk.moved
               /\ excused' = excused \cup TextsOf(items) \cup Unread
               /\ walk' = [walk EXCEPT !.moved = TRUE]
  /\ UNCHANGED link

\* onSignalingConnected joins the rooms of the controller again.
OnConnected ==
  /\ link = "connecting"
  /\ link' = "up"
  /\ mem' = [mem EXCEPT !.connected = TRUE]
  /\ ServeJoins(mem.joined)
  /\ UNCHANGED <<walk, excused>>

OnDisconnected ==
  /\ link = "broken"
  /\ link' = "connecting"
  /\ inbox' = <<>>
  /\ UNCHANGED <<mem, walk, excused, rooms>>

Pump ==
  /\ Pumping
  /\ OnMessages \/ OnConnected \/ OnDisconnected
  /\ UNCHANGED <<store, nextId, pc, op, author, boundVars>>

-----------------------------------------------------------------------------
(* The end of the program, the network and the peers.                       *)

Offline ==
  [r \in Rooms |-> IF rooms[r].session = "now"
                   THEN [rooms[r] EXCEPT !.session = "old"] ELSE rooms[r]]

\* Option 6 at the menu, without another flush; or a crash anywhere.
End ==
  /\ pc # "off" /\ ends < MaxEnds
  /\ ends' = ends + 1
  /\ excused' = excused \cup TextsOf(mem.queue)
  /\ mem' = EmptyMem /\ walk' = NoWalk /\ Goto("off")
  /\ link' = "none"
  /\ rooms' = Offline /\ inbox' = <<>>
  /\ UNCHANGED <<store, nextId, author, moves, breaks>>

Break ==
  /\ link = "up" /\ breaks < MaxBreaks
  /\ link' = "broken"
  /\ breaks' = breaks + 1
  /\ rooms' = Offline
  /\ UNCHANGED <<store, nextId, progVars, inbox, author, excused, moves, ends>>

ServerNotices ==
  /\ \E r \in Rooms : rooms[r].session = "old"
  /\ rooms' = [r \in Rooms |-> IF rooms[r].session = "old"
                               THEN [rooms[r] EXCEPT !.session = "none"]
                               ELSE rooms[r]]
  /\ UNCHANGED <<store, nextId, progVars, link, inbox, author, excused,
                 boundVars>>

PeerPosts(p, r) ==
  /\ Len(author) < MaxTexts
  /\ author' = Append(author, p)
  /\ Post(r, p, Len(author'))
  /\ UNCHANGED <<store, nextId, progVars, link, excused, boundVars>>

-----------------------------------------------------------------------------
(* Specification                                                            *)

Init ==
  /\ store = EmptyStore /\ nextId = 1
  /\ pc = "off" /\ op = NoOp /\ mem = EmptyMem /\ walk = NoWalk
  /\ link = "none"
  /\ rooms = [r \in Rooms |-> EmptyRoom] /\ inbox = <<>>
  /\ author = <<>> /\ excused = {}
  /\ moves = 0 /\ ends = 0 /\ breaks = 0

Next ==
  \/ Start \/ MainStep \/ Choose \/ Send \/ Flush \/ Pump
  \/ RunOne \/ RunOther
  \/ End \/ Break \/ ServerNotices
  \/ \E p \in Peers, r \in Rooms : PeerPosts(p, r)

Spec == Init /\ [][Next]_vars

\* Both threads run, and the main thread goes on where it need not wait.
FairSpec ==
  /\ Spec
  /\ WF_vars(RunOne) /\ WF_vars(RunOther) /\ WF_vars(MainStep \/ Flush)

-----------------------------------------------------------------------------
(* Properties                                                               *)

Incomings ==
  {i \in DOMAIN store.messages :
     store.messages[i].direction = "incoming" /\ store.messages[i].text # None}

RoomOf(i) == GetChatById(store, store.messages[i].chat).room

\* What a room's peers and the user write is stored in the order it was
\* written in, and once, whenever the program ends and starts again in between:
\* what is acknowledged is not sent again.  (A lost connection loses
\* acknowledgements, and those messages are stored twice.)
StoredInSequence ==
  breaks = 0 =>
    \A i, j \in Incomings : i < j /\ RoomOf(i) = RoomOf(j) =>
      store.messages[i].text < store.messages[j].text

\* A message that is acknowledged is in the database or in incomingQueue: the
\* server does not keep it.  The code keeps to that but for what arrives while
\* flushIncoming waits for the database, which clear() drops, what the walk of
\* a vector reallocated meanwhile does not find, and what is in the queue when
\* the program ends.
NothingSlips ==
  \A r \in Rooms : \A i \in 1..rooms[r].cursor :
    LET n == rooms[r].log[i].text
    IN  \/ n \in excused
        \/ \E j \in DOMAIN mem.queue : mem.queue[j].text = n
        \/ \E j \in Incomings : store.messages[j].text = n

\* Every incoming message with a text is stored under a member with the peer id
\* it came from, though its fields are read before and after waits; and one run
\* of the program adds one member for each peer of each room.
SendersKnown ==
  /\ \A i \in Incomings :
       LET writer == author[store.messages[i].text]
       IN  GetMemberById(store, store.messages[i].sender).name =
             IF writer = Me THEN MyPeer ELSE writer
  /\ \A p \in Peers \cup {MyPeer} :
       Cardinality({i \in DOMAIN store.members :
                      store.members[i].name = p})
         <= (ends + 1) * Cardinality(Rooms)

\* "persist in main loop, NOT in signal handler (run_and_wait inside signal
\* causes reentrant processEvents -> deadlock)": from the main loop
\* run_and_wait returns.
Returns == op.main # "none" ~> op.main = "none" \/ Returned(pc)
=============================================================================

# Morze: a formal model

Morze is a peer-to-peer messenger. A signaling server (C++, Boost.Beast, SQLite)
keeps rooms and members, introduces the members of a *direct* room to each other
and relays and buffers the messages of *group* rooms. Clients (C++, Qt,
libdatachannel) talk to it over a WebSocket and, in direct rooms, to each other
over WebRTC data channels.

There are two client programs, one with windows and one for the console, and each
keeps chats and messages in a database of its own.

This directory models the server, the ways messages travel between clients, both
client programs and their database in TLA+, checks the models with TLC on small
instances, and proves with TLAPS, for every size: the invariants of the server's
registry, with and without faults, and that it implements an abstract specification;
that the handlers and clients around it use it as specified; that group messages are
shown in order, and none is lost, when the server has one thread; the order of messages and the
negotiation of direct rooms; that the console program keeps what it has acknowledged,
and that the graphical client stores what it sends and hears under its writer; and the
migrations. Paths below are relative to the repository.

- [1. Inventory](#1-inventory)
- [2. Modules](#2-modules)
- [3. Runs: what is checked, with which bounds](#3-runs)
- [4. Fairness](#4-fairness)
- [5. Proofs](#5-proofs)
- [6. What the checks show about the code](#6-what-the-checks-show-about-the-code)
- [7. Abstractions, and what is not modelled](#7-abstractions-and-what-is-not-modelled)
- [8. What could come next](#8-what-could-come-next)

## 1. Inventory

### Server (`server/`)

| Component | State | Operations | Hard behaviour | Correct means |
|---|---|---|---|---|
| `RoomRegistry` (`domain/room_registry.cpp`) | `clients_` (session -> room, peer id, name), `connections_` (peer id -> weak pointer), `nextPeerSeq_`; all under `mu_` | `join`, `leave`, `disconnect`, `broadcastToRoom`, `acknowledge`, `getPendingMessages`, `routeToPeer`, `findClient` | three views of who is where; members that are offline; names and ids that come back; one cleanup by the lowest cursor for everybody | RAM and database agree; names are unique; a direct room has two members; what a member owes an acknowledgement for is buffered |
| `SqliteRoomStore` (`infrastructure/persistence`) | tables `rooms`, `members`, `messages`; `nextSeq_` in RAM | save, find and delete rows; `saveGroupMessage`; `findPendingMessages`; `cleanupDeliveredMessages` | every call commits on its own; the counter is computed anew at each start | rows refer to rows that exist; numbers only grow |
| `MessageHandler` (`application/message_handler.cpp`) | none | `join`, `offer`, `answer`, `ice-candidate`, `leave`, `group-message`, `ack`, `handleDisconnect` | registry calls under the mutex, sends after it | what clients are told, in the order they are told it, is what happened |
| `WsSession`, `Listener` (`infrastructure`) | outbox, `closed_`, one strand each | accept, read, write, cleanup | a read that completed before a failed write is served after cleanup | a session is cleaned up once, and for good |
| `SignalingServer` (`signaling_server.cpp`) | `io_context`, workers, `started`, `running` | start, run, stop | worker threads; stop against start | it serves between start and stop |
| Protocol (`application/protocol.cpp`) | none | parse and build JSON | none | fields are present |

### Client (`client/`)

| Component | State | Operations | Hard behaviour | Correct means |
|---|---|---|---|---|
| `SignalingService` | socket, `m_reconnectAttempts`, `m_manualDisconnect` | connect, disconnect, send, dispatch, reconnect with backoff | a timer that outlives the decision it was started by; requests sent while not connected are dropped | it is connected at last, or says that it gave up |
| `CommunicationController` | `m_rooms`, `m_peerToRoom`, `m_pendingMessages` | join, leave and send; a handler per signaling and WebRTC event | rejoining; events of a connection that is gone; queues | messages are shown once, in order, and acknowledged after they are shown |
| `WebRTCService` | `m_connections`, `m_localPeerId` | initiate, accept, answer, candidates, close, send | both sides make an offer (glare); callbacks on other threads that outlive their connection | two peers get one channel |
| `ClientBridge` (`gui/`) | pending join, `myPeerIdByRoom_`, `peerToRoom_`, queues for peers, the selection and the lists shown; an io thread for the database | join, send, leave; a handler per signaling and WebRTC event; select, search, refresh, save settings | every repository call suspends its coroutine, so look-up and insertion are apart; lists are read in several steps while they change; the pending join is one slot for all | what is sent or heard is stored once, in order, under its sender; a join is answered; when all is done the windows show the database |
| Console program (`main.cpp`) | `incomingQueue`, `selfMemberIds`, the ids of senders; the controller's rooms | the menu loop; `flushIncoming`; `run_and_wait` processes events while it waits | a queue that grows while it is walked; a second thread that runs the same `io_context`; exits and crashes with acknowledged messages in memory | nothing that was acknowledged is lost |
| `Database` | tables, `schema_version`; two connections to one file | `init`, `runMigrations` | a transaction on one connection, statements on the other; two programs at once; results nobody looks at | a recorded version has been earned; a start that fails can be repeated |
| Repositories, services | rows | the calls the two programs make | each is a suspension | refer to rows that exist |
| `StunProbeService`, converters, QML, configuration | one probe; fields | no part of the program calls the probe; pass-through | none of its own | - |

The server's threads share the registry and its mutex; sessions and clients
exchange messages over a WebSocket, which keeps their order; clients exchange
offers and answers through the server and then messages over a data channel;
libdatachannel calls back on its own threads, and the client posts every callback
to its event loop. In both programs the database is reached by coroutines on a
Boost `io_context` that a thread of `DependencyContainer` or `ClientBridge` runs. The
hazards these give rise to, each with its line and the
properties that cover it, are the list `hazards` of `PROJECT.json`.

## 2. Modules

```
RoomStore                       the database, as pure operators
  RoomRegistry                  one run of the registry       --implements--> ChatRooms
    RoomRegistryFaults          + restarts, failing store calls, late reads
    MessageHandler              + requests, sends after the mutex, worker threads
      GroupChat                 + the clients of group rooms, lost connections
DirectChat                      two clients of a direct room, over WebRTC
LocalStore                      a client's database, as pure operators
  ClientBridge                  the graphical client: user, server, peers, database
  ClientViews                   the graphical client: what its windows show
  ConsoleClient                 the console program
LocalDatabase                   opening and migrating a client's database

RoomRegistryProofs, RoomFaultsProofs, GroupChatProofs, GroupPresenceProofs,
DirectChatProofs, ClientBridgeProofs, ConsoleClientProofs,
LocalDatabaseProofs                                          theorems
MCRoomRegistry, MCRoomRegistryFaults, MCGroupChat,
MCClientBridge, MCClientViews                symmetries and bounds for TLC
```

**RoomStore** (`sqlite_room_store.cpp`). A database is a record of three tables
and a counter; a table is a function from primary keys to rows. Each method is an
operator from a database to a database. `Reopen` is the constructor: it computes
the counter from the messages it finds.

**RoomRegistry** (`room_registry.cpp`, `room_registry.hpp`). Each public method
holds `mu_` for its whole body, so each is one action: `JoinNew` and
`JoinReconnect` (with `JoinRefused` for what a refused join leaves behind),
`Leave`, `Disconnect`, `Broadcast`, `Acknowledge`, with `Route` and
`PendingMessages` as functions of the state. `clients` is the multimap
`clients_`, keyed by the address of a session; `connections` holds weak pointers,
and `Expired` is one whose object is gone. `Accept` and `Close` give a session its
life. `owed` is a history variable: which messages each member has yet to
acknowledge. This module is one run of the process in which every session ends
with `disconnect()`.

**ChatRooms** is what the registry promises, without peer ids, cursors, sessions
or tables: rooms have members by name, members are online or not, each has an
inbox, and an acknowledgement or a leave touches nobody else's inbox.
`RoomRegistry!KeepsPromise` is the refinement: the inbox of a member is its
pending messages, computed in the code from one shared table and a cursor. A name
that joins anew finds in its inbox what the room still owes to others, and no more;
`NothingLingers` is what makes that so.

**RoomRegistryFaults** adds what the server does not prevent: a restart on the
same file, a store call that throws between the statements of a method (one
action for each place), a request read before and served after `disconnect()`,
and acknowledgements of any number.

**MessageHandler** (`message_handler.cpp`, `ws_session.cpp`, `listener.cpp`). A
handler makes its registry call in one step and leaves what it has to send in
`todo`; each send, and the second look-up of a join (buffered messages), is a step
of its own, so other threads come between. `Workers` is the number of threads that
run the `io_context`: with one, the default of `main.cpp`, a handler runs to its
end before another begins.

**GroupChat** (`CommunicationController.cpp`, `SignalingService.cpp`). Users, each
with one client, join, leave, post and lose connections; the client handles what
arrives as the controller does. A client that has lost its connection is still
online at the server until `Expire` (the timeout, or a failing read). `unseen`
(messages sent while a user was a member and not shown to that user) and `shown`
are history. `UsesRegistry` is the refinement of `RoomRegistry`, with the registry's
variables as they are: clients acknowledge no number the server has not handed out.

**DirectChat** (`WebRTCService.cpp`, `CommunicationController.cpp`). Two clients,
named by their peer ids in the room: joining and losing the server, offers and
answers through it, glare, data channels that open, close and fail, the queue of
messages and its cap. The server appears only as what it tells the two (`Join`,
`Disconnect`) and as `Relay`. A peer connection of libdatachannel is a number;
`events` are callbacks posted to the event loop, which closing a connection does
not take back.

**LocalStore** (`ChatRepository.cpp`, `ChatMemberRepository.cpp`,
`MessageRepository.cpp`). The tables are sequences of rows in the order they were
written; an operator is what one repository method does after it has been resumed.
Foreign keys are enforced: `sqlite_orm` switches them on whenever it opens a file whose
tables declare some, as `DBConfiguration.h` does, and the tables are created with
`ON DELETE CASCADE` (`Database.cpp:124`, `:144`). So `RemoveChat` takes the relations and
messages of the chat with it, and a relation or a message of a chat that is gone is
refused (`HasBoth`, `MayAddMessage`). Only what one of the clients calls is there.

**ClientBridge** (`ClientBridge.cpp`, `SignalingService.cpp`). Two threads and two
queues: `events`, the lambdas and signals of the Qt thread, and `tasks`, the
suspended coroutines of the `io_context`. `Resume` runs the coroutine at the head up
to its next `co_await`, which posts it to the end; each of its disjuncts is one
repository call and what follows it. `OnMessage` and `RunEvent` are the Qt thread.
Around them: the socket with its attempts and timers (`OnConnected`,
`OnErrorOccurred`, `Retry`, `NoticeBreak`), a server reduced to what this client
sees of it (`Serve...`, after `MessageHandler`), peers that come, go and write, data
channels that open. A room is a group room or a direct one. `wire` (what has been handed
over), `lost` (the texts of chats that were removed) and two fields of a room are history.

**ClientViews** (`ClientBridge.cpp`, `ConnectionProfileRepository.cpp`). The same two
threads, and the rest of the class: the list of chats, the messages and participants
of the selected one, the search, the settings. A refresh is a coroutine of several
reads whose result is an event; `State`, `Start` and `Commit` let a function of the
Qt thread, which calls others, be written as functions on what it changes. The
coroutines that write start at their first write; `ClientBridge` has what comes
before.

**ConsoleClient** (`client/main.cpp`, `CommunicationController.cpp`). `pc` is where
the main thread is, `op` the `run_and_wait` under way: the main thread in
`run_one()` or in the loop after it, the coroutine spawned, posted or done. `RunOne`
and `RunOther` are the two threads that may run its handlers. `walk` is the loop of
`flushIncoming` over `incomingQueue`; events that arrive while it waits append to the
vector, which may move it (`moved`). `End` is an exit or a crash, after which the
program starts again with its database. `excused` is history: the messages the code
is known to drop.

**LocalDatabase** (`Database.cpp`). Programs that run `init` on one file, a statement
at a time, since no transaction covers them; `Crash` between any two, `Refused` for a
statement that fails, with what the code then does.

The definitions each module translates, with their lines, are `map` in
`PROJECT.json`. Definitions named as mutants of another are the plausible bugs a
property is tried against; nothing uses them.

## 3. Runs

`tlc -config X.cfg M`; every run takes less than three minutes.

| Run | Module, configuration | Instance | Shows |
|---|---|---|---|
| `registry` | `MCRoomRegistry` | 2 sessions, 2 rooms, 3 names, 3 members, 2 messages | the registry's invariants, what a step may never do, that no message outlives those who owe an acknowledgement, and that `RoomRegistry` implements `ChatRooms` |
| `faults` | `MCRoomRegistryFaults` | 2 sessions, 2 rooms, 2 names, 2 members, 2 messages, 1 fault | what is left of the guarantees after any one fault; no message is overwritten |
| `peer_id_reuse` | `MCRoomRegistryFaults`, `MCPeerIdReuse.cfg` | the same, restarts only | **violated**: a membership ends only by its own leave |
| `group_chat` | `MCGroupChat` | 2 users, 2 sessions, 1 room, 4 members, 2 messages, 5 moves, 1 thread | no message is lost or shown twice, clients know who is online, and the chat implements `RoomRegistry` |
| `group_chat_live` | `MCGroupChat`, `MCGroupChatLive.cfg` | the same, 4 moves, nobody leaves | what a member owes is acknowledged at last |
| `direct_chat` | `DirectChat`, `MCDirectChat.cfg` | a queue of 2, 3 messages each way, 4 moves, all troubles | order and no duplicates, in a queue, at its cap and through any loss |
| `direct_chat_live` | `DirectChat`, `MCDirectChatLive.cfg` | no troubles, a queue of 2 | however offers cross, no answer comes where none is awaited, a channel opens and what was reported delivered is shown |
| `bridge` | `MCClientBridge` | 1 room of either kind, 1 peer, 2 texts, 2 moves, 1 lost connection, 1 attempt | what the graphical client stores, sends and answers |
| `views` | `MCClientViews` | 2 chats, one with 2 members, a third to join, 2 STUN servers, 2 moves, 1 message or chat written | what its windows show when nothing is under way, and which of two saves wins |
| `console` | `ConsoleClient` | 1 room, 1 peer, 3 texts, 2 moves, 1 end, 1 lost connection | what the console program stores of what it acknowledged |
| `console_hang` | `ConsoleClient`, `MCConsoleHang.cfg` | 1 text, 1 move, no faults | **violated**: `run_and_wait` returns |
| `local_db` | `LocalDatabase` | 2 programs, 6 tables, 3 faults | versions are earned, and a start succeeds at last |

Why the bounds are enough for what they are to show. Two sessions are needed for
every conflict over a name, an id or an address, and two suffice for a member to
leave one address and return at another while a third name waits. Two rooms tell
confusions of rooms; three members, a full direct room and an offline member
together with a newcomer. Two messages are the fewest with an order, and with a
cursor between them; three names, of which two are online at a time, give the shared
cleanup one who has acknowledged all, one who has acknowledged some and one who
comes or leaves. One fault is enough to break every property the `faults` run no
longer claims. A move in `GroupChat` is a join, a leave, a post or a lost connection;
five allow two joins, a post, a loss and a second post, and after a loss the steps that
follow (expiry, reconnecting, joining again, buffered messages) are not moves and
not bounded. A queue of two in `direct_chat` has an order of its own, and the third
message meets the cap; four moves are two joins and two of failures, disconnections and
further joins.

In `bridge` two moves are a join and the removal of its chat, or a join and a peer
that comes; two texts are the fewest whose coroutines interleave and have an order,
one of them the user's and one a peer's, or both of one; a lost connection may be one
that never opened, but the limit of reconnecting is not reached (see below). In
`views` the chats have different numbers of members because the length of a refresh
depends on it, and two moves (the start of the program counts as one) let a second
selection, a removal or a save overtake the refreshes of the first, with a message or
a chat stored in between, or a second save; two STUN servers, and one server or none, tell
the settings that were there, those saved first and those saved last. In `console` three texts are one that is being stored,
one that arrives meanwhile and one after it, which is what the walk of a growing
vector needs; two moves are a join and a message sent. In `local_db` the six tables
are those of the code; three faults let one program crash twice between the faults of
another.

`StoredInOrder` of `bridge`, which is not proved, also holds with three moves (7 million
states), with four moves and with five moves and one text if no connection is lost.
`JoinIsAnswered` also holds with two rooms, no texts, two attempts and four connections
that are lost or cannot be opened (360,000 states): there the client gives up, a new
request opens the socket again, and timers overlap. `ShownInOrder` of `direct_chat` holds
with five moves as well (9 million states), and is a theorem.

The bounds `MaxPeerSeq` and `MaxMsgSeq` are guards of `JoinNew` and `Broadcast`.
In the `GroupChat` runs they are large enough never to refuse: a run makes fewer
members and messages than that, so no client waits for an answer because of a
bound. Deadlock checking is off where bounds or the end of all conversation stop the
model, and on for the server's registry.

Sessions, rooms and names are symmetric in the runs that check safety; the
liveness runs use no symmetry.

Every property of a passing run has a mutant in `PROJECT.json`: a small change of
one mapped definition (a guard dropped, a reset forgotten, an order swapped) under
which TLC finds the property violated.

## 4. Fairness

Only `group_chat_live`, `direct_chat_live`, `bridge`, `local_db` and `console_hang`
assume fairness, and only of what the system schedules on its own:

- the server's handlers (`Handler(s)`): the `io_context` runs what is ready, in
  the order it was posted on a strand;
- a session whose client is gone ends (`~Linked(s) /\ Expire(s)`): Beast's
  suggested server timeouts close an idle stream whose peer does not answer;
- a client handles what arrives, notices that the server has closed the
  connection, and connects again: Qt's event loop and the reconnect timer. The
  model does not count attempts, so this assumes that one of the ten succeeds;
- in `DirectChat`, callbacks that have been posted are run, a library that has both
  descriptions opens the channel, and one whose other side is gone notices it;
- in `ClientBridge`, both threads run what is queued for them, an attempt to connect
  ends one way or the other, the timer of `reconnect()` fires, and a lost connection is
  noticed on either side. Here the attempts are counted: an attempt that fails is one
  of `MaxBreaks`;
- in `LocalDatabase`, `init` runs on, and a program that failed is started again;
- in `ConsoleClient`, both threads run handlers that are ready, and the main thread
  goes on where it has nothing to wait for. `console_hang` fails in spite of that.

What users do (joining, leaving, posting) and what networks do (losing
connections) is never fair. Weak fairness is enough: each of these steps stays
enabled until it is taken.

## 5. Proofs

`tlapm M.tla` checks each of the eight proof modules from nothing. All theorems are for
any sets of sessions, rooms, names and messages and for any bounds; what else a theorem
assumes is said with it.

### The registry

The properties one would like to have of the registry are not inductive one by one.
That a session in RAM is a member in the database is kept by a new join only if the
id it is given is nobody's, which needs the counter to be ahead of every id;
it is kept by a leave only if no other session is that member, which needs
`connections_` and `clients_` to agree; and that is kept by a reconnection only if
the name belongs to one member. So the invariant is their conjunction:

```
RegistryInv == TypeOK /\ ClientsAreMembers /\ ConnectionsMatchClients
               /\ UniqueUsernames /\ StoreConsistent /\ PeerIdsFresh
```

`RoomRegistryProofs` has the lemmas on tables, what each store method changes, and
what each registry action does to the parts of `RegistryInv`, to messages and to
cursors. The theorems:

| Theorem | States |
|---|---|
| `TypeCorrect` | `Spec => []TypeOK`, which includes that no cursor is ahead of the counter |
| `RegistryConsistent` | `Spec => []RegistryInv` |
| `ClientsAreMembersAlways`, `ConnectionsMatchClientsAlways`, `UniqueUsernamesAlways`, `StoreConsistentAlways` | its parts |
| `MembershipEndsByLeave` | `Spec => OnlyOwnLeaveEndsMembership` |
| `DeletionNeedsAllAcks` | `Spec => DeletedOnlyWhenAllAcked` |
| `MessagesBufferedUntilAcked` | `Spec => []BufferedUntilAcked`, from `RegistryInv` and that cursors are sent numbers |
| `DirectRoomsStayDirect` | `Spec => []DirectCapacity` |

The assumptions are `RegistryAssumption` (the marker `Expired` is no session, the
bounds are natural numbers). `DirectRoomsStayDirect` needs the members of a room to
be a finite set, which follows from the ids being below `MaxPeerSeq + 1`.

### The registry implements its promise

`RoomRegistryProofs` also maps each step of `RoomRegistry` to a step of `ChatRooms` or to
none.

| Theorem | States |
|---|---|
| `NothingLingersAlways` | `Spec => []NothingLingers`: a message is stored only while some member of its room has yet to acknowledge it |
| `RegistryKeepsPromise` | `Spec => KeepsPromise` |

The mapping says that the inbox of a member is its messages after its cursor. For a
step of the code to be a step of the promise it must not touch the inboxes of others:
an acknowledgement moves one cursor and deletes what is behind all of them, and a leave
lets the others keep theirs. A member that joins anew has a cursor of 0, so its inbox is
all that is left of the room. `ChatRooms` allows a newcomer only what some other member
has still to get, so a row that everybody has acknowledged, left behind by a leave, would
break the refinement. `RegistryInv` says nothing of that; `NothingLingers` does, and is
inductive with it.

### The registry under faults

`RegistryInv` does not survive a restart, or a store that fails half-way through
`leave`, so nothing in `RoomFaultsProofs` assumes that RAM and database agree. What
is left is inductive by itself, `FaultInv`: the types, and the properties of the run
`faults`. The run has one fault; the theorems have any number of them.

| Theorem | States |
|---|---|
| `FaultsKeepInv` | `FaultSpec => []FaultInv` |
| `NumbersNeverReusedWhileStored` | `FaultSpec => []MessagesNumbered`: the counter, though computed from the rows that are left, is never behind a stored message |
| `MembersHaveRoomsDespiteFaults`, `DeliveriesStayDespiteFaults`, `OneEntryDespiteFaults`, `BufferedDespiteFaults` | the other parts |

That a member's messages stay buffered needs no agreement of RAM and database: a row is
deleted only when every cursor of its room has passed it, or when its room has no
member left, and both are read from the tables at that moment.

### The chat uses the registry

`GroupChatProofs` is about server and clients together; its first part is for any number
of clients and worker threads.

| Theorem | States |
|---|---|
| `ChatTypes` | `ChatSpec => []ChatTypeOK`: types, and every number under way in a request, a handler or an outbox, shown or unseen, has been handed out |
| `ChatUsesRegistry` | `ChatSpec => UsesRegistry`: each step is a step of `RoomRegistry` or leaves it alone |
| `ChatKeepsRegistry` | `ChatSpec => [](RegistryInv /\ BufferedUntilAcked)`, by the two before |

`RoomRegistry` restricts acknowledgements to numbers that have been handed out (its
action `Requests`), which is an assumption about clients. Here it is discharged: the
number in an `ack` is that of a message shown, which came from an outbox, which was
filled by a handler, which had it from `broadcastToRoom` or `getPendingMessages`. For
the latter the invariant of the registry is needed, so types and `RegistryInv` are
proved together (`ChatInv`).

### Group messages in order

The second part of `GroupChatProofs` has two theorems, for any number of clients, rooms
and sessions and through any losses of connections. The first:

| Theorem | Assumes | States |
|---|---|---|
| `ShownInOrderWithOneThread` | `Workers = 1`, the default of `main.cpp` | `ChatSpec => []ShownInOrder` |

The numbers of a room are in three places: shown to a user, in the outbox of the session
the client is connected to, and in the steps a handler has still to take. A `joined` on
its way separates what is before it from what follows, because the client begins anew
with it. The invariant is `OrderInv`:

- `WayInOrder`: the numbers in an outbox ascend since the last `joined` of their room,
  and are above all shown by the client at the other end.
- `OneThread`: at most one handler has steps left. This is all that is made of the
  assumption, and the theorem fails without it.
- `HandlerInOrder`: what the handler that runs is about. Its steps have no numbers
  (`Plain`); or it broadcasts one message to each session at most once, and all on its way
  to those, and shown there, is older (`Broadcasting`); or it answers a join and is before
  one of `joined`, the look-up and `buffered-messages`. In the last two nothing of the room
  has been sent since `joined` (`Clear`), so whatever the look-up finds is in order.
- `LinksApart`, `ClosedIsEmpty`, `OneEntry`: two clients are never at the end of one
  session, an outbox is empty unless its session is open, and a session is in a room once.

That a new message is above all that was ever sent comes from `ChatTypes`: every number
under way has been handed out, so is at most the counter. `OrderInv` was first checked
with TLC on the instance of the run `group_chat`.

### No group message is lost

The second:

| Theorem | Assumes | States |
|---|---|---|
| `UnseenBufferedWithOneThread` | `Workers = 1` | `ChatSpec => []UnseenIsBuffered`: what was sent while a user was a member and has not been shown to that user is still buffered for it |

A message that is buffered for a member is lost to it when the member acknowledges a
later one: `updateMemberAck` moves the cursor past both, and the older one is never
looked up again. So an acknowledgement must not pass over anything unseen, and as
clients acknowledge what they are shown, nothing may be shown before what is older and
unseen. The invariant is `UnseenInv`, inductive together with `ChatInv` and `OrderInv`:

- `UnseenIsOwed`: the member of the user's name owes an acknowledgement of what the user
  has not seen. With `BufferedUntilAcked`, a theorem above, and unique names this is
  `UnseenIsBuffered`.
- `AcksSpareUnseen`: an acknowledgement still to be read is for less than anything its
  sender has not seen.
- `WaySparesUnseen`, `StepsSpareUnseen`: a number in an outbox, or in a step about to be
  taken, has what is unseen and older before it in that outbox or in its own message.
- `UnseenArrives`: what a client has not seen of a room its session is in is in the
  outbox, about to be sent, or about to be looked up. This is what makes the two before
  inductive: when a new message is broadcast to a session, what is older and unseen is on
  its way already, because no other handler has steps left.
- `LookUpsAreOwn`: a look-up is for the member the session has joined as, so what it
  finds is all that this member owes.
- `OneOwner`: a session is of one user, in its link, its entries and its joins. Without
  it an acknowledgement of one user could move the cursor of another.

With two threads `UnseenArrives` does not help: the broadcast may reach the outbox before
the look-up of a join that is under way. `UnseenInv` was first checked with TLC on the
instance of the run `group_chat`.

### Clients see who is online

`GroupPresenceProofs`, again for any number of clients, rooms and sessions and through any
losses of connections:

| Theorem | Assumes | States |
|---|---|---|
| `NobodyMissingWithOneThread` | `Workers = 1` | `ChatSpec => []NobodyMissing`: when nothing is on its way to or from a client, it shows everybody who is online in its rooms |
| `NoGhostsWithOneThread` | `Workers = 1` | `ChatSpec => []NoGhosts`: nor does it then show anybody who is gone, unless its user leaves chats |

The registry knows who is online at once; a client knows it from `joined`, `peer-joined`
and `peer-left`, which a handler sends one by one after the mutex, and which lie in an
outbox until they are read. The invariant, `PresenceInv`, speaks of a client as it will be
when all of that has been sent and read (`WillKnow`, `WillSee`): a peer is added by the last
message that is about it, or was there before and is not dropped by any. It has these
parts, inductive together with `ChatInv` and `OrderInv`:

- `NobodyMissed`: if a client has joined, or `joined` is on its way to it, then it will see
  each other member that is online. When `joined` has yet to be read only what comes with it
  or after counts (`Anew`), as the client may be connecting again.
- `NoGhostsToCome`: what a client will see of a room is who is online there, if it does
  not leave chats.
- `ToldOnce`: the steps of a handler tell one session of one room once. Otherwise the order
  in which they are taken would matter: a step goes to its sessions in any order.
- `JoinsAreEntries`, `KnownAreEntries`: a `joined` on its way, and a peer id the client has
  taken from one, belong to an entry of the registry, and there is never a second `joined`
  for the same room.
- `LeavesAreLast`: a `leave` that will be granted is that of a client which has forgotten
  the room, so nobody is taken out of a room it shows. A `leave` under an id that belongs
  to another is refused, and ids are not handed out again.
- `OthersStay`, `LostIsFresh`: who leaves no chats has no `leave` on its way, and a client
  without a connection remembers no participants.

One thread is needed because what two handlers have to tell of one room may otherwise cross:
with two, the `peer-left` of a member can overtake the `joined` that still lists it. A client that leaves and
joins again is left out because `joined` does not empty its list (section 6). `PresenceInv`
was first checked with TLC on the instance of the run `group_chat`.

### Direct rooms

`DirectChatProofs`, for any numbers of messages and moves and any set of foreign ids.

| Theorem | Assumes | States |
|---|---|---|
| `DirectTypes` | - | `Spec => []TypeOK`, which includes that queues keep to their cap |
| `DirectMessagesInOrder` | - | `Spec => []ShownInOrder`, through every loss and failure |
| `OffersCrossSafely` | no `"disconnect"` and no `"other room"` among `Troubles` | `Spec => []NoCrash` |

A text is in one of four places: shown, among the callbacks posted, on the wire, in
the queue. `Ordered` says that each is ascending and all of each come before all of the
next, up to the text to be sent next; each step moves texts from the head of one place
to the end of the one before, or drops them. `OnEvent` is the one that needs care:
flushing appends the queue to the wire, so nothing in it may be older than what is
there already.

`NoCrash` (an answer is set only where an offer awaits one) needs to know where offers
and answers are. `GlareOK`: an offer under way is from a connection that still waits,
or will be turned down because the other side holds on to its own connection; an answer
under way is from a connection made for an offer, and to the connection of that offer,
which waits; there is one at most. The assumptions are necessary: with `"other
room"` both may yield, and with `"disconnect"` an answer can meet a later connection,
where what happens is the library's decision (section 6).

### The console program

`ConsoleClientProofs`, for any finite set of rooms, any peers and any numbers of texts,
moves, ends of the program and lost connections (`ConsoleBounds`):

| Theorem | States |
|---|---|
| `ConsoleInvariant` | `Spec => []ConsoleInv`, the inductive invariant |
| `AcknowledgedIsKept` | `Spec => []NothingSlips`: what has been acknowledged is in the database or in `incomingQueue`, but for what came during a walk or was queued at an end |
| `StoredInOrderOnce` | `Spec => []StoredInSequence`: while no connection is lost, what is written to a room is stored in that order, and once |
| `StoredUnderSender` | `Spec => []SendersKnown`: under the peer it came from, of which a run of the program adds one member for each room at most |

That nothing slips is about one loop, but depends on most of the program:

- `WalkInv`: the loop of `flushIncoming` writes an element in three operations, each a
  `run_and_wait` that lets others append to the vector. `WalkOK` says what the walk has
  read of the element it is at, and what of it is still good once the vector has moved;
  `WalkLosesNothing` that each element is stored, or excused, or still to be written.
- `WorldInv`: the server sends a session all that it has not acknowledged, once, in
  order (`NoGaps`), so an acknowledgement never stands for a message that was not sent
  to this program. It needs that a session ends with its connection (`SessionsOK`).
- `MainInv`: a room is joined, at the start or by the menu, only when its chat is in the
  database (`JoinedOK`), since what comes from a room without a chat is not stored.
- `OrderInv`: a stored message is one of the log, in the chat of its room, and older than
  all that the walk has not passed. With the queue in order this is `StoredInSequence`.
- `FewMembers`: the members of a peer are at most one for each room and run of the
  program. The proof counts: a member is added only for a key `senderMemberIds` lacks,
  and the map is lost only with the program.

### The graphical client

`ClientBridgeProofs`, for any rooms and peers and any numbers of texts, moves, attempts
and lost connections (`BridgeBounds`):

| Theorem | States |
|---|---|
| `SentFromTheDatabase` | `Spec => []SentIsStored`: what the client hands to the server or a data channel is in its database, unless the user has removed its chat, and is handed over once |
| `StoredUnderWriter` | `Spec => []RightSender`: each message is stored under the member that wrote it |

A coroutine goes on, after each repository call, with what it had read before; any number
of others have run in between, and chats have been created and removed. So the invariant
(`BridgeInv`) says for each place where a coroutine may be suspended what it may still
rely on:

- `TypeInv`: the types, with the shape of a coroutine at each place (`TaskShape`), and
  that ids are new.
- `SendInv`: a text is at one stage, a coroutine, an event of the Qt thread, or handed over
  or queued for a peer; from the second on it is stored, or was until its chat was removed.
  A text whose chat is removed while its coroutine is suspended never gets to the second:
  the foreign key refuses it. This is `SentIsStored`, inductive with `TypeInv`.
- `WriterInv`: whatever the server sends is signed by the peer that wrote it, or by the
  id the user has in the room, and the client knows that id before it can get an echo
  (`KnowsId`), because `joined` is ahead of it in the same connection. The exception is a
  room whose chat the user has removed, whose id the client forgets.
- `MemberInv`: the user's messages are stored under the first member of the chat, so the
  first row of `chat_members` of each chat must be the user's (`RowsInv`). A chat is
  created by the coroutine of `joined`, which adds the user two turns later; one of a
  message that finds the chat meanwhile will add its sender. `FirstInv` says that the
  user's is always first: it has fewer turns left than any other, or as many and is ahead
  in the queue (`ComesFirst`). This is where first in, first out is used, and with two
  threads behind the `io_context` it would not hold. A chat may be removed while a
  coroutine is at work on it. So of what a coroutine has found the invariant says that the
  user is first in the chat (`Headed`) or that the chat is gone for good (`Gone`), as its id
  will not come again; then nothing is stored any more.

### The migrations

`LocalDatabaseProofs` proves of `LocalDatabase`, for any programs, any number of
tables and any number of faults:

| Theorem | States |
|---|---|
| `VersionEarnedAlways` | `Spec => []VersionEarned`: a version in `schema_version` has its table and indexes, and those of all versions before |
| `ReadyHasTablesAlways` | `Spec => []ReadyHasTables`: when `init` has returned true, every table is there |

That a version is earned is not inductive: it depends on what the program that
records it has done, which other programs may have done before it or set back.
`OpeningInv` adds what each program may rely on where it is (`Reached`). What makes
it inductive is that nothing is ever dropped (lemma `NothingDropped`), so what one
program has reached stays reached whatever the others do; the version a program reads
may be any recorded one, and by `VersionEarned` whichever it is has been earned. The
assumption is `DatabaseBounds` (the bounds are natural numbers).

### Only model-checked

Of `ClientBridge` that messages are stored in order and without copies (`StoredInOrder`). It
bounds the copies of a text by the number of connections lost, so each text would have to be
followed through every coroutine that was started for it. Everything of
`ClientViews`: its windows settle when nothing is under way, which depends on the order of
all that was. All liveness, which TLAPS does not prove: `Heard` and `JoinIsAnswered` of
`ClientBridge`, and the runs named `live`, `console_hang` and `local_db`. Where a type
invariant is a theorem (`TypeCorrect`, `DirectTypes`, `ChatTypes`), no run repeats it.

## 6. What the checks show about the code

What holds: without faults the registry keeps all it promises, for any number of
sessions, users and threads; through faults it still buffers what is owed and delivers
to nobody outside a room; with one thread group messages are neither lost, doubled nor
reordered through any losses of connections; the negotiation of direct rooms copes
with crossing offers. The coroutines of the graphical client, though they interleave
at every repository call, keep messages in order and under the right sender, because
the queue of the `io_context` is first in, first out and coroutines of the same shape
stay in step; its windows settle on what the database has. Migrations bear whatever
is done to them.

What does not, each a run of its own with the counterexample TLC prints:

- **Peer ids come back after a restart** (`peer_id_reuse`). `nextPeerSeq_` starts at
  1 in each process while members stay in the database, and `saveMember` replaces
  the row with the same id: a newcomer can take over an old member's row.
- **The console program can hang in its main loop** (`console_hang`). `run_and_wait`
  blocks in `run_one()` until the main thread itself has run a handler; the thread of
  `DependencyContainer` may have run all there were.

Observations about the server and its protocol, each found with TLC by changing a
constant or adding a property as told:

- Message numbers come back after a restart (`SeqNeverGoesBack` as PROPERTY of
  `MCPeerIdReuse.cfg`). The counter is computed from the messages that are left, and
  delivered ones are deleted, though `sqlite_room_store.cpp:51` says "to guarantee
  monotonic growth". A message with a number at or below a member's cursor is not
  pending for it.
- With worker threads a message can be acknowledged unseen (`Workers = 2` in
  `MCGroupChat.cfg`: `UnseenIsBuffered`; `NoGhosts` fails earlier still). With one it
  cannot (`UnseenBufferedWithOneThread`). Numbers are given under the mutex, sends are
  posted after it; an acknowledgement stands for all lower numbers.
- A refused rejoin is final (`StaysJoined` as PROPERTY of `FairChatSpec`). A client
  that is back before the server has noticed its loss is refused its own name and does
  not ask again.
- Who yields is decided with the wrong id (`OneYields` as INVARIANT of
  `MCDirectChat.cfg`, whose troubles include `"other room"`), though
  `WebRTCService.cpp:54` says that the smaller peer id yields. One `m_localPeerId` serves
  all rooms and is set by whichever was joined last, so after joining a second room both
  clients of the first may yield, or neither. As long as there is one room the ids compared
  are fixed and differ, so no run or theorem has that as a property of its own.
- `DeliveredIsShown` fails in `MCDirectChatLive.cfg` with `"failure"` among the
  `Troubles` and four moves: an
  entry of `m_connections` whose connection failed is never removed, so no new one
  is made and the queue is not flushed. No text promises otherwise.
- With `"disconnect"`, an answer meant for an earlier connection can reach a later
  one (`WebRTCService.cpp:125`); what happens then is the library's decision, which
  is why `NoCrash` and `ChannelOpens` are checked without it.
- A client that leaves a room and joins it again can keep a participant who is
  gone, because `joined` adds to a set that an earlier `peer-joined` may have
  reached: `NoGhosts` is stated for users that do not leave.
- `server/README.md:79` says that the server keeps no message history; it buffers
  group messages in SQLite until all members have acknowledged them.

Observations about the graphical client:

- A join of a chat that is pending when any request fails, or any attempt to connect,
  is forgotten; the user is told (`JoinIsAnswered` holds in that sense).
- Rooms joined before a connection was lost are not joined again: messages sent there
  meanwhile are stored, and refused by the server.
- Removing a chat deletes its messages, by the cascade, also those just sent
  (`SentIsStored` has the exception); a message whose coroutine had not got to its
  `addMessage` is not sent, and the user sees the database's error.
- Messages that come before the chat of their room is stored are acknowledged and
  dropped (`Heard` asks for the chat); a message whose acknowledgement was lost is
  stored again (`StoredInOrder` counts a copy for each lost connection), and so is what
  the server still buffers when a room is left and joined again while it has a chat.
- Two coroutines may create two members for one new sender (`StoredInOrder` is stated
  for each member).
- When the chat of a room is removed the client forgets its peer id there at once. If the
  connection has just been lost, or another chat of the same room is left, its own messages
  can still come back, and are then stored as somebody else's (`RightSender` without the
  exception fails with one room, no peer, one text, three moves and two lost connections).
- In a direct room a message sent while others are queued for the channel that has just
  opened overtakes them.
- When a chat is removed the selection moves to the chat that takes its row, and a
  message the user sends before looking goes there. A search moves rows but not the
  selection (`SelectionShown` is stated for no search).
- The messages of a chat with more members may stay on the screen after another is
  selected, until the next refresh (`WindowsSettle` states just that exception).
- Joining a chat gives the new nickname to the chat selected at that moment as well.
- Two quick saves of the settings without a profile add two profiles
  (`SettingsSaved` asks for one at the start).
- `chatNicknames_` and `peerUsernames_` are read on the io thread while the Qt thread
  writes them, without a lock. The models read them in one step.

Observations about the console program:

- What arrives while `flushIncoming` waits is dropped by its `clear()`, or, if the
  vector moves, what was not yet read is stored without sender and text; what is in
  the queue at an exit is lost. All of it has been acknowledged. `NothingSlips` holds
  with exactly these exceptions.
- The queue is written only when the user has chosen an option.
- The program's own group messages come back and are stored again as incoming ones,
  under a member with its own peer id.
- A message is sent before it is stored, and stored as delivered whether it was sent
  or not.

Observations about the database: two programs that start together on a new file may
both insert a row into `schema_version`; then no `UPDATE` succeeds, nobody looks, and
every start runs all migrations again, which they bear (`OpensAtLast`).

## 7. Abstractions, and what is not modelled

- Names, timestamps, payloads and JSON texts: nothing branches on them. A message
  is its number.
- A WebSocket, its outbox and the handlers posted to its strand are one queue, and
  its loss empties it.
- Group and direct rooms are checked apart: `GroupChat` has group rooms,
  `DirectChat` one direct room; other rooms of a client enter `DirectChat` only by
  the peer id they set.
- `DirectChat` takes the server for a process that handles requests in order and
  knows at once that a connection is lost; `GroupChat` has the delay. Leaving a
  direct room is left out, as are ICE candidates: two connections that have each
  other's description can talk.
- libdatachannel is external: it makes an offer or an answer when asked, opens a
  channel between two connections that match, reports its end, and throws when an
  answer is set that no offer awaits.
- `GroupChat` does not count reconnection attempts; `ClientBridge` counts them.
- `ClientBridge` and `ConsoleClient` see the server through one queue of what it sends
  them; requests are served at once, in order, and a lost connection loses what is
  under way. The names and peers of a room are those of its members; uuids and peer
  ids come from one counter.
- The coroutines of `ClientBridge` and those of `ClientViews` are checked apart: the
  first without refreshes, the second with the writing coroutines from their first
  write on. Both kinds share one `io_context`, and a refresh between two steps only
  delays the others.
- Messages are of different seconds; within one second SQLite chooses the order.
- `ConsoleClient` has group rooms. That an `io_context` resumes coroutines in the order
  they were posted is what one thread running it gives; in the console program two do,
  and there only one coroutine is under way at a time.
- A database that is migrated is a set of tables, indexes and versions: an SQL
  statement happens or is refused.
- Not modelled: the protocol's parsing; the QML interface, the dependency container and
  the configuration (no protocol of their own); the bind, STUN and relay checks of
  `ClientBridge`, which fill two text fields each; the files it keeps nicknames in;
  `StunProbeService`, which nothing calls; repository methods nothing calls; the
  server's start and stop, which `main.cpp` calls once each; PostgreSQL migrations, of
  which the code builds nothing by default.

## 8. What could come next

The modules were written in this order: `RoomStore`, `RoomRegistry`, `ChatRooms`,
`RoomRegistryFaults`, `MessageHandler`, `GroupChat`, `DirectChat`, the proofs about the
registry; then `LocalStore`, `ClientBridge`, `ClientViews`, `ConsoleClient`,
`LocalDatabase` and its proofs; then the proofs about the promise, the faults, the chat,
direct rooms, the order of group messages and that none is lost; then those about the two
client programs and about who is shown in group rooms.

Theorems worth proving next:

1. `ClientBridge`: `StoredInOrder`, from the order of the coroutines of one chat.
2. `ClientViews`: `WindowsSettle`, from the refresh that was started last.

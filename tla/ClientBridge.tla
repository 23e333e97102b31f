----------------------------- MODULE ClientBridge -----------------------------
(***************************************************************************)
(* The graphical client between its user, the server, its peers and its    *)
(* database.  Signals and slots run on the Qt thread, one event at a time;  *)
(* whatever touches the database is a coroutine on one io thread.  Every    *)
(* repository call suspends its coroutine by posting it to the end of the   *)
(* io_context's queue, so coroutines interleave at those calls, in FIFO     *)
(* order; what the Qt thread must do next is queued to it as a lambda.      *)
(*                                                                          *)
(* The server is the one of RoomRegistry and MessageHandler, reduced to     *)
(* what this client sees of it.  What the windows show is ClientViews.      *)
(***************************************************************************)
EXTENDS LocalStore, FiniteSets, FiniteSetsExt

CONSTANTS
  Rooms,
  Peers,        \* the other peers; each has one peerId, in one room
  Home,         \* which room that is
  None,
  MaxReconnectAttempts,
  MaxTexts,     \* texts written, by the user and the peers together
  MaxMoves,     \* what the user does besides sending, and peers going
  MaxBreaks     \* connections lost, or that could not be opened

Me == "me"

ASSUME BridgeBounds ==
  /\ Cardinality(Rooms) > 0
  /\ None \notin Rooms \cup Peers \cup Nat
  /\ Me \notin Peers
  /\ Home \in [Peers -> Rooms]
  /\ MaxReconnectAttempts \in Nat \ {0}
  /\ MaxTexts \in Nat /\ MaxMoves \in Nat /\ MaxBreaks \in Nat

VARIABLES
  \* --- the client ---
  store,      \* the database
  tasks,      \* the suspended coroutines in the queue of the io_context
  events,     \* the lambdas and signals in the queue of the Qt thread
  pending,    \* pendingJoin*_: the room asked for, or None
  myPeer,     \* myPeerIdByRoom_
  roomType,   \* roomTypeByRoom_
  peerToRoom, \* peerToRoom_
  names,      \* peerUsernames_: the keys <<room, peer>> with a user name
  queued,     \* pendingDirectMessages_
  nextId,     \* what the next random uuid is
  link,       \* the socket: "closed", "connecting", "up", "broken"
  attempts,   \* m_reconnectAttempts
  timers,     \* how many timers of reconnect() run
  \* --- what is around it ---
  kind,       \* the type of each room
  rooms,      \* the server's rooms
  inbox,      \* sent by the server and not yet read
  channel,    \* the data channel to each peer
  author,     \* who wrote each text, in order
  wire,       \* history: the texts handed to the server for a room, and to
              \* the channel of a peer
  lost,       \* history: the texts that were in chats the user removed
  moves, breaks

clientVars == <<store, tasks, events, pending, myPeer, roomType, peerToRoom,
                names, queued, nextId>>
linkVars == <<link, attempts, timers>>
worldVars == <<kind, rooms, inbox, channel, author, wire, lost,
               moves, breaks>>
vars == <<clientVars, linkVars, worldVars>>

TypeOf(r) == IF roomType[r] = None THEN "group" ELSE roomType[r]

IsConnected == link \in {"up", "broken"}

ChatsOf(db, r) ==
  {i \in DOMAIN GetAllChats(db) : GetAllChats(db)[i].room = r}

Spawn(task) == Append(tasks, task)

-----------------------------------------------------------------------------
(* The server: what it does with a request, and what this client is sent.   *)

\* session: "none", "now" for the client's present connection, "old" for one
\* the server does not know to be lost.  History: left, whether the server has
\* been left, and removed, whether the client has forgotten its peer id.
EmptyRoom ==
  [log |-> <<>>, mine |-> None, session |-> "none", cursor |-> 0,
   here |-> {}, left |-> FALSE, removed |-> FALSE]

Told(r, message) ==
  IF rooms[r].session = "now" THEN Append(inbox, message) ELSE inbox

Unacked(room, cursor) ==
  [i \in 1..(Len(room.log) - cursor) |->
     [from |-> room.log[cursor + i].from, text |-> room.log[cursor + i].text,
      seq |-> cursor + i]]

ServeJoin(r) ==
  LET room == rooms[r]
      id   == IF room.mine = None THEN nextId ELSE room.mine
  IN  IF room.session = "none"
      THEN /\ rooms' = [rooms EXCEPT ![r].session = "now", ![r].mine = id]
           /\ inbox' = Append(inbox, [type |-> "joined", room |-> r, me |-> id,
                                      here |-> room.here])
                       \o (IF kind[r] = "group" /\ Len(room.log) > room.cursor
                           THEN <<[type |-> "buffered", room |-> r,
                                   messages |-> Unacked(room, room.cursor)]>>
                           ELSE <<>>)
           /\ nextId' = IF id = nextId THEN nextId + 1 ELSE nextId
      ELSE /\ inbox' = Append(inbox, [type |-> "error"])
           /\ UNCHANGED <<rooms, nextId>>

Logged(r, from, text) ==
  [rooms EXCEPT ![r].log = Append(@, [from |-> from, text |-> text])]

GroupMessage(r, from, text) ==
  [type |-> "group", room |-> r, from |-> from, text |-> text,
   seq |-> Len(rooms[r].log) + 1]

ServeGroupMessage(r, text) ==
  IF rooms[r].session = "now"
  THEN /\ rooms' = Logged(r, rooms[r].mine, text)
       /\ inbox' = Append(inbox, GroupMessage(r, rooms[r].mine, text))
  ELSE /\ inbox' = Append(inbox, [type |-> "error"])
       /\ UNCHANGED rooms

Forgotten(r) == [rooms EXCEPT ![r].removed = TRUE]

ServeLeave(r, peer) ==
  IF rooms[r].session = "now" /\ rooms[r].mine = peer
  THEN /\ rooms' = [Forgotten(r) EXCEPT ![r].session = "none",
                      ![r].mine = None, ![r].cursor = 0, ![r].left = TRUE]
       /\ UNCHANGED inbox
  ELSE /\ inbox' = Append(inbox, [type |-> "error"])
       /\ rooms' = Forgotten(r)

\* The acknowledgements of one handler; the rest of the inbox is rest.
ServeAcks(r, seqs, rest) ==
  LET refused == rooms[r].session # "now"
  IN  /\ rooms' = IF link # "up" \/ refused \/ seqs = {} THEN rooms
                  ELSE [rooms EXCEPT ![r].cursor = Max(seqs)]
      /\ inbox' = IF link = "up" /\ refused /\ seqs # {}
                  THEN Append(rest, [type |-> "error"]) ELSE rest

-----------------------------------------------------------------------------
(* The user.                                                                *)

\* sendMessage of SignalingService for a join: refused locally, by an error
\* that clears the pending join, unless the socket is connected.
AskToJoin(r) ==
  IF link = "up" THEN ServeJoin(r) ELSE UNCHANGED <<rooms, inbox, nextId>>

\* createNewChat and joinChatById: ensureSignalingConnected opens the socket
\* if it is not connected, and the join waits for connected() then.
RequestChat(r) ==
  /\ moves < MaxMoves
  /\ moves' = moves + 1
  /\ pending' = r
  /\ link' = IF IsConnected THEN link ELSE "connecting"
  /\ AskToJoin(r)
  /\ UNCHANGED <<attempts, timers, store, tasks, events, myPeer, roomType,
                 peerToRoom, names, queued, kind, channel, author, wire, lost,
                 breaks>>

\* A room that is new, which only its creator asks for.
CreateNewChat(r) ==
  /\ rooms[r].log = <<>> /\ rooms[r].here = {} /\ rooms[r].mine = None
  /\ RequestChat(r)

JoinChatById(r) ==
  /\ rooms[r].log # <<>> \/ rooms[r].here # {} \/ rooms[r].mine # None
  /\ RequestChat(r)

NextText == Len(author) + 1

\* sendMessage of the selected chat.
SendMessage(chat) ==
  /\ NextText <= MaxTexts
  /\ author' = Append(author, Me)
  /\ tasks' = Spawn([op |-> "send", at |-> "start", chat |-> chat,
                     room |-> None, text |-> NextText, left |-> <<>>,
                     found |-> <<>>])
  /\ UNCHANGED <<store, events, pending, myPeer, roomType, peerToRoom, names,
                 queued, nextId, kind, rooms, inbox, linkVars, channel, wire,
                 lost, moves, breaks>>

\* removeCurrentChat: its first coroutine.
RemoveCurrentChat(chat) ==
  /\ moves < MaxMoves
  /\ moves' = moves + 1
  /\ tasks' = Spawn([op |-> "leave", at |-> "start", chat |-> chat])
  /\ UNCHANGED <<store, events, pending, myPeer, roomType, peerToRoom, names,
                 queued, nextId, kind, rooms, inbox, linkVars, channel, author,
                 wire, lost, breaks>>

UserActs ==
  \/ \E r \in Rooms : CreateNewChat(r) \/ JoinChatById(r)
  \/ \E i \in DOMAIN store.chats :
       \/ SendMessage(store.chats[i].id)
       \/ RemoveCurrentChat(store.chats[i].id)

-----------------------------------------------------------------------------
(* The Qt thread: what the server sends.                                    *)

\* handleIncomingMessage up to its first suspension.
Incoming(r, from, text) ==
  [op |-> "incoming", at |-> "start", room |-> r, from |-> from,
   name |-> None, text |-> text, chat |-> None, left |-> <<>>,
   found |-> <<>>]

\* The lambda of "joined", then handleSignalingJoined.
OnJoined(m) ==
  /\ myPeer' = [myPeer EXCEPT ![m.room] = m.me]
  /\ roomType' = [roomType EXCEPT ![m.room] = kind[m.room]]
  /\ peerToRoom' = [p \in Peers |-> IF p \in m.here THEN m.room
                                    ELSE peerToRoom[p]]
  /\ names' = names \cup {<<m.room, p>> : p \in m.here}
  /\ IF pending = m.room
     THEN /\ pending' = None
          /\ tasks' = Spawn([op |-> "joined", at |-> "start",
                             room |-> m.room, chat |-> None])
     ELSE UNCHANGED <<pending, tasks>>
  /\ inbox' = Tail(inbox)
  /\ UNCHANGED <<rooms, channel, queued>>

OnPeerJoined(m) ==
  /\ peerToRoom' = [peerToRoom EXCEPT ![m.peer] = m.room]
  /\ names' = names \cup {<<m.room, m.peer>>}
  /\ channel' = IF roomType[m.room] = "direct" /\ channel[m.peer] = "none"
                THEN [channel EXCEPT ![m.peer] = "opening"] ELSE channel
  /\ inbox' = Tail(inbox)
  /\ UNCHANGED <<myPeer, roomType, pending, tasks, rooms, queued>>

OnPeerLeft(m) ==
  /\ peerToRoom' = [peerToRoom EXCEPT ![m.peer] = None]
  /\ channel' = [channel EXCEPT ![m.peer] = "none"]
  /\ inbox' = Tail(inbox)
  /\ UNCHANGED <<myPeer, roomType, names, pending, tasks, rooms, queued>>

\* groupMessageReceived: the own echo is skipped; any other is acknowledged.
OnGroupMessage(m) ==
  LET own == m.from = myPeer[m.room]
  IN  /\ tasks' = IF own THEN tasks
                  ELSE Spawn(Incoming(m.room, m.from, m.text))
      /\ ServeAcks(m.room, IF own THEN {} ELSE {m.seq}, Tail(inbox))
      /\ UNCHANGED <<myPeer, roomType, peerToRoom, names, pending, channel,
                     queued>>

\* Mutant of OnBufferedMessages: the own messages are not skipped.
OnBufferedEchoes(m) ==
  /\ tasks' = tasks \o [i \in DOMAIN m.messages |->
                  Incoming(m.room, m.messages[i].from, m.messages[i].text)]
  /\ ServeAcks(m.room, {m.messages[i].seq : i \in DOMAIN m.messages},
               Tail(inbox))
  /\ UNCHANGED <<myPeer, roomType, peerToRoom, names, pending, channel,
                 queued>>

\* The one sequence of these numbers from the smallest up.
Ascending(ns) ==
  {seq \in [1..Cardinality(ns) -> ns] :
     \A i, j \in DOMAIN seq : i < j => seq[i] < seq[j]}

\* bufferedMessagesReceived: the same for each message of the list.
OnBufferedMessages(m) ==
  LET foreign == {i \in DOMAIN m.messages :
                    m.messages[i].from # myPeer[m.room]}
  IN  /\ \E order \in Ascending(foreign) :
           tasks' = tasks \o [i \in DOMAIN order |->
             Incoming(m.room, m.messages[order[i]].from,
                      m.messages[order[i]].text)]
      /\ ServeAcks(m.room, {m.messages[i].seq : i \in foreign}, Tail(inbox))
      /\ UNCHANGED <<myPeer, roomType, peerToRoom, names, pending, channel,
                     queued>>

\* errorReceived, whichever request the server refused.
OnErrorReceived ==
  /\ pending' = None
  /\ inbox' = Tail(inbox)
  /\ UNCHANGED <<myPeer, roomType, peerToRoom, names, tasks, rooms, channel,
                 queued>>

OnMessage ==
  /\ inbox # <<>>
  /\ LET m == Head(inbox)
     IN  \/ m.type = "joined" /\ OnJoined(m)
         \/ m.type = "peer joined" /\ OnPeerJoined(m)
         \/ m.type = "peer left" /\ OnPeerLeft(m)
         \/ m.type = "group" /\ OnGroupMessage(m)
         \/ m.type = "buffered" /\ OnBufferedMessages(m)
         \/ m.type = "error" /\ OnErrorReceived
  /\ UNCHANGED <<store, events, nextId, kind, linkVars, author, wire, lost,
                 moves, breaks>>

-----------------------------------------------------------------------------
(* The Qt thread: what the io thread and the data channels queue to it.     *)

Present(r) == {p \in Peers : peerToRoom[p] = r}

\* The lambda of sendMessage in a direct room: to the peers of the room.
SendDirect(e) ==
  LET ready == {p \in Present(e.room) : channel[p] = "open"}
      rest  == Present(e.room) \ ready
  IN  /\ wire' = [x \in DOMAIN wire |-> IF x \in ready
                                        THEN Append(wire[x], e.text)
                                        ELSE wire[x]]
      /\ queued' = [p \in Peers |-> IF p \in rest
                                    THEN Append(queued[p], e.text)
                                    ELSE queued[p]]
      /\ channel' = [p \in Peers |-> IF p \in rest /\ channel[p] = "none"
                                     THEN "opening" ELSE channel[p]]
      /\ UNCHANGED <<rooms, inbox, myPeer, tasks>>

\* The same in a group room: to the server if the socket is connected.
SendToGroup(e) ==
  /\ IF IsConnected
     THEN /\ wire' = [wire EXCEPT ![e.room] = Append(@, e.text)]
          /\ IF link = "up" THEN ServeGroupMessage(e.room, e.text)
             ELSE UNCHANGED <<rooms, inbox>>
     ELSE UNCHANGED <<wire, rooms, inbox>>
  /\ UNCHANGED <<queued, channel, myPeer, tasks>>

\* The lambda of removeCurrentChat: leave, forget the peer id, and a second
\* coroutine to remove the chat.
Leave(e) ==
  /\ IF link = "up" /\ myPeer[e.room] # None
     THEN ServeLeave(e.room, myPeer[e.room])
     ELSE rooms' = Forgotten(e.room) /\ UNCHANGED inbox
  /\ myPeer' = [myPeer EXCEPT ![e.room] = None]
  /\ tasks' = Spawn([op |-> "remove", at |-> "start", chat |-> e.chat])
  /\ UNCHANGED <<wire, queued, channel>>

\* flushPendingDirectMessages, on connectionOpened.
FlushPendingDirectMessages(e) ==
  /\ IF channel[e.peer] = "open"
     THEN /\ wire' = [wire EXCEPT ![e.peer] = @ \o queued[e.peer]]
          /\ queued' = [queued EXCEPT ![e.peer] = <<>>]
     ELSE UNCHANGED <<wire, queued>>
  /\ UNCHANGED <<rooms, inbox, myPeer, tasks, channel>>

\* messageReceived of the WebRTC service.
OnDirectMessage(e) ==
  /\ tasks' = IF peerToRoom[e.peer] = None THEN tasks
              ELSE Spawn(Incoming(peerToRoom[e.peer], e.peer, e.text))
  /\ UNCHANGED <<rooms, inbox, myPeer, wire, queued, channel>>

RunEvent ==
  /\ events # <<>>
  /\ LET e == Head(events)
     IN  \/ e.type = "send" /\ TypeOf(e.room) = "direct" /\ SendDirect(e)
         \/ e.type = "send" /\ TypeOf(e.room) # "direct" /\ SendToGroup(e)
         \/ e.type = "leave" /\ Leave(e)
         \/ e.type = "opened" /\ FlushPendingDirectMessages(e)
         \/ e.type = "direct" /\ OnDirectMessage(e)
  /\ events' = Tail(events)
  /\ UNCHANGED <<store, pending, roomType, peerToRoom, names, nextId, kind,
                 linkVars, author, lost, moves, breaks>>

-----------------------------------------------------------------------------
(* The io thread: the coroutine at the head of the queue runs to its next   *)
(* co_await, which posts it to the end, or to its end.                      *)

task == Head(tasks)

Suspend(next) == tasks' = Append(Tail(tasks), next)
Finish == tasks' = Tail(tasks)
Goto(place) == Suspend([task EXCEPT !.at = place])

\* Nothing but the parsing of an id comes before the first repository call.
Begin ==
  /\ task.at = "start"
  /\ Goto(CASE task.op \in {"incoming", "joined"} -> "chats"
            [] task.op \in {"send", "leave"} -> "chat"
            [] task.op = "remove" -> "remove")
  /\ UNCHANGED <<store, events, nextId>>

\* getAllChats and the search for the room.
FindRoom ==
  /\ task.at = "chats"
  /\ LET found == ChatsOf(store, task.room)
         chat  == store.chats[Min(found)].id
     IN  \/ /\ found # {} /\ task.op = "incoming"
            /\ Suspend([task EXCEPT !.at = "relations", !.chat = chat])
         \/ /\ found = {} /\ task.op = "incoming" /\ Finish
         \/ /\ found # {} /\ task.op = "joined"
            /\ Suspend([task EXCEPT !.at = "member", !.chat = chat])
         \/ found = {} /\ task.op = "joined" /\ Goto("new chat")
  /\ UNCHANGED <<store, events, nextId>>

\* Mutant of FindChat: a message is queued for sending before it is stored.
FindChatSends ==
  /\ task.at = "chat"
  /\ \/ ~HasChat(store, task.chat) /\ Finish /\ UNCHANGED events
     \/ /\ HasChat(store, task.chat)
        /\ LET room == GetChatById(store, task.chat).room
           IN  IF task.op = "send"
               THEN /\ events' = Append(events, [type |-> "send",
                                   text |-> task.text, room |-> room])
                    /\ Suspend([task EXCEPT !.at = "relations",
                                            !.room = room])
               ELSE /\ events' = Append(events, [type |-> "leave",
                                   chat |-> task.chat, room |-> room])
                    /\ Finish
  /\ UNCHANGED <<store, nextId>>

\* getChatById: it throws when the chat is gone, and only an error is shown.
FindChat ==
  /\ task.at = "chat"
  /\ \/ ~HasChat(store, task.chat) /\ Finish /\ UNCHANGED events
     \/ /\ HasChat(store, task.chat) /\ task.op = "send"
        /\ Suspend([task EXCEPT !.at = "relations",
                      !.room = GetChatById(store, task.chat).room])
        /\ UNCHANGED events
     \/ /\ HasChat(store, task.chat) /\ task.op = "leave"
        /\ events' = Append(events,
             [type |-> "leave", chat |-> task.chat,
              room |-> GetChatById(store, task.chat).room])
        /\ Finish
  /\ UNCHANGED <<store, nextId>>

NameOf(r, p) == IF <<r, p>> \in names THEN [user |-> p] ELSE [peer |-> p]

\* Mutant of Resolved: the message of a sender that is not a member is dropped.
ResolvedDrops(members) ==
  LET ids == {i \in DOMAIN members : task.op = "send" \/
                members[i].name = NameOf(task.room, task.from)}
  IN  IF ids = {} THEN Finish
      ELSE Suspend([task EXCEPT !.at = "message", !.left = <<>>,
                                !.found = <<members[Min(ids)].id>>])

\* After getMembersByChatId: the members of the chat are known.
Resolved(members) ==
  IF task.op = "send"
  THEN IF members = <<>> THEN Finish
       ELSE Suspend([task EXCEPT !.at = "message", !.left = <<>>,
                                 !.found = <<members[1].id>>])
  ELSE LET name == NameOf(task.room, task.from)
           same == {i \in DOMAIN members : members[i].name = name}
       IN  IF same = {}
           THEN Suspend([task EXCEPT !.at = "member", !.left = <<>>,
                                     !.found = <<>>, !.name = name])
           ELSE Suspend([task EXCEPT !.at = "message", !.left = <<>>,
                                     !.found = <<members[Min(same)].id>>])

\* getMembersByChatId reads the relations, then each member by a call of its
\* own; a member that is gone is skipped.
ReadRelations ==
  /\ task.at = "relations"
  /\ LET read == RelationsOfChat(store, task.chat)
     IN  IF read = <<>> THEN Resolved(<<>>)
         ELSE Suspend([task EXCEPT !.at = "lookup", !.left = read])
  /\ UNCHANGED <<store, events, nextId>>

LookUpMember ==
  /\ task.at = "lookup"
  /\ LET found == task.found \o ById(store.members, Head(task.left).member)
     IN  IF Tail(task.left) = <<>> THEN Resolved(found)
         ELSE Suspend([task EXCEPT !.left = Tail(@), !.found = found])
  /\ UNCHANGED <<store, events, nextId>>

\* Mutant of NewChat: the user does not become a member of it.
NewChatAlone ==
  /\ task.at = "new chat"
  /\ store' = AddChat(store, [id |-> nextId, room |-> task.room])
  /\ nextId' = nextId + 1
  /\ Finish
  /\ UNCHANGED events

NewChat ==
  /\ task.at = "new chat"
  /\ store' = AddChat(store, [id |-> nextId, room |-> task.room])
  /\ nextId' = nextId + 1
  /\ Suspend([task EXCEPT !.at = "member", !.chat = nextId])
  /\ UNCHANGED events

\* addMember: of the user by "joined", of a sender not found by an incoming
\* message.
NewMember ==
  /\ task.at = "member"
  /\ store' = AddMember(store,
       [id |-> nextId,
        name |-> IF task.op = "joined" THEN [user |-> Me]
                 ELSE task.name])
  /\ nextId' = nextId + 1
  /\ Suspend(IF task.op = "joined"
             THEN [op |-> "joined", at |-> "relation", room |-> task.room,
                   chat |-> task.chat, member |-> nextId]
             ELSE [task EXCEPT !.at = "relation", !.found = <<nextId>>])
  /\ UNCHANGED events

\* Mutant of NewRelation: the message starts again once its sender is known.
NewRelationRestarts ==
  /\ task.at = "relation"
  /\ \/ /\ task.op = "joined"
        /\ store' = AddMemberToChat(store, task.chat, task.member)
        /\ Finish
     \/ /\ task.op = "incoming"
        /\ store' = AddMemberToChat(store, task.chat, task.found[1])
        /\ Suspend([task EXCEPT !.at = "chats", !.found = <<>>])
  /\ UNCHANGED <<events, nextId>>

\* addMemberToChat; what it throws is swallowed.
NewRelation ==
  /\ task.at = "relation"
  /\ \/ /\ task.op = "joined"
        /\ store' = AddMemberToChat(store, task.chat, task.member)
        /\ Finish
     \/ /\ task.op = "incoming"
        /\ store' = AddMemberToChat(store, task.chat, task.found[1])
        /\ Goto("message")
  /\ UNCHANGED <<events, nextId>>

\* The message of this coroutine.
Message ==
  [id |-> nextId, chat |-> task.chat, sender |-> task.found[1],
   text |-> task.text,
   direction |-> IF task.op = "send" THEN "outgoing" ELSE "incoming"]

\* addMessage; after it a message of the user is queued for sending.  If the
\* chat is gone it throws, and only an error is shown.
NewMessage ==
  /\ task.at = "message"
  /\ store' = AddMessage(store, Message)
  /\ nextId' = nextId + 1
  /\ events' = IF task.op # "send" \/ ~MayAddMessage(store, Message) THEN events
               ELSE Append(events,
                      [type |-> "send", text |-> task.text,
                       room |-> task.room])
  /\ Finish

DropChat ==
  /\ task.at = "remove"
  /\ store' = RemoveChat(store, task.chat)
  /\ lost' = lost \cup {store.messages[i].text :
                          i \in OfChat(store.messages, task.chat)}
  /\ Finish
  /\ UNCHANGED <<events, nextId>>

\* One turn of ioc_.run().
Resume ==
  /\ tasks # <<>>
  /\ \/ /\ \/ Begin \/ FindRoom \/ FindChat \/ ReadRelations \/ LookUpMember
           \/ NewChat \/ NewMember \/ NewRelation \/ NewMessage
        /\ UNCHANGED lost
     \/ DropChat
  /\ UNCHANGED <<pending, myPeer, roomType, peerToRoom, names, queued,
                 linkVars, kind, rooms, inbox, channel, author, wire, moves,
                 breaks>>

-----------------------------------------------------------------------------
(* The network and the peers.                                               *)

clientSteady == <<store, tasks, myPeer, roomType, peerToRoom, names, queued>>

steadyVars == <<clientSteady, events, kind, channel, author, wire, lost, moves>>

\* connected(): a join that is pending is sent, or sent again.
OnConnected ==
  /\ link = "connecting"
  /\ link' = "up" /\ attempts' = 0
  /\ IF pending = None THEN UNCHANGED <<rooms, inbox, nextId>>
     ELSE ServeJoin(pending)
  /\ UNCHANGED <<steadyVars, breaks, timers, pending>>

\* reconnect(): after so many attempts there is an error and no timer.
MayReconnect == attempts < MaxReconnectAttempts

\* Mutant of Reconnect: the attempt is counted and no timer is started.
ReconnectNever ==
  IF MayReconnect
  THEN attempts' = attempts + 1 /\ UNCHANGED timers
  ELSE UNCHANGED <<attempts, timers>>

Reconnect ==
  IF MayReconnect
  THEN attempts' = attempts + 1 /\ timers' = timers + 1
  ELSE UNCHANGED <<attempts, timers>>

\* The socket could not be opened: an error, then disconnected.
OnErrorOccurred ==
  /\ link = "connecting" /\ breaks < MaxBreaks
  /\ link' = "closed"
  /\ breaks' = breaks + 1
  /\ pending' = None
  /\ Reconnect
  /\ UNCHANGED <<steadyVars, nextId, rooms, inbox>>

\* The timer of reconnect: nothing to do if a socket is being opened already.
Retry ==
  /\ timers > 0
  /\ timers' = timers - 1
  /\ link' = IF link = "closed" THEN "connecting" ELSE link
  /\ UNCHANGED <<steadyVars, breaks, attempts, nextId, pending, rooms, inbox>>

\* The connection is lost and neither side knows.
Break ==
  /\ link = "up" /\ breaks < MaxBreaks
  /\ link' = "broken"
  /\ breaks' = breaks + 1
  /\ rooms' = [r \in Rooms |-> IF rooms[r].session = "now"
                               THEN [rooms[r] EXCEPT !.session = "old"]
                               ELSE rooms[r]]
  /\ UNCHANGED <<clientVars, attempts, timers, kind, inbox, channel, author,
                 wire, lost, moves>>

\* The client learns of it: with a socket error, or by an orderly close.
NoticeBreak ==
  /\ link = "broken"
  /\ link' = "closed"
  /\ inbox' = <<>>
  /\ pending' \in {pending, None}
  /\ Reconnect
  /\ UNCHANGED <<steadyVars, breaks, nextId, rooms>>

\* The server learns of it: the member is offline.
ServerNotices ==
  /\ \E r \in Rooms : rooms[r].session = "old"
  /\ rooms' = [r \in Rooms |-> IF rooms[r].session = "old"
                               THEN [rooms[r] EXCEPT !.session = "none"]
                               ELSE rooms[r]]
  /\ UNCHANGED <<clientVars, kind, inbox, linkVars, channel, author,
                 wire, lost, moves, breaks>>

ChannelOpens(p) ==
  /\ channel[p] = "opening"
  /\ channel' = [channel EXCEPT ![p] = "open"]
  /\ events' = Append(events, [type |-> "opened", peer |-> p])
  /\ UNCHANGED <<clientSteady, nextId, pending, kind, rooms, inbox, linkVars,
                 author, wire, lost, moves, breaks>>

\* A peer posts to its group room.
PeerPosts(p) ==
  LET r == Home[p] IN
  /\ p \in rooms[r].here /\ kind[r] = "group" /\ NextText <= MaxTexts
  /\ author' = Append(author, p)
  /\ rooms' = Logged(r, p, NextText)
  /\ inbox' = Told(r, GroupMessage(r, p, NextText))
  /\ UNCHANGED <<clientVars, kind, linkVars, channel, wire, lost, moves,
                 breaks>>

\* A peer writes on its data channel.
PeerWrites(p) ==
  /\ channel[p] = "open" /\ NextText <= MaxTexts
  /\ author' = Append(author, p)
  /\ events' = Append(events, [type |-> "direct", peer |-> p,
                               text |-> NextText])
  /\ UNCHANGED <<clientSteady, nextId, pending, kind, rooms, inbox, linkVars,
                 channel, wire, lost, moves, breaks>>

\* A peer comes online or goes; a direct room has one besides this client.
PeerMoves(p) ==
  LET r == Home[p] IN
  /\ moves < MaxMoves
  /\ moves' = moves + 1
  /\ \/ /\ p \in rooms[r].here
        /\ rooms' = [rooms EXCEPT ![r].here = @ \ {p}]
        /\ inbox' = Told(r, [type |-> "peer left", room |-> r, peer |-> p])
     \/ /\ p \notin rooms[r].here
        /\ kind[r] = "direct" => rooms[r].here = {}
        /\ rooms' = [rooms EXCEPT ![r].here = @ \cup {p}]
        /\ inbox' = Told(r, [type |-> "peer joined", room |-> r, peer |-> p])
  /\ UNCHANGED <<clientVars, kind, linkVars, channel, author, wire, lost,
                 breaks>>

-----------------------------------------------------------------------------
(* Specification                                                            *)

Init ==
  /\ store = EmptyStore /\ tasks = <<>> /\ events = <<>>
  /\ pending = None
  /\ myPeer = [r \in Rooms |-> None] /\ roomType = [r \in Rooms |-> None]
  /\ peerToRoom = [p \in Peers |-> None] /\ names = {}
  /\ queued = [p \in Peers |-> <<>>]
  /\ nextId = 1
  /\ kind \in [Rooms -> {"group", "direct"}]
  /\ \E here \in SUBSET Peers :
       /\ \A p, q \in here : kind[Home[p]] = "direct" =>
            (Home[p] = Home[q] <=> p = q)
       /\ rooms = [r \in Rooms |->
            [EmptyRoom EXCEPT !.here = {p \in here : Home[p] = r}]]
  /\ inbox = <<>>
  /\ link = "connecting" /\ attempts = 0 /\ timers = 0
  /\ channel = [p \in Peers |-> "none"]
  /\ author = <<>>
  /\ wire = [x \in Rooms \cup Peers |-> <<>>] /\ lost = {}
  /\ moves = 0 /\ breaks = 0

WorldActs ==
  \/ OnConnected \/ OnErrorOccurred \/ Retry
  \/ Break \/ NoticeBreak \/ ServerNotices
  \/ \E p \in Peers :
       ChannelOpens(p) \/ PeerWrites(p) \/ PeerPosts(p) \/ PeerMoves(p)

Next == UserActs \/ OnMessage \/ RunEvent \/ Resume \/ WorldActs

Spec == Init /\ [][Next]_vars

\* The two threads run what is queued for them; a connection attempt ends,
\* a timer fires, and a lost connection is noticed on either side at last.
FairSpec ==
  /\ Spec
  /\ WF_vars(OnMessage) /\ WF_vars(RunEvent) /\ WF_vars(Resume)
  /\ WF_vars(OnConnected \/ OnErrorOccurred) /\ WF_vars(Retry)
  /\ WF_vars(NoticeBreak) /\ WF_vars(ServerNotices)

-----------------------------------------------------------------------------
(* Properties                                                               *)

NoRepeats(seq) == \A i, j \in DOMAIN seq : i # j => seq[i] # seq[j]

Incomings == {i \in DOMAIN store.messages :
                store.messages[i].direction = "incoming"}
Outgoings == DOMAIN store.messages \ Incomings

Sender(i) == GetMemberById(store, store.messages[i].sender).name
Author(i) == author[store.messages[i].text]

\* What has been handed to the server or to a data channel is in the database
\* (ClientBridge.cpp:566: it is sent after it has been written), or was until
\* the user removed its chat, which takes the messages with it; and it is handed
\* over once.
SentIsStored ==
  \A x \in DOMAIN wire :
    /\ \A i \in DOMAIN wire[x] :
         \/ \E j \in Outgoings : store.messages[j].text = wire[x][i]
         \/ wire[x][i] \in lost
    /\ NoRepeats(wire[x])

\* Nothing that is heard is stored in a chat more often than once and once for
\* each lost connection, which may take acknowledgements with it; and as long
\* as none is lost, the messages of one member are stored in the order they
\* were written in, though each is a coroutine of its own and the first of
\* them creates the member.  (Two members may be created for one sender.)
\* Who leaves a room and joins it again is sent what is buffered again.
StoredInOrder ==
  (\A r \in Rooms : ~rooms[r].left) =>
    \A i, j \in Incomings :
      LET a == store.messages[i]
          b == store.messages[j]
      IN  /\ Cardinality({k \in Incomings : store.messages[k].text = a.text
                             /\ store.messages[k].chat = a.chat})
               <= 1 + breaks
          /\ breaks = 0 /\ i < j /\ a.chat = b.chat /\ a.sender = b.sender =>
               a.text <= b.text

\* Every message is stored under the member that wrote it: the user's own
\* under members.front(), which must be the user's member although senders of
\* incoming messages become members of the chat at the same time.  And the echo
\* of an own message is not stored as one of somebody else's, unless the user
\* has removed a chat of the room and the client has forgotten its peer id
\* (ClientBridge.cpp:358): the server need not know, for the connection may be
\* lost, and a second "joined" may have made a second chat of the room.
RightSender ==
  /\ \A i \in Outgoings : Sender(i) = [user |-> Me]
  /\ \A i \in Incomings : Author(i) # Me =>
       Sender(i) \in {[user |-> Author(i)], [peer |-> Author(i)]}
  /\ \A i \in Incomings : Author(i) = Me => \E r \in Rooms : rooms[r].removed

\* A join that is asked for is answered: by a chat or by an error, through
\* connections that fail and are lost.
JoinIsAnswered == \A r \in Rooms : pending = r ~> pending # r

\* A message of a peer that the server has sent is stored at last if the room
\* has a chat; unless the chat is removed or the connection was lost.
Sent(n, r) ==
  \E i \in DOMAIN inbox :
    /\ inbox[i].type = "group" /\ inbox[i].room = r
    /\ inbox[i].text = n /\ author[n] # Me

Heard ==
  \A n \in 1..MaxTexts, r \in Rooms :
    Sent(n, r) /\ ChatsOf(store, r) # {} ~>
      \/ \E i \in Incomings : store.messages[i].text = n
      \/ ChatsOf(store, r) = {}
      \/ breaks > 0
=============================================================================

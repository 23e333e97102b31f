------------------------------ MODULE ClientViews ------------------------------
(***************************************************************************)
(* What the windows of the graphical client show, and how it follows the   *)
(* database.  A refresh is a coroutine on the io thread that reads the      *)
(* database by several repository calls, each a suspension, and queues a    *)
(* lambda with its result to the Qt thread.  Meanwhile the user selects and *)
(* removes chats, and messages and chats are written.  The coroutines that  *)
(* write are those of ClientBridge, here from their first write on.         *)
(*                                                                          *)
(* Messages and profiles are of different seconds (the order within one is  *)
(* SQLite's choice), and a chat is found by its title or by its last text.  *)
(***************************************************************************)
EXTENDS LocalStore, FiniteSets, FiniteSetsExt, SequencesExt

CONSTANTS
  Chats,        \* in the database at the start, in this order
  Later,        \* joined later
  Crowd,        \* how many members a chat of Chats has
  None,
  Queries,      \* what the user may search for: chats, by title, and texts
  Urls, Stuns,  \* what the user may enter as settings
  MaxMoves,     \* what the user does
  MaxWrites     \* messages and chats written

ASSUME ViewBounds ==
  /\ Crowd \in [Range(Chats) -> Nat \ {0}]
  /\ None \notin Range(Chats) \cup Later \cup Urls \cup Stuns
  /\ MaxMoves \in Nat /\ MaxWrites \in Nat

VARIABLES
  store,     \* the database
  profiles,  \* its connection profiles, the latest last
  tasks,     \* the suspended coroutines in the queue of the io_context
  events,    \* the lambdas in the queue of the Qt thread
  ui,        \* what the windows show
  nick,      \* chatNicknames_
  saved,     \* history: the settings the user saved last
  moves, writes

vars == <<store, profiles, tasks, events, ui, nick, saved, moves, writes>>

AllChats == Range(Chats) \cup Later

NoList == [chat |-> None, texts |-> <<>>]
Nobody == [chat |-> None, ids |-> {}, nick |-> None]

Task(op, chat) ==
  [op |-> op, at |-> "start", chat |-> chat, left |-> <<>>, got |-> <<>>]

\* A step of the Qt thread: the windows, and the coroutines it has started.
State == [ui |-> ui, started |-> <<>>]
Start(s, task) == [s EXCEPT !.started = Append(@, task)]

Commit(s) == ui' = s.ui /\ tasks' = tasks \o s.started

-----------------------------------------------------------------------------
(* The functions of the Qt thread.                                          *)

\* applyChatFilter, and ChatListModel::setItems.
ApplyChatFilter(s) ==
  [s EXCEPT !.ui.shown =
     IF s.ui.query = None THEN s.ui.all
     ELSE SelectSeq(s.ui.all, LAMBDA item : s.ui.query \in
                                              {item.chat, item.last})]

RefreshChats(s) == Start(s, Task("chats", None))

RefreshMessages(s) ==
  IF s.ui.selected = None THEN [s EXCEPT !.ui.messages = NoList]
  ELSE Start(s, Task("messages", s.ui.selected))

RefreshParticipants(s) ==
  IF s.ui.selected = None THEN [s EXCEPT !.ui.people = Nobody]
  ELSE Start(s, Task("people", s.ui.selected))

RefreshChatData(s) == RefreshParticipants(RefreshMessages(RefreshChats(s)))

\* The row counts from 0; itemAt gives nothing for a row that is not there.
ItemAt(s, row) == s.ui.shown[row + 1]
HasItem(s, row) == row + 1 \in DOMAIN s.ui.shown

\* Mutant of SelectChatByIndex: the lists of the chat are not read.
SelectChatOnly(s, row) ==
  IF HasItem(s, row)
  THEN [s EXCEPT !.ui.index = row, !.ui.selected = ItemAt(s, row).chat]
  ELSE [s EXCEPT !.ui.index = -1, !.ui.selected = None,
                 !.ui.messages = NoList]

SelectChatByIndex(s, row) ==
  IF HasItem(s, row)
  THEN RefreshParticipants(RefreshMessages(
         [s EXCEPT !.ui.index = row, !.ui.selected = ItemAt(s, row).chat]))
  ELSE [s EXCEPT !.ui.index = -1, !.ui.selected = None,
                 !.ui.messages = NoList]

\* Mutant of ShowChats: when nothing is selected, nothing is.
ShowChatsOnly(items) ==
  LET s    == ApplyChatFilter([State EXCEPT !.ui.all = items])
      rows == Len(s.ui.shown)
  IN  IF s.ui.index >= rows THEN SelectChatByIndex(s, rows - 1)
      ELSE IF s.ui.index >= 0
      THEN RefreshParticipants(RefreshMessages(
             [s EXCEPT !.ui.selected = ItemAt(s, s.ui.index).chat]))
      ELSE [s EXCEPT !.ui.messages = NoList, !.ui.people = Nobody]

\* The lambda of refreshChats.
ShowChats(items) ==
  LET s    == ApplyChatFilter([State EXCEPT !.ui.all = items])
      rows == Len(s.ui.shown)
  IN  IF s.ui.index < 0 /\ rows > 0 THEN SelectChatByIndex(s, 0)
      ELSE IF s.ui.index >= rows THEN SelectChatByIndex(s, rows - 1)
      ELSE IF s.ui.index >= 0
      THEN RefreshParticipants(RefreshMessages(
             [s EXCEPT !.ui.selected = ItemAt(s, s.ui.index).chat]))
      ELSE [s EXCEPT !.ui.messages = NoList, !.ui.people = Nobody]

\* setChatNickname names the chat given, and the selected one.
Renamed(chat, name) ==
  [c \in AllChats |-> IF c \in {chat, ui.selected} THEN name ELSE nick[c]]

-----------------------------------------------------------------------------
(* The user.                                                                *)

Move == moves < MaxMoves /\ moves' = moves + 1

Select(row) ==
  /\ Move
  /\ Commit(SelectChatByIndex(State, row))
  /\ UNCHANGED <<store, profiles, events, nick, saved, writes>>

SetChatSearchQuery(query) ==
  /\ Move
  /\ query # ui.query
  /\ Commit(ApplyChatFilter([State EXCEPT !.ui.query = query,
                                          !.ui.searched = TRUE]))
  /\ UNCHANGED <<store, profiles, events, nick, saved, writes>>

RemoveCurrentChat ==
  /\ Move
  /\ ui.selected # None
  /\ Commit(Start(State, Task("leave", ui.selected)))
  /\ UNCHANGED <<store, profiles, events, nick, saved, writes>>

\* The url is None for an empty field.
UpdateNetworkSettings(url, stun) ==
  /\ Move
  /\ saved' = [url |-> url, stun |-> stun]
  /\ Commit(Start([State EXCEPT !.ui.net = saved'],
                  [Task("save", None) EXCEPT !.got = saved']))
  /\ UNCHANGED <<store, profiles, events, nick, writes>>

-----------------------------------------------------------------------------
(* The coroutines of ClientBridge that write.                               *)

Write == writes < MaxWrites /\ writes' = writes + 1

MembersOf(chat) == RelationsOfChat(store, chat)

\* A coroutine that writes, with the member it writes about and its text.
Writer(op, chat, member) ==
  [Task(op, chat) EXCEPT !.got = [member |-> member, text |-> writes + 2]]

\* A message of the user, under members.front().
SendMessage ==
  /\ Write
  /\ ui.selected # None /\ MembersOf(ui.selected) # <<>>
  /\ tasks' = Append(tasks, Writer("send", ui.selected,
                                   MembersOf(ui.selected)[1].member))
  /\ UNCHANGED <<store, profiles, events, ui, nick, saved, moves>>

\* A message of a member that is known, or of one to be created.
Incoming(chat) ==
  /\ Write
  /\ HasChat(store, chat)
  /\ \E sender \in {Last(MembersOf(chat)).member, <<chat, 0>>} :
       tasks' = Append(tasks, Writer(IF HasRelation(store, chat, sender)
                                     THEN "incoming" ELSE "guest", chat, sender))
  /\ UNCHANGED <<store, profiles, events, ui, nick, saved, moves>>

\* A chat joined, as "new".
Joined(chat) ==
  /\ Write
  /\ ~HasChat(store, chat) /\ ~HasMember(store, <<chat, 1>>)
  /\ tasks' = Append(tasks, Writer("join", chat, <<chat, 1>>))
  /\ UNCHANGED <<store, profiles, events, ui, nick, saved, moves>>

-----------------------------------------------------------------------------
(* The io thread: the coroutine at the head of the queue.                   *)

task == Head(tasks)

Suspend(next) == tasks' = Append(Tail(tasks), next) /\ UNCHANGED events
Goto(place) == Suspend([task EXCEPT !.at = place])
Return == tasks' = Tail(tasks) /\ UNCHANGED events
Queue(event) == tasks' = Tail(tasks) /\ events' = Append(events, event)

FirstCall ==
  [chats |-> "all", messages |-> "messages", people |-> "relations",
   leave |-> "chat", remove |-> "remove", send |-> "write",
   incoming |-> "write", guest |-> "member", join |-> "new chat",
   save |-> "profiles", load |-> "profiles"]

Begin ==
  /\ task.at = "start"
  /\ Goto(FirstCall[task.op])
  /\ UNCHANGED <<store, profiles>>

TextsOf(chat) ==
  LET rows == GetMessagesByChatId(store, chat)
  IN  [i \in DOMAIN rows |-> rows[i].text]

Row(chat) ==
  [chat |-> chat,
   last |-> IF TextsOf(chat) = <<>> THEN None ELSE Last(TextsOf(chat))]

\* refreshChats: all chats, then the messages of each.
ReadChats ==
  /\ task.at = "all"
  /\ LET read == GetAllChats(store)
     IN  IF read = <<>> THEN Queue([type |-> "chats", items |-> <<>>])
         ELSE Suspend([task EXCEPT !.at = "latest", !.left = read])
  /\ UNCHANGED <<store, profiles>>

ReadLatest ==
  /\ task.at = "latest"
  /\ LET items == Append(task.got, Row(Head(task.left).id))
     IN  IF Tail(task.left) = <<>>
         THEN Queue([type |-> "chats", items |-> items])
         ELSE Suspend([task EXCEPT !.left = Tail(@), !.got = items])
  /\ UNCHANGED <<store, profiles>>

ShowMessages ==
  [type |-> "messages", list |-> [chat |-> task.chat, texts |-> task.got]]

\* getMembersByChatId of both refreshes: after the relations, each member.
ReadRelations ==
  /\ task.at = "relations"
  /\ LET read == MembersOf(task.chat)
     IN  IF read # <<>> THEN Suspend([task EXCEPT !.at = "lookup",
                                                  !.left = read])
         ELSE IF task.op = "people" THEN Goto("members")
         ELSE Queue(ShowMessages)
  /\ UNCHANGED <<store, profiles>>

LookUpMember ==
  /\ task.at = "lookup"
  /\ LET next == [task EXCEPT !.left = Tail(@),
                    !.got = IF task.op = "people"
                            THEN Append(@, Head(task.left).member) ELSE @]
     IN  IF next.left # <<>> THEN Suspend(next)
         ELSE IF task.op = "people" THEN Suspend([next EXCEPT !.at = "members"])
         ELSE Queue(ShowMessages)
  /\ UNCHANGED <<store, profiles>>

\* getAllMembers of refreshParticipants.
ReadMembers ==
  /\ task.at = "members"
  /\ Suspend([task EXCEPT !.at = "messages",
                          !.left = {m.id : m \in Range(GetAllMembers(store))}])
  /\ UNCHANGED <<store, profiles>>

Senders(chat) ==
  {m.sender : m \in Range(GetMessagesByChatId(store, chat))}

Wrote(chat) ==
  \E m \in Range(GetMessagesByChatId(store, chat)) : m.direction = "outgoing"

NameIn(chat) == IF Wrote(chat) THEN nick[chat] ELSE None

\* refreshMessages reads the messages first, refreshParticipants last.
ReadMessages ==
  /\ task.at = "messages"
  /\ IF task.op = "messages"
     THEN Suspend([task EXCEPT !.at = "relations", !.got = TextsOf(task.chat)])
     ELSE Queue([type |-> "people", list |->
            [chat |-> task.chat,
             ids |-> (Range(task.got) \cup Senders(task.chat)) \cap task.left,
             nick |-> NameIn(task.chat)]])
  /\ UNCHANGED <<store, profiles>>

\* The first coroutine of removeCurrentChat, and the second.
FindChat ==
  /\ task.at = "chat"
  /\ IF HasChat(store, task.chat)
     THEN Queue([type |-> "leave", chat |-> task.chat]) ELSE Return
  /\ UNCHANGED <<store, profiles>>

DropChat ==
  /\ task.at = "remove"
  /\ store' = RemoveChat(store, task.chat)
  /\ Queue([type |-> "removed", chat |-> task.chat])
  /\ UNCHANGED profiles

NewChat ==
  /\ task.at = "new chat"
  /\ store' = AddChat(store, [id |-> task.chat])
  /\ Goto("member")
  /\ UNCHANGED profiles

NewMember ==
  /\ task.at = "member"
  /\ store' = AddMember(store, [id |-> task.got.member])
  /\ Goto("relation")
  /\ UNCHANGED profiles

NewRelation ==
  /\ task.at = "relation"
  /\ store' = AddMemberToChat(store, task.chat, task.got.member)
  /\ IF task.op = "join" THEN Queue([type |-> "joined", chat |-> task.chat])
     ELSE Goto("write")
  /\ UNCHANGED profiles

Message ==
  [id |-> task.got.text, chat |-> task.chat, sender |-> task.got.member,
   text |-> task.got.text,
   direction |-> IF task.op = "send" THEN "outgoing" ELSE "incoming"]

\* If the chat is gone addMessage throws, and only an error is shown.
NewMessage ==
  /\ task.at = "write"
  /\ store' = AddMessage(store, Message)
  /\ IF MayAddMessage(store, Message)
     THEN Queue([type |-> IF task.op = "send" THEN "sent" ELSE "received"])
     ELSE Return
  /\ UNCHANGED profiles

\* Mutant of ReadProfiles: the profile keeps its STUN server.
ReadProfilesKeeps ==
  /\ task.at = "profiles"
  /\ CASE task.op = "load" -> Return
       [] task.op = "save" /\ profiles # <<>> ->
            Suspend([task EXCEPT !.at = "update",
              !.got = [id  |-> Last(profiles).id,
                       net |-> [Last(profiles).net EXCEPT !.url =
                                  IF task.got.url = None THEN @
                                  ELSE task.got.url]]])
       [] task.op = "save" /\ profiles = <<>> ->
            IF task.got.url = None THEN Return ELSE Goto("add")
  /\ UNCHANGED <<store, profiles>>

\* getAllProfiles(true), of updateNetworkSettings and of refreshProfiles; a
\* profile that is there is changed, without one a url is needed.
ReadProfiles ==
  /\ task.at = "profiles"
  /\ CASE task.op = "load" /\ profiles = <<>> -> Return
       [] task.op = "load" /\ profiles # <<>> ->
            Queue([type |-> "profile", net |-> Last(profiles).net])
       [] task.op = "save" /\ profiles # <<>> ->
            Suspend([task EXCEPT !.at = "update",
              !.got = [id  |-> Last(profiles).id,
                       net |-> IF @.url # None THEN @
                               ELSE [@ EXCEPT !.url =
                                       Last(profiles).net.url]]])
       [] task.op = "save" /\ profiles = <<>> ->
            IF task.got.url = None THEN Return ELSE Goto("add")
  /\ UNCHANGED <<store, profiles>>

AddProfile ==
  /\ task.at = "add"
  /\ profiles' = Append(profiles, [id |-> Len(profiles) + 1,
                                   net |-> task.got])
  /\ Return
  /\ UNCHANGED store

UpdateProfile ==
  /\ task.at = "update"
  /\ profiles' = Replace(profiles, task.got)
  /\ Return
  /\ UNCHANGED store

Resume ==
  /\ tasks # <<>>
  /\ \/ Begin \/ ReadChats \/ ReadLatest \/ ReadRelations \/ LookUpMember
     \/ ReadMembers \/ ReadMessages \/ FindChat \/ DropChat \/ NewChat
     \/ NewMember \/ NewRelation \/ NewMessage \/ ReadProfiles \/ AddProfile
     \/ UpdateProfile
  /\ UNCHANGED <<ui, nick, saved, moves, writes>>

-----------------------------------------------------------------------------
(* The Qt thread: the lambdas.                                              *)

ListReady(e) ==
  /\ \/ e.type = "chats" /\ Commit(ShowChats(e.items))
     \/ e.type = "messages" /\ Commit([State EXCEPT !.ui.messages = e.list])
     \/ e.type = "people" /\ Commit([State EXCEPT !.ui.people = e.list])
     \/ e.type = "profile" /\ Commit([State EXCEPT !.ui.net = e.net])
  /\ UNCHANGED nick

\* A message of the user, or another's, has been stored.
MessageStored(e) ==
  /\ \/ /\ e.type = "sent"
        /\ Commit(RefreshChats(RefreshParticipants(RefreshMessages(State))))
     \/ /\ e.type = "received"
        /\ Commit(RefreshChats(RefreshMessages(State)))
  /\ UNCHANGED nick

ChatStored(e) ==
  /\ e.type = "joined"
  /\ nick' = Renamed(e.chat, "new")
  /\ Commit(RefreshChatData(RefreshParticipants(State)))

LeftChat(e) ==
  /\ e.type = "leave"
  /\ Commit(Start(State, Task("remove", e.chat)))
  /\ UNCHANGED nick

\* Mutant of ChatRemoved: the list of chats is not read again.
ChatRemovedOnly(e) ==
  /\ e.type = "removed"
  /\ nick' = [nick EXCEPT ![e.chat] = None]
  /\ Commit(SelectChatByIndex(State, -1))

ChatRemoved(e) ==
  /\ e.type = "removed"
  /\ nick' = [nick EXCEPT ![e.chat] = None]
  /\ Commit(RefreshChats(SelectChatByIndex(State, -1)))

RunEvent ==
  /\ events # <<>>
  /\ LET e == Head(events)
     IN  \/ ListReady(e) \/ MessageStored(e) \/ ChatStored(e) \/ LeftChat(e)
         \/ ChatRemoved(e)
  /\ events' = Tail(events)
  /\ UNCHANGED <<store, profiles, saved, moves, writes>>

-----------------------------------------------------------------------------
(* Specification                                                            *)

InitialStore ==
  [EmptyStore EXCEPT
     !.chats = [i \in DOMAIN Chats |-> [id |-> Chats[i]]],
     !.members = FlattenSeq([i \in DOMAIN Chats |->
       [k \in 1..Crowd[Chats[i]] |-> [id |-> <<Chats[i], k>>]]]),
     !.relations = FlattenSeq([i \in DOMAIN Chats |->
       [k \in 1..Crowd[Chats[i]] |->
          [chat |-> Chats[i], member |-> <<Chats[i], k>>]]]),
     !.messages = <<[id |-> 1, chat |-> Chats[1], sender |-> <<Chats[1], 1>>,
                     text |-> 1, direction |-> "outgoing"]>>]

Factory == [url |-> None, stun |-> None]

\* Windows that show the first chat, some time after the start.
Opened ==
  LET rows == [i \in DOMAIN Chats |->
                 [chat |-> Chats[i], last |-> IF i = 1 THEN 1 ELSE None]]
      chat == Chats[1]
  IN  [all |-> rows, shown |-> rows, index |-> 0, selected |-> chat,
       messages |-> [chat |-> chat, texts |-> <<1>>],
       people |-> [chat |-> chat, ids |-> {chat} \X (1..Crowd[chat]),
                   nick |-> None],
       query |-> None, searched |-> FALSE, net |-> None]

\* refreshAll of main: nothing is selected, so two lists stay empty.
Starting ==
  [Opened EXCEPT !.all = <<>>, !.shown = <<>>, !.index = -1,
                 !.selected = None, !.messages = NoList, !.people = Nobody]

\* The start counts as a move of the user.
Init ==
  /\ store = InitialStore
  /\ profiles \in {<<>>, <<[id |-> 0, net |-> Factory]>>}
  /\ \/ ui = Opened /\ tasks = <<>> /\ moves = 0
     \/ /\ ui = Starting /\ moves = 1
        /\ tasks = <<Task("load", None), Task("chats", None)>>
  /\ events = <<>>
  /\ nick = [c \in AllChats |-> None]
  /\ saved = None
  /\ writes = 0

UserActs ==
  \/ \E row \in 0..(Len(ui.shown) - 1) : Select(row)
  \/ \E query \in {None} \cup Queries : SetChatSearchQuery(query)
  \/ RemoveCurrentChat
  \/ \E url \in Urls \cup {None}, stun \in Stuns :
       UpdateNetworkSettings(url, stun)

Writers ==
  \/ SendMessage
  \/ \E chat \in AllChats : Incoming(chat)
  \/ \E chat \in Later : Joined(chat)

Next == UserActs \/ Writers \/ Resume \/ RunEvent

Spec == Init /\ [][Next]_vars

-----------------------------------------------------------------------------
(* Properties                                                               *)

Quiet == tasks = <<>> /\ events = <<>>

\* A list shown is what the database has of the selected chat, unless another
\* chat was left while its list was being read: one with more members, which
\* takes longer to read, or, if nothing is selected now, one that was removed.
Settled(list, none, fresh) ==
  \/ list = IF ui.selected = None THEN none ELSE fresh
  \/ /\ list.chat \notin {ui.selected, None}
     /\ IF ui.selected = None THEN ~HasChat(store, list.chat)
        ELSE Len(MembersOf(list.chat)) > Len(MembersOf(ui.selected))

\* When nothing is queued, the windows show what the database has: the chats
\* with the last text of each, so that a refresh that read the list before a
\* chat was written or removed is never the last to be shown; and the messages
\* and participants of the selected chat (with the exception of Settled).
WindowsSettle ==
  Quiet =>
    /\ ui.all = [i \in DOMAIN store.chats |-> Row(store.chats[i].id)]
    /\ Settled(ui.messages, NoList,
               [chat |-> ui.selected, texts |-> TextsOf(ui.selected)])
    /\ Settled(ui.people, Nobody,
               [chat |-> ui.selected, nick |-> NameIn(ui.selected),
                ids  |-> {r.member : r \in Range(MembersOf(ui.selected))}])

\* When nothing is queued and the user has not searched, the row that is
\* marked is the one of the chat messages are sent to, though rows move when
\* chats are removed.
SelectionShown ==
  Quiet /\ ~ui.searched =>
    IF ui.selected = None THEN ui.index = -1 /\ ui.all = <<>>
    ELSE HasItem(State, ui.index) /\ ItemAt(State, ui.index).chat = ui.selected

\* When nothing is queued, the settings the user saved last are the latest
\* profile, if there was one at the start, though each save reads the profile
\* before it writes it and two saves may both have read before either writes.
\* (An empty field keeps the url of the profile as it was read, which two such
\* saves may make older than the one entered last: of it nothing is said.)
SettingsSaved ==
  Quiet /\ saved # None /\ (\E p \in Range(profiles) : p.id = 0) =>
    /\ Last(profiles).net.stun = saved.stun
    /\ saved.url # None => Last(profiles).net.url = saved.url
=============================================================================

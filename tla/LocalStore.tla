------------------------------ MODULE LocalStore ------------------------------
(***************************************************************************)
(* The client's database as its repositories use it.  A table is the       *)
(* sequence of its rows in the order of their rowids.  Each operator is     *)
(* what one repository function does once its co_await post has resumed it: *)
(* it runs on the io thread to its end, or to the next co_await.            *)
(*                                                                          *)
(* A function that throws changes nothing; when it does is stated by a      *)
(* predicate (HasChat, MayAddMessage, ...).  sqlite_orm switches foreign    *)
(* keys on whenever it opens the file, for the tables declare some: a       *)
(* relation or a message of a chat that is gone is refused, and a chat takes *)
(* its relations and messages with it.                                      *)
(* What no part of the client calls is left out.                            *)
(***************************************************************************)
EXTENDS Naturals, Sequences, FiniteSets

EmptyStore ==
  [chats |-> <<>>, members |-> <<>>, relations |-> <<>>, messages |-> <<>>]

Has(table, id) == \E i \in DOMAIN table : table[i].id = id

\* get_all(where(is_equal(id, ...))): ids are primary keys.
ById(table, id) ==
  IF Has(table, id) THEN <<table[CHOOSE i \in DOMAIN table : table[i].id = id]>>
  ELSE <<>>

\* The n-th of these rowids, and the rows that have them, in their order.
Nth(places, n) ==
  CHOOSE i \in places : Cardinality({j \in places : j <= i}) = n
Keep(table, places) ==
  [n \in 1..Cardinality(places) |-> table[Nth(places, n)]]

Without(table, id) == Keep(table, {i \in DOMAIN table : table[i].id # id})

\* storage_->replace: INSERT OR REPLACE gives the row a new rowid.
Replace(table, row) == Append(Without(table, row.id), row)

\* The rows of a chat in a table that refers to chats, and the others.
OfChat(table, chat) == {i \in DOMAIN table : table[i].chat = chat}
NotOfChat(table, chat) == Keep(table, DOMAIN table \ OfChat(table, chat))

-----------------------------------------------------------------------------
(* ChatRepository                                                           *)

GetAllChats(store) == store.chats

HasChat(store, id) == Has(store.chats, id)

GetChatById(store, id) == Head(ById(store.chats, id))

\* To replace a row that is not there is to append one.
AddChat(store, chat) ==
  IF HasChat(store, chat.id) THEN store
  ELSE [store EXCEPT !.chats = Append(@, chat)]

\* ON DELETE CASCADE, from both tables that refer to a chat.
RemoveChat(store, id) ==
  [store EXCEPT !.chats = Without(@, id),
                !.relations = NotOfChat(@, id), !.messages = NotOfChat(@, id)]

HasRelation(store, chat, member) ==
  \E i \in DOMAIN store.relations :
     store.relations[i] = [chat |-> chat, member |-> member]

HasMember(store, id) == Has(store.members, id)

\* What a relation and a message refer to by their foreign keys.
HasBoth(store, chat, member) == HasChat(store, chat) /\ HasMember(store, member)

AddMemberToChat(store, chat, member) ==
  IF HasRelation(store, chat, member) \/ ~HasBoth(store, chat, member) THEN store
  ELSE [store EXCEPT !.relations =
          Append(@, [chat |-> chat, member |-> member])]

-----------------------------------------------------------------------------
(* ChatMemberRepository                                                     *)

GetAllMembers(store) == store.members

GetMemberById(store, id) == Head(ById(store.members, id))

AddMember(store, member) ==
  IF HasMember(store, member.id) THEN store
  ELSE [store EXCEPT !.members = Append(@, member)]

\* The first read of getMembersByChatId; each member is then a getMemberById.
RelationsOfChat(store, chat) ==
  Keep(store.relations, OfChat(store.relations, chat))

-----------------------------------------------------------------------------
(* MessageRepository                                                        *)

HasMessage(store, id) == Has(store.messages, id)

MayAddMessage(store, message) ==
  ~HasMessage(store, message.id) /\ HasBoth(store, message.chat, message.sender)

AddMessage(store, message) ==
  IF MayAddMessage(store, message)
  THEN [store EXCEPT !.messages = Append(@, message)]
  ELSE store

\* The rows getMessagesByChatId returns; what order they come in is the
\* business of the modules that show them.
GetMessagesByChatId(store, chat) ==
  Keep(store.messages, OfChat(store.messages, chat))
=============================================================================

------------------------------- MODULE ChatRooms -------------------------------
(***************************************************************************)
(* What the signaling server promises its users, without sessions, peer    *)
(* ids, cursors or tables: rooms with named members who come and go, and an *)
(* inbox per member of a group room.  The inbox holds the messages the      *)
(* server would deliver to the member if it came back now.                  *)
(*                                                                         *)
(* RoomRegistry implements it: the abstraction there is Promise, and the    *)
(* step that is not obvious is that the one cleanup of the messages table,  *)
(* by the lowest cursor of a room, looks to each member as if only its own   *)
(* inbox had changed.                                                       *)
(***************************************************************************)
EXTENDS Integers, FiniteSets

CONSTANTS RoomIds, Usernames

VARIABLES
  kind,     \* the type of each room, "none" for a room that does not exist
  members,  \* the members of each room
  online,   \* the pairs <<room, user>> of members who are connected
  inbox,    \* what each pair <<room, user>> would be delivered
  posted    \* number of messages posted, in all rooms

vars == <<kind, members, online, inbox, posted>>

Init ==
  /\ kind = [r \in RoomIds |-> "none"]
  /\ members = [r \in RoomIds |-> {}]
  /\ online = {}
  /\ inbox = [x \in RoomIds \X Usernames |-> {}]
  /\ posted = 0

\* All messages of room r that some member has yet to acknowledge.
Held(r) == UNION {inbox[<<r, u>>] : u \in members[r]}

\* A new member is given what the room still holds.
Join(r, u, type) ==
  /\ u \notin members[r]
  /\ IF kind[r] = "none" THEN type \in {"direct", "group"} ELSE type = kind[r]
  /\ type = "direct" => Cardinality(members[r]) < 2
  /\ kind' = [kind EXCEPT ![r] = type]
  /\ members' = [members EXCEPT ![r] = @ \cup {u}]
  /\ online' = online \cup {<<r, u>>}
  /\ inbox' = [inbox EXCEPT ![<<r, u>>] = Held(r)]
  /\ UNCHANGED posted

Return(r, u) ==
  /\ u \in members[r]
  /\ <<r, u>> \notin online
  /\ online' = online \cup {<<r, u>>}
  /\ UNCHANGED <<kind, members, inbox, posted>>

Post(r, u) ==
  /\ <<r, u>> \in online
  /\ kind[r] = "group"
  /\ posted' = posted + 1
  /\ inbox' = [x \in RoomIds \X Usernames |->
                 IF x[1] = r /\ x[2] \in members[r]
                 THEN inbox[x] \cup {posted + 1} ELSE inbox[x]]
  /\ UNCHANGED <<kind, members, online>>

\* Acknowledging n empties the inbox up to n. An n below an earlier one
\* brings back what the room still holds for others.
Acknowledge(r, u, n) ==
  /\ <<r, u>> \in online
  /\ inbox' = [inbox EXCEPT ![<<r, u>>] = {m \in Held(r) : m > n}]
  /\ UNCHANGED <<kind, members, online, posted>>

Leave(r, u) ==
  /\ <<r, u>> \in online
  /\ members' = [members EXCEPT ![r] = @ \ {u}]
  /\ kind' = [kind EXCEPT ![r] = IF members[r] = {u} THEN "none" ELSE @]
  /\ online' = online \ {<<r, u>>}
  /\ inbox' = [inbox EXCEPT ![<<r, u>>] = {}]
  /\ UNCHANGED posted

\* A connection is lost, and with it the presence in its rooms.
Drop(lost) ==
  /\ lost \subseteq online
  /\ online' = online \ lost
  /\ UNCHANGED <<kind, members, inbox, posted>>

Next ==
  \/ \E r \in RoomIds, u \in Usernames :
       \/ \E type \in {"direct", "group"} : Join(r, u, type)
       \/ Return(r, u)
       \/ Post(r, u)
       \/ \E n \in 1..posted : Acknowledge(r, u, n)
       \/ Leave(r, u)
  \/ \E lost \in SUBSET online : Drop(lost)

Spec == Init /\ [][Next]_vars
=============================================================================

---------------------------- MODULE RoomFaultsProofs ----------------------------
(***************************************************************************)
(* Proofs about RoomRegistryFaults: what restarts, failing store calls and   *)
(* late reads cannot break.  RegistryInv does not survive them, so nothing   *)
(* here assumes that RAM and database agree: each step is looked at with     *)
(* types alone, and with the few properties that are kept.                 *)
(***************************************************************************)
EXTENDS RoomRegistryFaults, RoomRegistryProofs

-----------------------------------------------------------------------------
(* Opening the file again.                                                 *)

(***************************************************************************)
(* Some stored sequence number is the largest.  The sets of numbers above    *)
(* each stored one are subsets of a finite set, so one of them is minimal.   *)
(***************************************************************************)
LEMMA LargestSeq ==
  ASSUME NEW stored \in SUBSET Seqs, stored # {}
  PROVE  \E n \in stored : \A m \in stored : m <= n
<1> DEFINE above(n) == {i \in Seqs : i > n}
           Family   == {above(n) : n \in stored}
<1>1. \A n \in Seqs : n \in Int
  BY DEF Seqs
<1>2. IsFiniteSet(Seqs)
  BY RegistryAssumption, FS_Interval DEF Seqs
<1>3. Family \subseteq FiniteSubsetsOf(Seqs) /\ Family # {}
  <2>1. FiniteSubsetsOf(Seqs) = SUBSET Seqs
    BY <1>2, FS_FiniteSubsetsOfFinite
  <2>2. Family \subseteq SUBSET Seqs /\ Family # {}
    OBVIOUS
  <2>3. QED
    BY <2>1, <2>2
<1>4. PICK U \in Family : \A V \in Family : <<V, U>> \notin StrictSubsetOrdering(Seqs)
  <2> HIDE DEF Family
  <2>1. QED
    BY <1>3, FS_StrictSubsetOrderingWellFounded, WFMin
<1>5. PICK n \in stored : U = above(n)
  OBVIOUS
<1>6. ASSUME NEW m \in stored, m > n
      PROVE  FALSE
  <2>1. above(m) \subseteq above(n) /\ m \in above(n) /\ m \notin above(m)
    BY <1>1, <1>6
  <2>2. <<above(m), above(n)>> \in StrictSubsetOrdering(Seqs)
    BY <2>1 DEF StrictSubsetOrdering
  <2>3. QED
    BY <1>4, <1>5, <2>2
<1>7. QED
  BY <1>1, <1>6

(***************************************************************************)
(* The file opens as the database it was, with the counter at the largest    *)
(* number stored.                                                          *)
(***************************************************************************)
LEMMA ReopenDb ==
  ASSUME NEW d, IsDb(d)
  PROVE  /\ IsDb(Reopen(d))
         /\ Reopen(d).rooms = d.rooms
         /\ Reopen(d).members = d.members
         /\ Reopen(d).messages = d.messages
         /\ \A n \in DOMAIN d.messages : n <= Reopen(d).nextSeq
<1> DEFINE stored == DOMAIN d.messages
           top    == CHOOSE n \in stored : \A m \in stored : m <= n
           last   == IF stored = {} THEN 0 ELSE top
<1>1. stored \subseteq Seqs
  BY DEF IsDb, IsTable
<1>2. last \in 0..MaxMsgSeq /\ \A n \in stored : n <= last
  <2>1. CASE stored = {}
    BY <2>1, RegistryAssumption
  <2>2. CASE stored # {}
    <3>1. top \in stored /\ \A m \in stored : m <= top
      BY <1>1, <2>2, LargestSeq
    <3>2. QED
      BY <1>1, <2>2, <3>1 DEF Seqs
  <2>3. QED
    BY <2>1, <2>2
<1>3. Reopen(d) = [d EXCEPT !.nextSeq = last]
  BY DEF Reopen
<1> HIDE DEF last
<1>4. QED
  BY <1>2, <1>3 DEF IsDb

-----------------------------------------------------------------------------
(* The inductive invariant, and what carries its parts from one state to the *)
(* next whatever the step is.                                              *)

\* Every variable has its type. A cursor may be any number here: restarts and
\* acknowledgements of numbers never sent put it ahead of the counter.
FaultTypeOK ==
  /\ IsDb(db)
  /\ RamTypeOK
  /\ session \in [Sessions -> {"absent", "open", "closing", "closed"}]
  /\ faults \in Nat

\* What the faults cannot break, types included.
FaultInv ==
  /\ FaultTypeOK
  /\ MessagesNumbered
  /\ MembersHaveRooms
  /\ DeliveriesStayInRoom
  /\ OneEntryPerRoom
  /\ BufferedUntilAcked

(***************************************************************************)
(* Deliveries stay in their rooms when every member online after a step was  *)
(* online before it, in the same room, at the same session, and no entry of  *)
(* its session in clients_ is gone.                                        *)
(***************************************************************************)
LEMMA DeliveriesAsBefore ==
  ASSUME DeliveriesStayInRoom,
         \A p \in DOMAIN db'.members :
           p \in DOMAIN connections' /\ connections'[p] # Expired =>
             /\ p \in DOMAIN db.members
             /\ db'.members[p].room_id = db.members[p].room_id
             /\ p \in DOMAIN connections
             /\ connections'[p] = connections[p]
             /\ \A c \in clients : c.peerId = p => c \in clients'
  PROVE  DeliveriesStayInRoom'
<1> SUFFICES ASSUME NEW p \in DOMAIN db'.members,
                    p \in DOMAIN connections', connections'[p] # Expired
             PROVE  \E c \in clients' : /\ c.session = connections'[p]
                                        /\ c.peerId = p
                                        /\ c.roomId = db'.members[p].room_id
  BY DEF DeliveriesStayInRoom, Online
<1>1. /\ p \in DOMAIN db.members
      /\ db'.members[p].room_id = db.members[p].room_id
      /\ p \in DOMAIN connections
      /\ connections'[p] = connections[p]
      /\ \A c \in clients : c.peerId = p => c \in clients'
  OBVIOUS
<1>2. PICK c \in clients : /\ c.session = connections[p]
                           /\ c.peerId = p
                           /\ c.roomId = db.members[p].room_id
  BY <1>1 DEF DeliveriesStayInRoom, Online
<1>3. QED
  BY <1>1, <1>2

(***************************************************************************)
(* What is owed stays buffered when no member's room, cursor or debt changes *)
(* and the messages that go are past none of the cursors in their rooms.    *)
(***************************************************************************)
LEMMA BufferedAsBefore ==
  ASSUME BufferedUntilAcked,
         \A p \in DOMAIN db'.members :
           /\ p \in DOMAIN db.members
           /\ db'.members[p] = db.members[p]
           /\ owed'[p] = owed[p],
         \A n \in DOMAIN db'.messages : db'.messages[n] = db.messages[n],
         \A n \in DOMAIN db.messages \ DOMAIN db'.messages :
           \A p \in DOMAIN db'.members :
             db.members[p].room_id = db.messages[n].room_id =>
               ~ (n > db.members[p].last_acked_msg_seq)
  PROVE  BufferedUntilAcked'
<1>1. \A p \in DOMAIN db'.members : Buffered(p)'
  BY BufferedMembers DEF Buffered
<1>2. QED
  BY <1>1
  DEF BufferedUntilAcked, Buffered, PendingMessages, GetMessagesAfter,
      MessagesOfRoom

(***************************************************************************)
(* What cleanupMessages may delete is past no cursor of a member there.     *)
(***************************************************************************)
LEMMA CleanableIsAcked ==
  ASSUME NEW d, IsDb(d), NEW r, NEW n \in Cleanable(d, r),
         NEW p \in DOMAIN d.members, d.members[p].room_id = d.messages[n].room_id
  PROVE  ~ (n > d.members[p].last_acked_msg_seq)
<1>1. /\ d.messages[n].room_id = r /\ n \in DOMAIN d.messages
      /\ p \in FindMembersByRoom(d, r)
      /\ n <= d.members[p].last_acked_msg_seq
  BY DEF Cleanable, MessagesOfRoom, FindMembersByRoom
<1>2. n \in Int /\ d.members[p].last_acked_msg_seq \in Int
  BY <1>1 DEF IsDb, IsTable, MemberRow, Seqs
<1>3. QED
  BY <1>1, <1>2

(***************************************************************************)
(* The entries Purge leaves are as they were.                              *)
(***************************************************************************)
LEMMA PurgeKeeps ==
  ASSUME NEW ps
  PROVE  /\ DOMAIN Purge(ps) \subseteq DOMAIN connections
         /\ \A p \in DOMAIN Purge(ps) : Purge(ps)[p] = connections[p]
BY DEF Purge, Remove

-----------------------------------------------------------------------------
(* join.                                                                   *)

\* What join writes, when it admits session s to room r as member p: the
\* member's row, its entry in connections_ and the session's in clients_.
Entered(s, r, p) ==
  /\ \E e \in ClientInfo :
       /\ e.session = s /\ e.roomId = r /\ e.peerId = p
       /\ clients' = clients \cup {e}
  /\ ~InRoom(s, r)
  /\ DOMAIN db'.members = DOMAIN db.members \cup {p}
  /\ db'.members[p].room_id = r
  /\ \A q \in DOMAIN db.members \ {p} : db'.members[q] = db.members[q]
  /\ p \in DOMAIN connections' /\ connections'[p] = s
  /\ \A q \in DOMAIN connections' \ {p} :
       q \in DOMAIN connections /\ connections'[q] = connections[q]

(***************************************************************************)
(* A row of members and what Enter writes are all that a join changes, the  *)
(* room's own row apart.                                                   *)
(***************************************************************************)
LEMMA EnterIsEntered ==
  ASSUME IsDb(db), RamTypeOK, NEW s \in Sessions, NEW r \in RoomIds,
         NEW u \in Usernames, NEW t \in RequestedTypes, NEW p \in PeerIds,
         NEW n \in Int, MayAsk(s, r, t),
         db' = SaveMember(WithRoom(r, t), p,
                 [username |-> u, room_id |-> r, last_acked_msg_seq |-> n]),
         Enter(s, r, u, t, p)
  PROVE  /\ Entered(s, r, p)
         /\ DOMAIN db'.rooms = DOMAIN db.rooms \cup {r}
         /\ db'.messages = db.messages
         /\ db'.nextSeq = db.nextSeq
<1> DEFINE row  == [username |-> u, room_id |-> r, last_acked_msg_seq |-> n]
           kept == Purge(FindMembersByRoom(db, r) \ {p})
           e    == [session |-> s, roomId |-> r, peerId |-> p, username |-> u,
                    roomType |-> JoinedType(r, t)]
<1>1. /\ JoinedType(r, t) \in RoomTypes
      /\ IsDb(WithRoom(r, t))
      /\ DOMAIN WithRoom(r, t).rooms = DOMAIN db.rooms \cup {r}
      /\ WithRoom(r, t).members = db.members
      /\ WithRoom(r, t).messages = db.messages
      /\ WithRoom(r, t).nextSeq = db.nextSeq
  BY WithRoomDb
<1>2. row \in MemberRow /\ row.room_id = r
  BY DEF MemberRow
<1>3. e \in ClientInfo /\ e.session = s /\ e.roomId = r /\ e.peerId = p
  BY <1>1 DEF ClientInfo
<1>4. clients' = clients \cup {e} /\ connections' = Replace(kept, p, s)
  BY DEF Enter
<1>5. db' = SaveMember(WithRoom(r, t), p, row)
  OBVIOUS
<1> HIDE DEF row, e
<1>6. /\ db'.rooms = WithRoom(r, t).rooms
      /\ db'.members = Replace(db.members, p, row)
      /\ db'.messages = db.messages
      /\ db'.nextSeq = db.nextSeq
  BY <1>1, <1>2, <1>5, SaveMemberDb
<1>7. /\ DOMAIN db'.members = DOMAIN db.members \cup {p}
      /\ db'.members[p].room_id = r
      /\ \A q \in DOMAIN db.members \ {p} : db'.members[q] = db.members[q]
  BY <1>2, <1>6 DEF Replace
<1>8. /\ p \in DOMAIN connections' /\ connections'[p] = s
      /\ \A q \in DOMAIN connections' \ {p} :
           q \in DOMAIN connections /\ connections'[q] = connections[q]
  <2>1. /\ DOMAIN kept \subseteq DOMAIN connections
        /\ \A q \in DOMAIN kept : kept[q] = connections[q]
    BY PurgeKeeps
  <2> HIDE DEF kept
  <2>2. QED
    BY <1>4, <2>1 DEF Replace
<1>9. ~InRoom(s, r)
  BY DEF MayAsk
<1>10. QED
  BY <1>1, <1>3, <1>4, <1>6, <1>7, <1>8, <1>9 DEF Entered

(***************************************************************************)
(* Refused or not, join touches neither messages nor counter, and adds only  *)
(* the room it was asked for; a refusal leaves the rest alone.             *)
(***************************************************************************)
LEMMA JoinsTables ==
  ASSUME IsDb(db), RamTypeOK, NEW s \in Sessions, Joins(s)
  PROVE  /\ db'.messages = db.messages
         /\ db'.nextSeq = db.nextSeq
         /\ \E r \in RoomIds :
              /\ DOMAIN db'.rooms = DOMAIN db.rooms \cup {r}
              /\ \/ db'.members = db.members /\ UNCHANGED <<clients, connections>>
                 \/ \E p \in PeerIds : Entered(s, r, p)
<1>1. PICK r \in RoomIds, u \in Usernames, t \in RequestedTypes :
        \/ JoinRefused(s, r, u, t)
        \/ JoinReconnect(s, r, u, t)
        \/ JoinNew(s, r, u, t)
  BY DEF Joins
<1>2. CASE JoinRefused(s, r, u, t)
  BY <1>2, WithRoomDb DEF JoinRefused
<1>3. CASE JoinReconnect(s, r, u, t)
  <2>1. PICK p \in Namesakes(r, u) :
          /\ db' = SaveMember(WithRoom(r, t), p,
                     [username |-> u, room_id |-> r,
                      last_acked_msg_seq |-> db.members[p].last_acked_msg_seq])
          /\ Enter(s, r, u, t, p)
    BY <1>3 DEF JoinReconnect
  <2>2. p \in PeerIds /\ db.members[p].last_acked_msg_seq \in Int
    BY DEF Namesakes, FindMembersByRoom, IsDb, IsTable, MemberRow
  <2>3. MayAsk(s, r, t)
    BY <1>3 DEF JoinReconnect
  <2>4. QED
    BY <2>1, <2>2, <2>3, EnterIsEntered
<1>4. CASE JoinNew(s, r, u, t)
  <2>1. nextPeerSeq \in PeerIds
    BY <1>4, RegistryAssumption DEF JoinNew, RamTypeOK, PeerIds
  <2>2. /\ MayAsk(s, r, t)
        /\ db' = SaveMember(WithRoom(r, t), nextPeerSeq,
                   [username |-> u, room_id |-> r, last_acked_msg_seq |-> 0])
        /\ Enter(s, r, u, t, nextPeerSeq)
    BY <1>4 DEF JoinNew
  <2>3. QED
    BY <2>1, <2>2, EnterIsEntered
<1>5. QED
  BY <1>1, <1>2, <1>3, <1>4

(***************************************************************************)
(* join, in whatever state the session and the tables are.                 *)
(***************************************************************************)
LEMMA JoinsKeepFaultInv ==
  ASSUME FaultInv, NEW s \in Sessions, Joins(s),
         session' \in [Sessions -> {"absent", "open", "closing", "closed"}],
         faults' \in Nat
  PROVE  FaultInv'
<1>1. IsDb(db) /\ RamTypeOK
  BY DEF FaultInv, FaultTypeOK
<1>2. FaultTypeOK'
  BY <1>1, JoinsTypes DEF FaultTypeOK
<1>3. db'.messages = db.messages /\ db'.nextSeq = db.nextSeq
  BY <1>1, JoinsTables
<1>4. MessagesNumbered'
  BY <1>3 DEF MessagesNumbered, FaultInv
<1>5. BufferedUntilAcked'
  BY <1>1, JoinsKeepBuffered DEF FaultInv
<1>6. PICK r \in RoomIds :
        /\ DOMAIN db'.rooms = DOMAIN db.rooms \cup {r}
        /\ \/ db'.members = db.members /\ UNCHANGED <<clients, connections>>
           \/ \E p \in PeerIds : Entered(s, r, p)
  BY <1>1, JoinsTables
<1>7. CASE db'.members = db.members /\ UNCHANGED <<clients, connections>>
  <2>1. MembersHaveRooms'
    BY <1>6, <1>7 DEF MembersHaveRooms, FaultInv
  <2>2. DeliveriesStayInRoom'
    BY <1>7 DEF DeliveriesStayInRoom, Online, FaultInv
  <2>3. OneEntryPerRoom'
    BY <1>7 DEF OneEntryPerRoom, FaultInv
  <2>4. QED
    BY <1>2, <1>4, <1>5, <2>1, <2>2, <2>3 DEF FaultInv
<1>8. ASSUME NEW p \in PeerIds, Entered(s, r, p)
      PROVE  FaultInv'
  <2>1. PICK e \in ClientInfo : /\ e.session = s /\ e.roomId = r /\ e.peerId = p
                                /\ clients' = clients \cup {e}
    BY <1>8 DEF Entered
  <2>2. MembersHaveRooms'
    BY <1>6, <1>8 DEF Entered, MembersHaveRooms, FaultInv
  <2>3. OneEntryPerRoom'
    <3>1. \A c \in clients : ~ (c.session = s /\ c.roomId = r)
      BY <1>8 DEF Entered, InRoom
    <3>2. QED
      BY <2>1, <3>1 DEF OneEntryPerRoom, FaultInv
  <2>4. DeliveriesStayInRoom'
    <3> SUFFICES ASSUME NEW q \in DOMAIN db'.members,
                        q \in DOMAIN connections', connections'[q] # Expired
                 PROVE  \E c \in clients' : /\ c.session = connections'[q]
                                            /\ c.peerId = q
                                            /\ c.roomId = db'.members[q].room_id
      BY DEF DeliveriesStayInRoom, Online
    <3>1. CASE q = p
      BY <1>8, <2>1, <3>1 DEF Entered
    <3>2. CASE q # p
      <4>1. /\ q \in DOMAIN db.members /\ db'.members[q] = db.members[q]
            /\ q \in DOMAIN connections /\ connections'[q] = connections[q]
        BY <1>8, <3>2 DEF Entered
      <4>2. PICK c \in clients : /\ c.session = connections[q]
                                 /\ c.peerId = q
                                 /\ c.roomId = db.members[q].room_id
        BY <4>1 DEF FaultInv, DeliveriesStayInRoom, Online
      <4>3. QED
        BY <2>1, <4>1, <4>2
    <3>3. QED
      BY <3>1, <3>2
  <2>5. QED
    BY <1>2, <1>4, <1>5, <2>2, <2>3, <2>4 DEF FaultInv
<1>9. QED
  BY <1>6, <1>7, <1>8

-----------------------------------------------------------------------------
(* Steps that only end or forget someone's presence.                       *)

(***************************************************************************)
(* A step that leaves database and debts alone and brings nobody online.    *)
(***************************************************************************)
LEMMA PresenceKeepsFaultInv ==
  ASSUME FaultInv, UNCHANGED <<db, nextPeerSeq, owed>>,
         clients' \subseteq clients,
         IsTable(connections', PeerIds, Sessions \cup {Expired}),
         \A p \in DOMAIN connections' : connections'[p] # Expired =>
           /\ p \in DOMAIN connections
           /\ connections'[p] = connections[p]
           /\ \A c \in clients : c.peerId = p => c \in clients',
         session' \in [Sessions -> {"absent", "open", "closing", "closed"}],
         faults' \in Nat
  PROVE  FaultInv'
<1>1. FaultTypeOK'
  BY DEF FaultInv, FaultTypeOK, RamTypeOK
<1>2. MessagesNumbered' /\ MembersHaveRooms'
  BY DEF FaultInv, MessagesNumbered, MembersHaveRooms
<1>3. DeliveriesStayInRoom'
  BY DeliveriesAsBefore DEF FaultInv
<1>4. OneEntryPerRoom'
  BY DEF FaultInv, OneEntryPerRoom
<1>5. BufferedUntilAcked'
  BY DEF FaultInv, BufferedUntilAcked, PendingMessages, GetMessagesAfter,
         MessagesOfRoom
<1>6. QED
  BY <1>1, <1>2, <1>3, <1>4, <1>5 DEF FaultInv

(***************************************************************************)
(* disconnect, whenever it is called.                                      *)
(***************************************************************************)
LEMMA DisconnectKeepsFaultInv ==
  ASSUME FaultInv, NEW s \in Sessions, Disconnect(s),
         session' \in [Sessions -> {"absent", "open", "closing", "closed"}],
         faults' \in Nat
  PROVE  FaultInv'
<1> DEFINE own == ClientsOf(s)
           met == UNION {FindMembersByRoom(db, c.roomId) : c \in own}
<1>1. /\ connections' = Remove(Purge(met), {c.peerId : c \in own})
      /\ clients' = clients \ own
      /\ UNCHANGED <<db, nextPeerSeq, owed>>
  BY DEF Disconnect
<1>2. IsTable(connections', PeerIds, Sessions \cup {Expired})
  BY DisconnectTypes DEF FaultInv, FaultTypeOK, RamTypeOK
<1>3. /\ DOMAIN Purge(met) \subseteq DOMAIN connections
      /\ \A p \in DOMAIN Purge(met) : Purge(met)[p] = connections[p]
  BY PurgeKeeps
<1> HIDE DEF met
<1>4. \A p \in DOMAIN connections' :
        /\ p \in DOMAIN connections /\ connections'[p] = connections[p]
        /\ \A c \in clients : c.peerId = p => c \in clients'
  BY <1>1, <1>3 DEF Remove
<1>5. QED
  BY <1>1, <1>2, <1>4, PresenceKeepsFaultInv

(***************************************************************************)
(* disconnect that throws at one of the session's rooms.                   *)
(***************************************************************************)
LEMMA CloseFailsKeepsFaultInv ==
  ASSUME FaultInv, NEW s \in Sessions, CloseFails(s), faults' \in Nat
  PROVE  FaultInv'
<1>1. PICK done \in SUBSET ClientsOf(s) :
        connections' =
          Remove(Purge(UNION {FindMembersByRoom(db, c.roomId) : c \in done}),
                 {c.peerId : c \in done})
  BY DEF CloseFails
<1> DEFINE met  == UNION {FindMembersByRoom(db, c.roomId) : c \in done}
           gone == {c.peerId : c \in done}
<1>2. connections' = Remove(Purge(met), gone)
  BY <1>1
<1>3. /\ UNCHANGED <<db, clients, nextPeerSeq, owed>>
      /\ session' \in [Sessions -> {"absent", "open", "closing", "closed"}]
  BY DEF CloseFails, FaultInv, FaultTypeOK
<1>4. IsTable(Purge(met), PeerIds, Sessions \cup {Expired})
  BY PurgeTable DEF FaultInv, FaultTypeOK
<1>5. /\ DOMAIN Purge(met) \subseteq DOMAIN connections
      /\ \A p \in DOMAIN Purge(met) : Purge(met)[p] = connections[p]
  BY PurgeKeeps
<1> HIDE DEF met, gone
<1>6. IsTable(connections', PeerIds, Sessions \cup {Expired})
  BY <1>2, <1>4, RemoveTable
<1>7. \A p \in DOMAIN connections' :
        p \in DOMAIN connections /\ connections'[p] = connections[p]
  BY <1>2, <1>5 DEF Remove
<1>8. QED
  BY <1>3, <1>6, <1>7, PresenceKeepsFaultInv

(***************************************************************************)
(* The object of a session is destroyed: its weak pointers expire.         *)
(***************************************************************************)
LEMMA FreeKeepsFaultInv ==
  ASSUME FaultInv, NEW s \in Sessions, Free(s), faults' \in Nat
  PROVE  FaultInv'
<1>1. IsTable(connections, PeerIds, Sessions \cup {Expired})
  BY DEF FaultInv, FaultTypeOK, RamTypeOK
<1>2. connections' = [p \in DOMAIN connections |->
                        IF connections[p] = s THEN Expired ELSE connections[p]]
  BY DEF Free
<1>3. IsTable(connections', PeerIds, Sessions \cup {Expired})
  BY <1>1, <1>2 DEF IsTable
<1>4. session' \in [Sessions -> {"absent", "open", "closing", "closed"}]
  BY DEF Free, FaultInv, FaultTypeOK
<1>5. QED
  BY <1>2, <1>3, <1>4, PresenceKeepsFaultInv DEF Free

(***************************************************************************)
(* A restart: nobody is online, and the file is as it was.                  *)
(***************************************************************************)
LEMMA RestartKeepsFaultInv ==
  ASSUME FaultInv, Restart, faults' \in Nat
  PROVE  FaultInv'
<1>1. /\ IsDb(db')
      /\ db'.rooms = db.rooms
      /\ db'.members = db.members
      /\ db'.messages = db.messages
      /\ \A n \in DOMAIN db.messages : n <= db'.nextSeq
  BY ReopenDb DEF Restart, FaultInv, FaultTypeOK
<1>2. /\ clients' = {} /\ DOMAIN connections' = {}
      /\ IsTable(connections', PeerIds, Sessions \cup {Expired})
  BY EmptyTableIsTable DEF Restart
<1>3. FaultTypeOK'
  BY <1>1, <1>2, RegistryAssumption
  DEF Restart, FaultInv, FaultTypeOK, RamTypeOK
<1>4. MessagesNumbered' /\ MembersHaveRooms'
  BY <1>1 DEF FaultInv, MessagesNumbered, MembersHaveRooms
<1>5. DeliveriesStayInRoom' /\ OneEntryPerRoom'
  BY <1>2 DEF DeliveriesStayInRoom, OneEntryPerRoom, Online
<1>6. BufferedUntilAcked'
  BY <1>1, BufferedAsBefore DEF Restart, FaultInv
<1>7. QED
  BY <1>3, <1>4, <1>5, <1>6 DEF FaultInv

-----------------------------------------------------------------------------
(* What a session asks for in a room it takes itself to be in, and a join    *)
(* the store fails in.                                                     *)

(***************************************************************************)
(* Steps that change messages, counter, cursors and debts only, or take a    *)
(* member away, keep what is said of rooms and deliveries.                 *)
(***************************************************************************)
LEMMA FewerMembersKeepRooms ==
  ASSUME FaultInv,
         UNCHANGED clients,
         DOMAIN db.rooms \subseteq DOMAIN db'.rooms,
         DOMAIN db'.members \subseteq DOMAIN db.members,
         \A p \in DOMAIN db'.members : db'.members[p].room_id = db.members[p].room_id,
         \A p \in DOMAIN connections' :
           p \in DOMAIN connections /\ connections'[p] = connections[p]
  PROVE  MembersHaveRooms' /\ DeliveriesStayInRoom' /\ OneEntryPerRoom'
<1>1. MembersHaveRooms'
  BY DEF FaultInv, MembersHaveRooms
<1>2. DeliveriesStayInRoom'
  BY DeliveriesAsBefore DEF FaultInv
<1>3. OneEntryPerRoom'
  BY DEF FaultInv, OneEntryPerRoom
<1>4. QED
  BY <1>1, <1>2, <1>3

(***************************************************************************)
(* A join that throws after the room is saved or before the member is.     *)
(***************************************************************************)
LEMMA JoinFailsKeepsFaultInv ==
  ASSUME FaultInv, NEW s \in Sessions, NEW r \in RoomIds, NEW u \in Usernames,
         NEW t \in RequestedTypes, JoinFails(s, r, u, t), UNCHANGED session,
         faults' \in Nat
  PROVE  FaultInv'
<1>1. IsDb(db) /\ RamTypeOK
  BY DEF FaultInv, FaultTypeOK
<1>2. /\ IsDb(db')
      /\ DOMAIN db'.rooms = DOMAIN db.rooms \cup {r}
      /\ db'.members = db.members
      /\ db'.messages = db.messages
      /\ db'.nextSeq = db.nextSeq
  BY <1>1, WithRoomDb DEF JoinFails
<1>3. PICK ps : connections' = connections \/ connections' = Purge(ps)
  BY DEF JoinFails
<1>4. IsTable(connections', PeerIds, Sessions \cup {Expired})
  BY <1>1, <1>3, PurgeTable DEF RamTypeOK
<1>5. \A p \in DOMAIN connections' :
        p \in DOMAIN connections /\ connections'[p] = connections[p]
  BY <1>3, PurgeKeeps
<1>6. nextPeerSeq' \in 1..(MaxPeerSeq + 1)
  <2>1. \/ nextPeerSeq' = nextPeerSeq
        \/ nextPeerSeq <= MaxPeerSeq /\ nextPeerSeq' = nextPeerSeq + 1
    BY DEF JoinFails
  <2>2. QED
    BY <1>1, <2>1, RegistryAssumption DEF RamTypeOK
<1>7. FaultTypeOK'
  BY <1>1, <1>2, <1>4, <1>6 DEF JoinFails, FaultInv, FaultTypeOK, RamTypeOK
<1>8. MessagesNumbered'
  BY <1>2 DEF FaultInv, MessagesNumbered
<1>9. MembersHaveRooms' /\ DeliveriesStayInRoom' /\ OneEntryPerRoom'
  BY <1>2, <1>5, FewerMembersKeepRooms DEF JoinFails
<1>10. BufferedUntilAcked'
  BY <1>2, BufferedAsBefore DEF JoinFails, FaultInv
<1>11. QED
  BY <1>7, <1>8, <1>9, <1>10 DEF FaultInv

(***************************************************************************)
(* broadcast, and a broadcast that fails: a number is spent, and a message   *)
(* stored for all who are to have it or not at all.                        *)
(***************************************************************************)
LEMMA BroadcastKeepsFaultInv ==
  ASSUME FaultInv, NEW c \in clients, Broadcast(c) \/ BroadcastFails(c),
         UNCHANGED session, faults' \in Nat
  PROVE  FaultInv'
<1>1. /\ IsDb(db) /\ RamTypeOK /\ MessagesNumbered
      /\ c.peerId \in PeerIds /\ c.roomId \in RoomIds
  BY DEF FaultInv, FaultTypeOK, RamTypeOK, ClientInfo
<1>2. /\ db.nextSeq < MaxMsgSeq
      /\ UNCHANGED <<clients, nextPeerSeq>>
  BY DEF Broadcast, BroadcastFails
<1>3. PICK ps : connections' = connections \/ connections' = Purge(ps)
  BY DEF Broadcast, BroadcastFails
<1>4. /\ IsTable(connections', PeerIds, Sessions \cup {Expired})
      /\ \A p \in DOMAIN connections' :
           p \in DOMAIN connections /\ connections'[p] = connections[p]
  BY <1>1, <1>3, PurgeTable, PurgeKeeps DEF RamTypeOK
<1>5. db.nextSeq + 1 \in Seqs /\ db.nextSeq + 1 \in 0..MaxMsgSeq
  BY <1>1, <1>2, RegistryAssumption DEF IsDb, Seqs
<1>6. CASE db' = [db EXCEPT !.nextSeq = @ + 1] /\ UNCHANGED owed
  <2>1. /\ IsDb(db')
        /\ db'.rooms = db.rooms /\ db'.members = db.members
        /\ db'.messages = db.messages /\ db'.nextSeq = db.nextSeq + 1
    BY <1>1, <1>5, <1>6 DEF IsDb
  <2>2. FaultTypeOK'
    BY <1>1, <1>2, <1>4, <1>6, <2>1 DEF FaultInv, FaultTypeOK, RamTypeOK
  <2>3. MessagesNumbered'
    BY <1>1, <2>1 DEF MessagesNumbered, IsDb, IsTable, Seqs
  <2>4. MembersHaveRooms' /\ DeliveriesStayInRoom' /\ OneEntryPerRoom'
    BY <1>2, <1>4, <2>1, FewerMembersKeepRooms
  <2>5. BufferedUntilAcked'
    BY <1>6, <2>1, BufferedAsBefore DEF FaultInv
  <2>6. QED
    BY <2>2, <2>3, <2>4, <2>5 DEF FaultInv
<1>7. CASE /\ db' = SaveGroupMessage(db, c.roomId, c.peerId)
           /\ Owe(c.roomId, db.nextSeq + 1)
  <2>1. /\ IsDb(db')
        /\ db'.rooms = db.rooms /\ db'.members = db.members
        /\ db'.messages = Replace(db.messages, db.nextSeq + 1,
                            [room_id |-> c.roomId, from_peer_id |-> c.peerId])
        /\ db'.nextSeq = db.nextSeq + 1
    BY <1>1, <1>2, <1>7, SaveGroupMessageDb
  <2>2. owed' \in [PeerIds -> SUBSET Seqs]
    BY <1>1, <1>5, <1>7 DEF Owe, RamTypeOK
  <2>3. FaultTypeOK'
    BY <1>1, <1>2, <1>4, <2>1, <2>2 DEF FaultInv, FaultTypeOK, RamTypeOK
  <2>4. MessagesNumbered'
    <3>1. DOMAIN db'.messages = DOMAIN db.messages \cup {db.nextSeq + 1}
      BY <2>1 DEF Replace
    <3>2. QED
      BY <1>1, <2>1, <3>1 DEF MessagesNumbered, IsDb, IsTable, Seqs
  <2>5. MembersHaveRooms' /\ DeliveriesStayInRoom' /\ OneEntryPerRoom'
    BY <1>2, <1>4, <2>1, FewerMembersKeepRooms
  <2>6. BufferedUntilAcked'
    BY <1>1, <1>2, <1>7, BroadcastKeepsBuffered DEF FaultInv, MessagesNumbered
  <2>7. QED
    BY <2>3, <2>4, <2>5, <2>6 DEF FaultInv
<1>8. QED
  BY <1>6, <1>7 DEF Broadcast, BroadcastFails

(***************************************************************************)
(* acknowledgeMessages, for any number, and one that fails while it cleans   *)
(* up: whichever of the rows it was to delete are gone.                    *)
(***************************************************************************)
LEMMA AcknowledgeKeepsFaultInv ==
  ASSUME FaultInv, NEW c \in clients, NEW n \in Int,
         Acknowledge(c, n) \/ AcknowledgeFails(c, n),
         UNCHANGED session, faults' \in Nat
  PROVE  FaultInv'
<1> DEFINE acked == UpdateLastAckedSeq(db, c.peerId, n)
<1>1. /\ IsDb(db) /\ RamTypeOK /\ MessagesNumbered
      /\ c.peerId \in PeerIds
      /\ DOMAIN db.members \subseteq PeerIds
      /\ owed \in [PeerIds -> SUBSET Seqs]
  BY DEF FaultInv, FaultTypeOK, RamTypeOK, ClientInfo, IsDb, IsTable
<1>2. /\ IsDb(acked)
      /\ acked.rooms = db.rooms
      /\ DOMAIN acked.members = DOMAIN db.members
      /\ \A q \in DOMAIN db.members :
           /\ acked.members[q].room_id = db.members[q].room_id
           /\ acked.members[q].last_acked_msg_seq =
                IF q = c.peerId THEN n ELSE db.members[q].last_acked_msg_seq
      /\ acked.messages = db.messages
      /\ acked.nextSeq = db.nextSeq
  BY <1>1, UpdateLastAckedSeqDb
<1>3. /\ \E gone \in SUBSET Cleanable(acked, c.roomId) :
           db' = [acked EXCEPT !.messages = Remove(@, gone)]
      /\ owed' = [owed EXCEPT ![c.peerId] = {k \in @ : k > n}]
      /\ UNCHANGED <<clients, connections, nextPeerSeq>>
  BY DEF Acknowledge, AcknowledgeFails, CleanupMessages
<1> HIDE DEF acked
<1>4. PICK gone \in SUBSET Cleanable(acked, c.roomId) :
        db' = [acked EXCEPT !.messages = Remove(@, gone)]
  BY <1>3
<1>5. /\ IsDb(db')
      /\ db'.rooms = db.rooms
      /\ db'.members = acked.members
      /\ db'.messages = Remove(db.messages, gone)
      /\ db'.nextSeq = db.nextSeq
  BY <1>2, <1>4, RemoveMessagesDb
<1>6. /\ DOMAIN db'.messages = DOMAIN db.messages \ gone
      /\ \A k \in DOMAIN db'.messages : db'.messages[k] = db.messages[k]
  BY <1>5 DEF Remove
<1>7. FaultTypeOK'
  <2>1. owed' \in [PeerIds -> SUBSET Seqs]
    BY <1>1, <1>3
  <2>2. QED
    BY <1>1, <1>3, <1>5, <2>1 DEF FaultInv, FaultTypeOK, RamTypeOK
<1>8. MessagesNumbered'
  BY <1>1, <1>5, <1>6 DEF MessagesNumbered
<1>9. MembersHaveRooms' /\ DeliveriesStayInRoom' /\ OneEntryPerRoom'
  BY <1>2, <1>3, <1>5, FewerMembersKeepRooms
<1>10. \A q \in DOMAIN db'.members : Buffered(q)'
  <2> SUFFICES ASSUME NEW q \in DOMAIN db'.members, NEW k \in owed'[q]
               PROVE  /\ k \in DOMAIN db'.messages
                      /\ db'.messages[k].room_id = db'.members[q].room_id
                      /\ k > db'.members[q].last_acked_msg_seq
    BY DEF Buffered
  <2>1. /\ q \in DOMAIN db.members /\ q \in DOMAIN acked.members
        /\ k \in owed[q] /\ (q = c.peerId => k > n)
    BY <1>1, <1>2, <1>3, <1>5
  <2>2. /\ k \in DOMAIN db.messages
        /\ db.messages[k].room_id = db.members[q].room_id
        /\ k > db.members[q].last_acked_msg_seq
    BY <2>1, BufferedMembers DEF Buffered, FaultInv
  <2>3. k > acked.members[q].last_acked_msg_seq
    BY <1>2, <2>1, <2>2
  <2>4. k \notin gone
    BY <1>2, <2>1, <2>2, <2>3, CleanableIsAcked
  <2>5. QED
    BY <1>2, <1>5, <1>6, <2>1, <2>2, <2>3, <2>4
<1>11. BufferedUntilAcked'
  BY <1>10
  DEF BufferedUntilAcked, Buffered, PendingMessages, GetMessagesAfter,
      MessagesOfRoom
<1>12. QED
  BY <1>7, <1>8, <1>9, <1>11 DEF FaultInv

(***************************************************************************)
(* leave, also by a session whose member is in another room by now, or gone. *)
(***************************************************************************)
LEMMA LeaveKeepsFaultInv ==
  ASSUME FaultInv, NEW c \in clients, Leave(c), UNCHANGED session, faults' \in Nat
  PROVE  FaultInv'
<1>1. IsDb(db) /\ RamTypeOK /\ MessagesNumbered /\ AckSeqs \in SUBSET Int
  BY FaultsAssumption DEF FaultInv, FaultTypeOK
<1>2. FaultTypeOK'
  <2>1. Requests(c, AckSeqs)
    BY DEF Requests
  <2>2. QED
    BY <1>1, <2>1, RequestsTypes DEF FaultInv, FaultTypeOK
<1>3. MessagesNumbered'
  BY <1>1, LeaveTables DEF MessagesNumbered
<1>4. /\ DOMAIN db'.members = DOMAIN db.members \ {c.peerId}
      /\ \A q \in DOMAIN db'.members : db'.members[q] = db.members[q]
      /\ DOMAIN db'.rooms =
           IF FindMembersByRoom(db, c.roomId) \subseteq {c.peerId}
           THEN DOMAIN db.rooms \ {c.roomId} ELSE DOMAIN db.rooms
  BY <1>1, LeaveTables
<1>5. MembersHaveRooms'
  BY <1>4 DEF FaultInv, MembersHaveRooms, FindMembersByRoom
<1>6. clients' = clients \ {c}
  BY DEF Leave
<1>7. DeliveriesStayInRoom'
  <2>1. \A p \in DOMAIN connections' :
          p \in DOMAIN connections /\ connections'[p] = connections[p]
    BY PurgeKeeps DEF Leave, Remove
  <2>2. \A d \in clients : d.peerId # c.peerId => d \in clients'
    BY <1>6
  <2>3. QED
    BY <1>4, <2>1, <2>2, DeliveriesAsBefore DEF FaultInv
<1>8. OneEntryPerRoom'
  BY <1>6 DEF FaultInv, OneEntryPerRoom
<1>9. BufferedUntilAcked'
  BY <1>1, LeaveKeepsBuffered DEF FaultInv
<1>10. QED
  BY <1>2, <1>3, <1>5, <1>7, <1>8, <1>9 DEF FaultInv

(***************************************************************************)
(* leave that throws after the member is removed: the rows it deleted are    *)
(* those of a room without members, or such as all who stay have passed.    *)
(***************************************************************************)
LEMMA LeaveFailsKeepsFaultInv ==
  ASSUME FaultInv, NEW c \in clients, LeaveFails(c), UNCHANGED session,
         faults' \in Nat
  PROVE  FaultInv'
<1> DEFINE rest   == RemoveMember(db, c.peerId)
           doomed == IF FindMembersByRoom(rest, c.roomId) = {}
                     THEN MessagesOfRoom(rest, c.roomId)
                     ELSE Cleanable(rest, c.roomId)
<1>1. IsDb(db) /\ RamTypeOK /\ MessagesNumbered
  BY DEF FaultInv, FaultTypeOK
<1>2. /\ IsDb(rest)
      /\ rest.rooms = db.rooms
      /\ rest.members = Remove(db.members, {c.peerId})
      /\ rest.messages = db.messages
      /\ rest.nextSeq = db.nextSeq
  BY <1>1, RemoveMemberDb
<1>3. /\ \E gone \in SUBSET doomed :
           db' = [rest EXCEPT !.messages = Remove(@, gone)]
      /\ connections' = Purge(FindMembersByRoom(db, c.roomId) \ {c.peerId})
      /\ UNCHANGED <<clients, nextPeerSeq, owed>>
  BY DEF LeaveFails
<1> HIDE DEF rest
<1>4. PICK gone \in SUBSET doomed :
        db' = [rest EXCEPT !.messages = Remove(@, gone)]
  BY <1>3
<1>5. /\ IsDb(db')
      /\ db'.rooms = db.rooms
      /\ db'.members = rest.members
      /\ db'.messages = Remove(db.messages, gone)
      /\ db'.nextSeq = db.nextSeq
  BY <1>2, <1>4, RemoveMessagesDb
<1>6. /\ DOMAIN db'.messages = DOMAIN db.messages \ gone
      /\ \A k \in DOMAIN db'.messages : db'.messages[k] = db.messages[k]
  BY <1>5 DEF Remove
<1>7. /\ DOMAIN db'.members = DOMAIN db.members \ {c.peerId}
      /\ \A q \in DOMAIN db'.members : db'.members[q] = db.members[q]
  BY <1>2, <1>5 DEF Remove
<1>8. /\ IsTable(connections', PeerIds, Sessions \cup {Expired})
      /\ \A p \in DOMAIN connections' :
           p \in DOMAIN connections /\ connections'[p] = connections[p]
  BY <1>1, <1>3, PurgeTable, PurgeKeeps
<1>9. FaultTypeOK'
  BY <1>1, <1>3, <1>5, <1>8 DEF FaultInv, FaultTypeOK, RamTypeOK
<1>10. MessagesNumbered'
  BY <1>1, <1>5, <1>6 DEF MessagesNumbered
<1>11. MembersHaveRooms' /\ DeliveriesStayInRoom' /\ OneEntryPerRoom'
  BY <1>3, <1>5, <1>7, <1>8, FewerMembersKeepRooms
<1>12. BufferedUntilAcked'
  <2>1. ASSUME NEW n \in DOMAIN db.messages \ DOMAIN db'.messages,
               NEW p \in DOMAIN db'.members,
               db.members[p].room_id = db.messages[n].room_id
        PROVE  ~ (n > db.members[p].last_acked_msg_seq)
    <3>1. /\ n \in doomed
          /\ p \in DOMAIN rest.members /\ rest.members[p] = db.members[p]
      BY <1>5, <1>6, <1>7
    <3>2. CASE FindMembersByRoom(rest, c.roomId) = {}
      BY <1>2, <2>1, <3>1, <3>2 DEF MessagesOfRoom, FindMembersByRoom
    <3>3. CASE FindMembersByRoom(rest, c.roomId) # {}
      BY <1>2, <2>1, <3>1, <3>3, CleanableIsAcked
    <3>4. QED
      BY <3>2, <3>3
  <2>2. QED
    BY <1>3, <1>6, <1>7, <2>1, BufferedAsBefore DEF FaultInv
<1>13. QED
  BY <1>9, <1>10, <1>11, <1>12 DEF FaultInv

-----------------------------------------------------------------------------
(***************************************************************************)
(* Nothing is stored and nobody online at first.                           *)
(***************************************************************************)
LEMMA InitFaultInv == FaultInit => FaultInv
<1> SUFFICES ASSUME FaultInit PROVE FaultInv
  OBVIOUS
<1>1. FaultTypeOK
  BY InitTypeOK DEF FaultInit, Init, FaultTypeOK, TypeOK
<1>2. QED
  BY <1>1, EmptyTableIsTable
  DEF FaultInit, Init, EmptyDb, FaultInv, MessagesNumbered, MembersHaveRooms,
      DeliveriesStayInRoom, OneEntryPerRoom, BufferedUntilAcked

(***************************************************************************)
(* Each step keeps the invariant, whichever fault it is.                   *)
(***************************************************************************)
LEMMA NextFaultInv == FaultInv /\ [FaultNext]_faultVars => FaultInv'
<1> SUFFICES ASSUME FaultInv, [FaultNext]_faultVars PROVE FaultInv'
  OBVIOUS
<1>1. /\ faults \in Nat
      /\ session \in [Sessions -> {"absent", "open", "closing", "closed"}]
      /\ IsTable(connections, PeerIds, Sessions \cup {Expired})
      /\ AckSeqs \subseteq Int
  BY FaultsAssumption DEF FaultInv, FaultTypeOK, RamTypeOK
<1>2. CASE Restart /\ Fault("restart")
  BY <1>1, <1>2, RestartKeepsFaultInv DEF Fault
<1>3. ASSUME NEW s \in Sessions, Served(s), UNCHANGED faults
      PROVE  FaultInv'
  <2>1. CASE Accept(s)
    BY <1>1, <1>3, <2>1, PresenceKeepsFaultInv DEF Accept
  <2>2. CASE Joins(s) /\ UNCHANGED session
    BY <1>1, <1>3, <2>2, JoinsKeepFaultInv
  <2>3. ASSUME NEW c \in ClientsOf(s), Requests(c, AckSeqs), UNCHANGED session
        PROVE  FaultInv'
    <3>1. c \in clients
      BY DEF ClientsOf
    <3>2. ASSUME NEW p \in PeerIds, Route(c, p)
          PROVE  FaultInv'
      <4>1. IsTable(connections', PeerIds, Sessions \cup {Expired})
        BY <3>2, PurgeTable DEF Route, FaultInv, FaultTypeOK
      <4>2. QED
        BY <1>1, <1>3, <2>3, <3>2, <4>1, PurgeKeeps, PresenceKeepsFaultInv
        DEF Route
    <3>3. CASE Broadcast(c)
      BY <1>1, <1>3, <2>3, <3>1, <3>3, BroadcastKeepsFaultInv
    <3>4. ASSUME NEW n \in AckSeqs, Acknowledge(c, n)
          PROVE  FaultInv'
      BY <1>1, <1>3, <2>3, <3>1, <3>4, AcknowledgeKeepsFaultInv
    <3>5. CASE Leave(c)
      BY <1>1, <1>3, <2>3, <3>1, <3>5, LeaveKeepsFaultInv
    <3>6. QED
      BY <2>3, <3>2, <3>3, <3>4, <3>5 DEF Requests
  <2>4. CASE Close(s)
    BY <1>1, <1>3, <2>4, DisconnectKeepsFaultInv DEF Close
  <2>5. CASE LateRead(s)
    BY <1>1, <1>3, <2>5, JoinsKeepFaultInv DEF LateRead
  <2>6. CASE Free(s)
    BY <1>1, <1>3, <2>6, FreeKeepsFaultInv
  <2>7. QED
    BY <1>3, <2>1, <2>2, <2>3, <2>4, <2>5, <2>6 DEF Served
<1>4. ASSUME NEW s \in Sessions, StoreFailure(s), Fault("store")
      PROVE  FaultInv'
  <2>1. faults' \in Nat
    BY <1>1, <1>4 DEF Fault
  <2>2. ASSUME NEW r \in RoomIds, NEW u \in Usernames, NEW t \in RequestedTypes,
               JoinFails(s, r, u, t), UNCHANGED session
        PROVE  FaultInv'
    BY <2>1, <2>2, JoinFailsKeepsFaultInv
  <2>3. ASSUME NEW c \in ClientsOf(s), UNCHANGED session,
               \/ BroadcastFails(c)
               \/ \E n \in AckSeqs : AcknowledgeFails(c, n)
               \/ LeaveFails(c)
        PROVE  FaultInv'
    <3>1. c \in clients
      BY DEF ClientsOf
    <3>2. QED
      BY <1>1, <2>1, <2>3, <3>1, BroadcastKeepsFaultInv, AcknowledgeKeepsFaultInv,
         LeaveFailsKeepsFaultInv
  <2>4. CASE CloseFails(s)
    BY <2>1, <2>4, CloseFailsKeepsFaultInv
  <2>5. QED
    BY <1>4, <2>2, <2>3, <2>4 DEF StoreFailure
<1>5. ASSUME NEW s \in Sessions, CloseEarly(s), Fault("late")
      PROVE  FaultInv'
  BY <1>1, <1>5, DisconnectKeepsFaultInv DEF CloseEarly, Fault
<1>6. CASE UNCHANGED faultVars
  BY <1>1, <1>6, PresenceKeepsFaultInv DEF faultVars, vars
<1>7. QED
  BY <1>2, <1>3, <1>4, <1>5, <1>6 DEF FaultNext

(***************************************************************************)
(* The invariant of the registry under faults: types, and what is stored     *)
(* under numbers already handed out.                                       *)
(***************************************************************************)
THEOREM FaultsKeepInv == FaultSpec => []FaultInv
<1>1. QED
  BY InitFaultInv, NextFaultInv, PTL DEF FaultSpec

\* No stored message has a number yet to be handed out, restarts included: the
\* store never overwrites one.
THEOREM NumbersNeverReusedWhileStored == FaultSpec => []MessagesNumbered
<1>1. FaultInv => MessagesNumbered
  BY DEF FaultInv
<1>2. QED
  BY <1>1, FaultsKeepInv, PTL

\* A member's room is stored, wherever a store call fails or the process stops.
THEOREM MembersHaveRoomsDespiteFaults == FaultSpec => []MembersHaveRooms
<1>1. FaultInv => MembersHaveRooms
  BY DEF FaultInv
<1>2. QED
  BY <1>1, FaultsKeepInv, PTL

\* No message reaches a session that is not in its room as its recipient, even
\* through presence that is stale or a member's row that has changed hands.
THEOREM DeliveriesStayDespiteFaults == FaultSpec => []DeliveriesStayInRoom
<1>1. FaultInv => DeliveriesStayInRoom
  BY DEF FaultInv
<1>2. QED
  BY <1>1, FaultsKeepInv, PTL

\* A session has at most one entry for a room, also one that took over another's
\* address and entries.
THEOREM OneEntryDespiteFaults == FaultSpec => []OneEntryPerRoom
<1>1. FaultInv => OneEntryPerRoom
  BY DEF FaultInv
<1>2. QED
  BY <1>1, FaultsKeepInv, PTL

\* A message owed to a member stays buffered for it through restarts, failing
\* calls, late reads and acknowledgements of any number.
THEOREM BufferedDespiteFaults == FaultSpec => []BufferedUntilAcked
<1>1. FaultInv => BufferedUntilAcked
  BY DEF FaultInv
<1>2. QED
  BY <1>1, FaultsKeepInv, PTL
=============================================================================

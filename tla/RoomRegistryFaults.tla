-------------------------- MODULE RoomRegistryFaults --------------------------
(***************************************************************************)
(* RoomRegistry under what the signaling server does not prevent:           *)
(*   - the process stops and starts again on the same database file;        *)
(*   - a store call throws in the middle of a method: every store call      *)
(*     commits on its own, handleMessage answers "internal error" and goes  *)
(*     on (a crash there is the same, with a restart after it);             *)
(*   - onWrite fails and cleans the session up while a completed read waits  *)
(*     on the strand: onRead does not look at closed_, so one more request   *)
(*     is served after disconnect(), and nothing ever undoes it;             *)
(*   - a client acknowledges any number: upToSeq is taken as it comes.       *)
(***************************************************************************)
EXTENDS RoomRegistry

CONSTANTS
  FaultKinds,  \* which of "restart", "store" and "late" may happen
  MaxFaults,   \* bound: faults during a run
  AckSeqs      \* the numbers clients acknowledge

ASSUME FaultsAssumption ==
  /\ FaultKinds \subseteq {"restart", "store", "late"}
  /\ MaxFaults \in Nat
  /\ AckSeqs \subseteq Int

VARIABLE faults   \* history: faults so far

faultVars == <<vars, faults>>

-----------------------------------------------------------------------------
(* The process starts again: RAM is lost, the peer counter too.            *)

Restart ==
  /\ db' = Reopen(db)
  /\ clients' = {}
  /\ connections' = EmptyTable
  /\ nextPeerSeq' = 1
  /\ session' = [s \in Sessions |-> "absent"]
  /\ UNCHANGED owed

-----------------------------------------------------------------------------
(* A store call throws: what was written before it stays written.          *)

\* Mutant of JoinFails: join saves the member before its room.
JoinFailsMemberFirst(s, r, u, t) ==
  /\ MayAsk(s, r, t)
  /\ Namesakes(r, u) = {} /\ ~Full(r, t) /\ nextPeerSeq <= MaxPeerSeq
  /\ db' = SaveMember(db, nextPeerSeq,
              [username |-> u, room_id |-> r, last_acked_msg_seq |-> 0])
  /\ nextPeerSeq' = nextPeerSeq + 1
  /\ UNCHANGED <<clients, connections, owed>>

\* After saveRoom; or at saveMember, when stale peers are purged already and
\* a new member's peer id is spent.
JoinFails(s, r, u, t) ==
  /\ MayAsk(s, r, t)
  /\ db' = WithRoom(r, t)
  /\ \/ UNCHANGED <<connections, nextPeerSeq>>
     \/ \E p \in Namesakes(r, u) :
          /\ ~Online(p)
          /\ connections' = Purge(FindMembersByRoom(db, r) \ {p})
          /\ UNCHANGED nextPeerSeq
     \/ /\ Namesakes(r, u) = {} /\ ~Full(r, t) /\ nextPeerSeq <= MaxPeerSeq
        /\ connections' = Purge(FindMembersByRoom(db, r))
        /\ nextPeerSeq' = nextPeerSeq + 1
  /\ UNCHANGED <<clients, owed>>

\* The number is spent and no message stored; or the message is stored and
\* its recipients are not found, so that it is sent to nobody.
BroadcastFails(c) ==
  /\ c.roomType = "group"
  /\ db.nextSeq < MaxMsgSeq
  /\ \/ /\ db' = [db EXCEPT !.nextSeq = @ + 1]
        /\ UNCHANGED owed
     \/ /\ db' = SaveGroupMessage(db, c.roomId, c.peerId)
        /\ Owe(c.roomId, db.nextSeq + 1)
  /\ UNCHANGED <<clients, connections, nextPeerSeq>>

\* The cursor is stored, and cleanupMessages deletes only some rows.
AcknowledgeFails(c, upToSeq) ==
  LET acked == UpdateLastAckedSeq(db, c.peerId, upToSeq)
  IN  /\ \E gone \in SUBSET Cleanable(acked, c.roomId) :
           db' = [acked EXCEPT !.messages = Remove(@, gone)]
      /\ owed' = [owed EXCEPT ![c.peerId] = {n \in @ : n > upToSeq}]
      /\ UNCHANGED <<clients, connections, nextPeerSeq>>

\* The member is removed, then only some of the messages and not the room;
\* in RAM the session is still in the room.
LeaveFails(c) ==
  LET rest   == RemoveMember(db, c.peerId)
      doomed == IF FindMembersByRoom(rest, c.roomId) = {}
                THEN MessagesOfRoom(rest, c.roomId)
                ELSE Cleanable(rest, c.roomId)
  IN  /\ \E gone \in SUBSET doomed :
           db' = [rest EXCEPT !.messages = Remove(@, gone)]
      /\ connections' = Purge(FindMembersByRoom(db, c.roomId) \ {c.peerId})
      /\ UNCHANGED <<clients, nextPeerSeq, owed>>

\* disconnect() throws at one of the session's rooms: the rooms before it are
\* offline, and clients_ keeps all entries for an object that is going.
CloseFails(s) ==
  /\ session[s] = "open"
  /\ session' = [session EXCEPT ![s] = "closed"]
  /\ \E done \in SUBSET ClientsOf(s) :
       /\ done # ClientsOf(s)
       /\ connections' =
            Remove(Purge(UNION {FindMembersByRoom(db, c.roomId) : c \in done}),
                   {c.peerId : c \in done})
  /\ UNCHANGED <<db, clients, nextPeerSeq, owed>>

-----------------------------------------------------------------------------
(* A session that is cleaned up while one read handler is still to run.     *)

CloseEarly(s) ==
  /\ session[s] = "open"
  /\ session' = [session EXCEPT ![s] = "closing"]
  /\ Disconnect(s)

\* The late request. Only a join finds anything to do: the session has no
\* entry in clients_ any more.
LateRead(s) ==
  /\ session[s] = "closing"
  /\ session' = [session EXCEPT ![s] = "closed"]
  /\ Joins(s)

\* The object is destroyed: its weak pointers expire, its address is free.
\* clients_ may still hold entries under that address.
Free(s) ==
  /\ session[s] \in {"closing", "closed"}
  /\ session' = [session EXCEPT ![s] = "absent"]
  /\ connections' = [p \in DOMAIN connections |->
                       IF connections[p] = s THEN Expired ELSE connections[p]]
  /\ UNCHANGED <<db, clients, nextPeerSeq, owed>>

-----------------------------------------------------------------------------
Fault(kind) ==
  /\ kind \in FaultKinds
  /\ faults < MaxFaults
  /\ faults' = faults + 1

StoreFailure(s) ==
  \/ /\ session[s] = "open"
     /\ \/ \E r \in RoomIds, u \in Usernames, t \in RequestedTypes :
             JoinFails(s, r, u, t)
        \/ \E c \in ClientsOf(s) :
             \/ BroadcastFails(c)
             \/ \E n \in AckSeqs : AcknowledgeFails(c, n)
             \/ LeaveFails(c)
     /\ UNCHANGED session
  \/ CloseFails(s)

Served(s) ==
  \/ Accept(s)
  \/ session[s] = "open" /\ Joins(s) /\ UNCHANGED session
  \/ /\ session[s] = "open"
     /\ \E c \in ClientsOf(s) : Requests(c, AckSeqs)
     /\ UNCHANGED session
  \/ Close(s)
  \/ LateRead(s)
  \/ Free(s)

FaultInit == Init /\ faults = 0

FaultNext ==
  \/ Restart /\ Fault("restart")
  \/ \E s \in Sessions :
       \/ Served(s) /\ UNCHANGED faults
       \/ StoreFailure(s) /\ Fault("store")
       \/ CloseEarly(s) /\ Fault("late")

FaultSpec == FaultInit /\ [][FaultNext]_faultVars

-----------------------------------------------------------------------------
(* Properties that survive the faults.                                     *)

\* No session is in one room twice: findClient is never ambiguous, also when a
\* new session inherits the entries of the one that had its address.
OneEntryPerRoom ==
  \A c, d \in clients : c.session = d.session /\ c.roomId = d.roomId => c = d

\* A number the counter has yet to hand out is no stored message's: replace()
\* would overwrite one that a member may still owe.  A restart may hand out
\* again the numbers of deleted messages, and of no others.
MessagesNumbered == \A n \in DOMAIN db.messages : n <= db.nextSeq

\* The counter of messages never goes back: a sequence number means one
\* message.  This one does not survive a restart, for which Reopen counts the
\* messages that are left; README 6.
SeqNeverGoesBack == [][db'.nextSeq >= db.nextSeq]_faultVars
=============================================================================

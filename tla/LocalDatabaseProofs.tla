-------------------------- MODULE LocalDatabaseProofs --------------------------
(***************************************************************************)
(* Proofs about LocalDatabase: for any number of programs, migrations and   *)
(* faults, a recorded version is earned and a database that is ready has    *)
(* its tables.  Nothing is ever dropped, so what a program has reached      *)
(* stays true whatever the others do; that is the whole argument.           *)
(***************************************************************************)
EXTENDS LocalDatabase, TLAPS

(***************************************************************************)
(* Tables and indexes are created and never dropped.                       *)
(***************************************************************************)
LEMMA NothingDropped ==
  ASSUME [Next]_vars
  PROVE  tables \subseteq tables' /\ indexes \subseteq indexes'
<1>1. CASE UNCHANGED vars
  BY <1>1 DEF vars, disk
<1>2. ASSUME NEW p \in Programs, Step(p)
      PROVE  tables \subseteq tables' /\ indexes \subseteq indexes'
  BY <1>2 DEF Step, Start, Count, Insert, ReadVersion, CreateTable,
     CreateIndexes, SetVersion, SetLastVersion, disk
<1>3. ASSUME NEW p \in Programs, Crash(p) \/ Refused(p)
      PROVE  tables \subseteq tables' /\ indexes \subseteq indexes'
  BY <1>3 DEF Crash, Refused, disk
<1>4. QED
  BY <1>1, <1>2, <1>3 DEF Next

(***************************************************************************)
(* What another program has reached it keeps, where it does not move.      *)
(***************************************************************************)
LEMMA ReachedKept ==
  ASSUME NEW q \in Programs, Reached(q),
         tables \subseteq tables', indexes \subseteq indexes',
         pc'[q] = pc[q], next'[q] = next[q]
  PROVE  Reached(q)'
  BY DEF Reached, Applied

(***************************************************************************)
(* A program that moves to a place of init moves alone.                    *)
(***************************************************************************)
LEMMA GoMoves ==
  ASSUME OpeningInv, NEW p \in Programs, NEW place \in Places, Go(p, place)
  PROVE  /\ pc' \in [Programs -> Places]
         /\ pc'[p] = place
         /\ \A q \in Programs \ {p} : pc'[q] = pc[q]
  BY DEF OpeningInv, Go

(***************************************************************************)
(* A migration is started where those up to the version have been applied. *)
(***************************************************************************)
LEMMA MigrateReaches ==
  ASSUME OpeningInv, NEW p \in Programs, NEW version \in Nat,
         Applied(version)', MigrateFrom(p, version)
  PROVE  /\ Reached(p)'
         /\ pc' \in [Programs -> Places]
         /\ next' \in [Programs -> Nat]
         /\ \A q \in Programs \ {p} : pc'[q] = pc[q] /\ next'[q] = next[q]
<1>0. Tables \in Nat
  BY DatabaseBounds
<1> DEFINE place == IF version + 1 > Tables THEN "last" ELSE "table"
<1>1. place \in Places /\ Go(p, place)
  BY DEF MigrateFrom, Places
<1>2. /\ pc' \in [Programs -> Places]
      /\ pc'[p] = place
      /\ \A q \in Programs \ {p} : pc'[q] = pc[q]
  <2> HIDE DEF place
  <2> QED
    BY <1>1, GoMoves
<1>3. next' = [next EXCEPT ![p] = version + 1] /\ next \in [Programs -> Nat]
  BY DEF MigrateFrom, OpeningInv
<1>4. /\ next' \in [Programs -> Nat]
      /\ next'[p] = version + 1
      /\ \A q \in Programs \ {p} : next'[q] = next[q]
  BY <1>3
<1>5. CASE version + 1 > Tables
  <2>1. Applied(Tables)'
    BY <1>0, <1>5 DEF Applied
  <2>2. pc'[p] = "last"
    BY <1>2, <1>5
  <2>3. QED
    BY <1>2, <1>4, <2>1, <2>2 DEF Reached
<1>6. CASE ~(version + 1 > Tables)
  <2>1. pc'[p] = "table"
    BY <1>2, <1>6
  <2>2. \A k \in 1..Tables : k < next'[p] => k \in tables' /\ k \in indexes'
    BY <1>0, <1>4 DEF Applied
  <2>3. QED
    BY <1>2, <1>4, <2>1, <2>2 DEF Reached
<1>7. QED
  BY <1>2, <1>4, <1>5, <1>6

(***************************************************************************)
(* Before anything happens there is nothing to earn.                       *)
(***************************************************************************)
LEMMA OpeningInit == Init => OpeningInv
  BY DEF Init, OpeningInv, VersionEarned, Reached, Places

(***************************************************************************)
(* The versions recorded after an update are the old ones or the new one.  *)
(***************************************************************************)
LEMMA VersionsEarned ==
  ASSUME OpeningInv, NEW version \in Nat, Applied(version),
         tables \subseteq tables', indexes \subseteq indexes',
         versions' \subseteq versions \cup {version}
  PROVE  versions' \subseteq Nat /\ VersionEarned'
  BY DEF OpeningInv, VersionEarned, Applied

(***************************************************************************)
(* A step that keeps the versions and moves one program alone to a place   *)
(* it has reached keeps the invariant.                                     *)
(***************************************************************************)
LEMMA MoveKeeps ==
  ASSUME OpeningInv, NEW p \in Programs,
         tables \subseteq tables', indexes \subseteq indexes',
         versions' \subseteq Nat, VersionEarned',
         pc' \in [Programs -> Places], next' \in [Programs -> Nat],
         \A q \in Programs \ {p} : pc'[q] = pc[q] /\ next'[q] = next[q],
         Reached(p)'
  PROVE  OpeningInv'
<1>1. ASSUME NEW q \in Programs \ {p}
      PROVE  Reached(q)'
  BY <1>1, ReachedKept DEF OpeningInv
<1>2. QED
  BY <1>1 DEF OpeningInv

(***************************************************************************)
(* Every step of a program keeps the invariant.                            *)
(***************************************************************************)
LEMMA StepKeeps ==
  ASSUME OpeningInv, NEW p \in Programs, Step(p) \/ Crash(p) \/ Refused(p)
  PROVE  OpeningInv'
<1>0. /\ tables \subseteq tables' /\ indexes \subseteq indexes'
      /\ Reached(p) /\ next \in [Programs -> Nat] /\ Tables \in Nat
  BY NothingDropped, DatabaseBounds DEF OpeningInv, Next
<1>1. versions' = versions => versions' \subseteq Nat /\ VersionEarned'
  BY <1>0 DEF OpeningInv, VersionEarned, Applied
<1>2. ASSUME NEW place \in {"off", "count", "insert", "version", "failed"},
             Go(p, place), UNCHANGED <<versions, next>>
      PROVE  OpeningInv'
  <2>1. place \in Places
    BY DEF Places
  <2>2. Reached(p)'
    BY <1>2, <2>1, GoMoves DEF Reached
  <2>3. QED
    BY <1>0, <1>1, <1>2, <2>1, <2>2, GoMoves, MoveKeeps
<1>3. ASSUME NEW version \in Nat, Applied(version)', MigrateFrom(p, version),
             versions' \subseteq Nat, VersionEarned'
      PROVE  OpeningInv'
  BY <1>0, <1>3, MigrateReaches, MoveKeeps
<1>4. ASSUME Go(p, "ready"), UNCHANGED next, Applied(Tables)',
             versions' \subseteq Nat, VersionEarned'
      PROVE  OpeningInv'
  <2>1. "ready" \in Places
    BY DEF Places
  <2>2. Reached(p)'
    BY <1>4, <2>1, GoMoves DEF Reached
  <2>3. QED
    BY <1>0, <1>4, <2>1, <2>2, GoMoves, MoveKeeps
<1>5. CASE Start(p) \/ Count(p)
  BY <1>2, <1>5 DEF Start, Count, disk
<1>6. CASE Insert(p)
  <2>1. Applied(0)
    BY DEF Applied
  <2>2. versions' \subseteq Nat /\ VersionEarned'
    BY <1>0, <1>6, <2>1, VersionsEarned DEF Insert
  <2> DEFINE place == IF 0 \in versions THEN "failed" ELSE "version"
  <2>3. place \in Places /\ Go(p, place) /\ UNCHANGED next
    BY <1>6 DEF Insert, Places
  <2>4. place \notin {"table", "indexes", "set version", "last", "ready"}
    OBVIOUS
  <2> HIDE DEF place
  <2>5. Reached(p)'
    BY <2>3, <2>4, GoMoves DEF Reached
  <2>6. QED
    BY <1>0, <2>2, <2>3, <2>5, GoMoves, MoveKeeps
<1>7. CASE ReadVersion(p)
  <2>1. PICK version \in SchemaVersions :
          IF version >= TargetVersion
          THEN Go(p, "ready") /\ UNCHANGED next
          ELSE MigrateFrom(p, version)
    BY <1>7 DEF ReadVersion
  <2>2. UNCHANGED disk
    BY <1>7 DEF ReadVersion
  <2>3. version \in Nat /\ Applied(version)
    BY DEF OpeningInv, SchemaVersions, VersionEarned, Applied
  <2>4. versions' \subseteq Nat /\ VersionEarned' /\ Applied(version)'
    BY <1>1, <2>2, <2>3 DEF disk, Applied
  <2>5. CASE version >= TargetVersion
    <3>1. Applied(Tables)'
      BY <1>0, <2>3, <2>4, <2>5 DEF Applied, TargetVersion
    <3>2. QED
      BY <1>4, <2>1, <2>4, <2>5, <3>1
  <2>6. CASE ~(version >= TargetVersion)
    BY <1>3, <2>1, <2>3, <2>4, <2>6
  <2>7. QED
    BY <2>5, <2>6
<1>8. CASE CreateTable(p)
  <2>1. "indexes" \in Places
    BY DEF Places
  <2>2. Reached(p)'
    BY <1>0, <1>8, <2>1, GoMoves DEF CreateTable, Reached
  <2>3. QED
    BY <1>0, <1>1, <1>8, <2>1, <2>2, GoMoves, MoveKeeps DEF CreateTable
<1>9. CASE CreateIndexes(p)
  <2>1. "set version" \in Places
    BY DEF Places
  <2>2. Applied(next[p])'
    <3>1. /\ \A k \in 1..Tables : k < next[p] => k \in tables /\ k \in indexes
          /\ next[p] \in tables /\ next[p] \in Nat
      BY <1>0, <1>9 DEF CreateIndexes, Reached
    <3>2. next' = next /\ tables' = tables /\ indexes' = indexes \cup {next[p]}
      BY <1>9 DEF CreateIndexes
    <3>3. ASSUME NEW k \in 1..Tables, k <= next[p]
          PROVE  k \in tables' /\ k \in indexes'
      <4>1. k < next[p] \/ k = next[p]
        BY <1>0, <3>1, <3>3
      <4>2. QED
        BY <3>1, <3>2, <3>3, <4>1
    <3>4. QED
      BY <3>2, <3>3 DEF Applied
  <2>3. Reached(p)'
    BY <1>9, <2>1, <2>2, GoMoves DEF CreateIndexes, Reached
  <2>4. QED
    BY <1>0, <1>1, <1>9, <2>1, <2>3, GoMoves, MoveKeeps DEF CreateIndexes
<1>10. CASE SetVersion(p)
  <2>1. PICK version \in Nat : version = next[p] /\ Applied(version)
    BY <1>0, <1>10 DEF SetVersion, Reached
  <2>2. versions' \subseteq versions \cup {version}
    BY <1>10, <2>1 DEF SetVersion, Updated
  <2>3. versions' \subseteq Nat /\ VersionEarned'
    BY <1>0, <2>1, <2>2, VersionsEarned
  <2>4. Applied(version)' /\ MigrateFrom(p, version)
    BY <1>0, <1>10, <2>1 DEF SetVersion, Applied
  <2>5. QED
    BY <1>3, <2>3, <2>4
<1>11. CASE SetLastVersion(p)
  <2>1. Applied(Tables)
    BY <1>0, <1>11 DEF SetLastVersion, Reached
  <2>2. TargetVersion \in Nat /\ Applied(TargetVersion)
    BY <1>0, <2>1 DEF TargetVersion, Applied
  <2>3. versions' \subseteq versions \cup {TargetVersion}
    BY <1>11 DEF SetLastVersion, Updated
  <2>4. versions' \subseteq Nat /\ VersionEarned'
    BY <1>0, <2>2, <2>3, VersionsEarned
  <2>5. Applied(Tables)'
    BY <1>0, <2>1 DEF Applied
  <2>6. QED
    BY <1>4, <1>11, <2>4, <2>5 DEF SetLastVersion
<1>12. CASE Crash(p)
  BY <1>2, <1>12 DEF Crash, disk
<1>13. CASE Refused(p)
  <2>1. versions' \subseteq Nat /\ VersionEarned' /\ UNCHANGED disk
    BY <1>1, <1>13 DEF Refused, disk
  <2>2. CASE Go(p, "failed") /\ UNCHANGED next
    BY <1>2, <2>1, <2>2 DEF disk
  <2>3. CASE Go(p, "version") /\ UNCHANGED next
    BY <1>2, <2>1, <2>3 DEF disk
  <2>4. CASE MigrateFrom(p, 0)
    <3>1. Applied(0)'
      BY DEF Applied
    <3>2. QED
      BY <1>3, <2>1, <2>4, <3>1
  <2>5. CASE pc[p] = "set version" /\ MigrateFrom(p, next[p])
    <3>1. PICK version \in Nat : version = next[p] /\ Applied(version)
      BY <1>0, <2>5 DEF Reached
    <3>2. Applied(version)' /\ MigrateFrom(p, version)
      BY <1>0, <2>5, <3>1 DEF Applied
    <3>3. QED
      BY <1>3, <2>1, <3>2
  <2>6. CASE pc[p] = "last" /\ Go(p, "ready") /\ UNCHANGED next
    <3>1. Applied(Tables)'
      BY <1>0, <2>1, <2>6 DEF Reached, Applied, disk
    <3>2. QED
      BY <1>4, <2>1, <2>6, <3>1
  <2>7. QED
    BY <1>13, <2>2, <2>3, <2>4, <2>5, <2>6 DEF Refused
<1>14. QED
  BY <1>5, <1>6, <1>7, <1>8, <1>9, <1>10, <1>11, <1>12, <1>13 DEF Step

(***************************************************************************)
(* OpeningInv is inductive.                                                *)
(***************************************************************************)
LEMMA OpeningNext == OpeningInv /\ [Next]_vars => OpeningInv'
<1> SUFFICES ASSUME OpeningInv, [Next]_vars
             PROVE  OpeningInv'
  OBVIOUS
<1>1. CASE Next
  BY <1>1, StepKeeps DEF Next
<1>2. CASE UNCHANGED vars
  BY <1>2 DEF vars, disk, OpeningInv, VersionEarned, Reached, Applied
<1>3. QED
  BY <1>1, <1>2

(***************************************************************************)
(* Every version in schema_version has its tables and indexes and those of *)
(* the versions before it.                                                 *)
(***************************************************************************)
THEOREM VersionEarnedAlways == Spec => []VersionEarned
<1>1. OpeningInv => VersionEarned
  BY DEF OpeningInv
<1>2. QED
  BY OpeningInit, OpeningNext, <1>1, PTL DEF Spec

(***************************************************************************)
(* A database that init reports ready has all its tables and indexes.      *)
(***************************************************************************)
THEOREM ReadyHasTablesAlways == Spec => []ReadyHasTables
<1>1. OpeningInv => ReadyHasTables
  BY DEF OpeningInv, Reached, ReadyHasTables
<1>2. QED
  BY OpeningInit, OpeningNext, <1>1, PTL DEF Spec
=============================================================================

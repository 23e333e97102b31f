----------------------------- MODULE LocalDatabase -----------------------------
(***************************************************************************)
(* Opening the client's database: Database::init and its migrations, by    *)
(* programs that may start at the same time on one file, crash between any  *)
(* two statements, and find a statement refused (the file is locked by      *)
(* another: no busy timeout is set).                                        *)
(*                                                                          *)
(* The transaction is begun, committed and rolled back on the connection of *)
(* storage_ while every statement goes to raw_db_: it holds nothing back,   *)
(* and each statement commits by itself.                                    *)
(***************************************************************************)
EXTENDS Naturals, FiniteSets

CONSTANTS
  Programs,
  Tables,       \* how many migrations create a table: 6 in the code
  MaxFaults     \* crashes and refused statements

ASSUME DatabaseBounds == Tables \in Nat \ {0} /\ MaxFaults \in Nat

VARIABLES
  tables,    \* the migrations whose table exists
  indexes,   \* the migrations whose indexes exist
  versions,  \* the rows of schema_version
  pc,        \* where each program is in init
  next,      \* the migration it is at, from currentVersion + 1 on
  faults

disk == <<tables, indexes, versions>>
vars == <<disk, pc, next, faults>>

TargetVersion == Tables + 1

\* querySingleInt of LIMIT 1 without an order: the version in some row.  It is
\* -1 in the code if there is none; 0 has the same effect.
SchemaVersions == IF versions = {} THEN {0} ELSE versions

Go(p, place) == pc' = [pc EXCEPT ![p] = place]

-----------------------------------------------------------------------------
(* init.                                                                    *)

Start(p) ==
  /\ pc[p] \in {"off", "failed"}
  /\ Go(p, "count")
  /\ UNCHANGED <<disk, next, faults>>

\* SELECT COUNT(*) and the INSERT are two statements.
Count(p) ==
  /\ pc[p] = "count"
  /\ Go(p, IF versions = {} THEN "insert" ELSE "version")
  /\ UNCHANGED <<disk, next, faults>>

\* The key 0 may be there by now, and then init fails.
Insert(p) ==
  /\ pc[p] = "insert"
  /\ versions' = versions \cup {0}
  /\ Go(p, IF 0 \in versions THEN "failed" ELSE "version")
  /\ UNCHANGED <<tables, indexes, next, faults>>

\* Mutant of MigrateFrom: a migration is taken for applied that is not.
MigrateFromNext(p, version) ==
  /\ next' = [next EXCEPT ![p] = version + 2]
  /\ Go(p, IF version + 2 > Tables THEN "last" ELSE "table")

\* Every migration above the version read at the start is applied.
MigrateFrom(p, version) ==
  /\ next' = [next EXCEPT ![p] = version + 1]
  /\ Go(p, IF version + 1 > Tables THEN "last" ELSE "table")

ReadVersion(p) ==
  /\ pc[p] = "version"
  /\ \E version \in SchemaVersions :
       IF version >= TargetVersion
       THEN Go(p, "ready") /\ UNCHANGED next
       ELSE MigrateFrom(p, version)
  /\ UNCHANGED <<disk, faults>>

-----------------------------------------------------------------------------
(* applyMigration.                                                          *)

\* Mutant of CreateTable: without IF NOT EXISTS.
CreateTableOnce(p) ==
  /\ pc[p] = "table"
  /\ tables' = tables \cup {next[p]}
  /\ Go(p, IF next[p] \in tables THEN "failed" ELSE "indexes")
  /\ UNCHANGED <<indexes, versions, next, faults>>

CreateTable(p) ==
  /\ pc[p] = "table"
  /\ tables' = tables \cup {next[p]}
  /\ Go(p, "indexes")
  /\ UNCHANGED <<indexes, versions, next, faults>>

CreateIndexes(p) ==
  /\ pc[p] = "indexes"
  /\ indexes' = indexes \cup {next[p]}
  /\ Go(p, "set version")
  /\ UNCHANGED <<tables, versions, next, faults>>

\* UPDATE sets all rows: with more than one the key would not be unique, and
\* none is changed.  Nobody looks whether it worked.
Updated(version) ==
  IF Cardinality(versions) = 1 THEN {version} ELSE versions

\* Mutant of SetVersion: the target is recorded at once.
SetVersionToTarget(p) ==
  /\ pc[p] = "set version"
  /\ versions' = Updated(TargetVersion)
  /\ MigrateFrom(p, next[p])
  /\ UNCHANGED <<tables, indexes, faults>>

SetVersion(p) ==
  /\ pc[p] = "set version"
  /\ versions' = Updated(next[p])
  /\ MigrateFrom(p, next[p])
  /\ UNCHANGED <<tables, indexes, faults>>

SetLastVersion(p) ==
  /\ pc[p] = "last"
  /\ versions' = Updated(TargetVersion)
  /\ Go(p, "ready")
  /\ UNCHANGED <<tables, indexes, next, faults>>

-----------------------------------------------------------------------------
(* Faults.                                                                  *)

Fault == faults < MaxFaults /\ faults' = faults + 1

Crash(p) ==
  /\ Fault
  /\ pc[p] # "off"
  /\ Go(p, "off")
  /\ UNCHANGED <<disk, next>>

\* A statement that is refused: init fails, but a query that fails is taken
\* for one without a row, and a version that is not set for one that is.
Refused(p) ==
  /\ Fault
  /\ \/ pc[p] \in {"insert", "table", "indexes"}
        /\ Go(p, "failed") /\ UNCHANGED next
     \/ pc[p] = "count" /\ Go(p, "version") /\ UNCHANGED next
     \/ pc[p] = "version" /\ MigrateFrom(p, 0)
     \/ pc[p] = "set version" /\ MigrateFrom(p, next[p])
     \/ pc[p] = "last" /\ Go(p, "ready") /\ UNCHANGED next
  /\ UNCHANGED disk

-----------------------------------------------------------------------------
(* Specification                                                            *)

Init ==
  /\ tables = {} /\ indexes = {} /\ versions = {}
  /\ pc = [p \in Programs |-> "off"]
  /\ next = [p \in Programs |-> 1]
  /\ faults = 0

Step(p) ==
  \/ Start(p) \/ Count(p) \/ Insert(p) \/ ReadVersion(p)
  \/ CreateTable(p) \/ CreateIndexes(p) \/ SetVersion(p) \/ SetLastVersion(p)

Next == \E p \in Programs : Step(p) \/ Crash(p) \/ Refused(p)

Spec == Init /\ [][Next]_vars

\* init runs to its end, and a start that fails is tried again.
FairSpec == Spec /\ \A p \in Programs : WF_vars(Step(p))

-----------------------------------------------------------------------------
(* Properties                                                               *)

Applied(version) ==
  \A k \in 1..Tables : k <= version => k \in tables /\ k \in indexes

\* What p may rely on where it is.
Reached(p) ==
  /\ pc[p] \in {"table", "indexes"} =>
       \A k \in 1..Tables : k < next[p] => k \in tables /\ k \in indexes
  /\ pc[p] = "indexes" => next[p] \in tables
  /\ pc[p] = "set version" => Applied(next[p])
  /\ pc[p] \in {"last", "ready"} => Applied(Tables)

\* A version that is recorded has been earned: its table and indexes exist,
\* and all before it; though no transaction binds them together, programs set
\* each other's versions back, and queries that fail look like version -1.
VersionEarned == \A version \in versions : Applied(version)

\* Once init has returned true every table is there for the repositories.
ReadyHasTables == \A p \in Programs : pc[p] = "ready" => Applied(Tables)

Places == {"off", "count", "insert", "version", "table", "indexes",
           "set version", "last", "ready", "failed"}

\* The inductive invariant of both.
OpeningInv ==
  /\ versions \subseteq Nat
  /\ pc \in [Programs -> Places]
  /\ next \in [Programs -> Nat]
  /\ VersionEarned
  /\ \A p \in Programs : Reached(p)

\* Whatever a crash, a refused statement or another program leaves behind, a
\* start that is tried again succeeds: each migration bears being run twice,
\* and two rows in schema_version only make each start run them all.
OpensAtLast == \A p \in Programs : <>(pc[p] = "ready")
=============================================================================

---------------------------- MODULE StoreOpening ----------------------------
(***************************************************************************)
(* state.Open and Store.Migrate (internal/state/store.go) by processes     *)
(* that start at once, some of them of an older release of the program,    *)
(* and may end at any statement.  A migration is looked up in a read of    *)
(* its own and applied in an immediate transaction, so what was looked up  *)
(* may be past when the transaction starts.                                *)
(***************************************************************************)
EXTENDS Naturals, FiniteSets

CONSTANTS
  Processes,
  Known,      \* how many of the migrations the binary of each process embeds
  Migrations, \* their number, in the order of their names
  Plain,      \* those whose statements fail where their tables exist
  MaxFaults,  \* bound on failures that are not the doing of these processes
  NoProcess

ASSUME OpeningAssumption ==
  /\ Migrations \in Nat
  /\ Known \in [Processes -> 0..Migrations]
  /\ Plain \subseteq 1..Migrations
  /\ MaxFaults \in Nat
  /\ NoProcess \notin Processes

VARIABLES
  table,     \* whether schema_migrations exists
  recorded,  \* the migrations it names
  schema,    \* how often the statements of each migration have taken effect
  writer,    \* the process in an immediate transaction
  opener,    \* where each process is: its next statement, and for which migration
  faults

openingVars == <<table, recorded, schema, writer, opener, faults>>
-----------------------------------------------------------------------------
Steps == {"closed", "create", "check", "begin", "apply", "record", "commit", "open"}

Closed == [pc |-> "closed", at |-> 1]

\* A database that is new, or was left by some release of the program.
OpeningInit ==
  \E k \in 0..Migrations :
    /\ table    \in BOOLEAN
    /\ k > 0 => table
    /\ recorded = 1..k
    /\ schema   = [i \in 1..Migrations |-> IF i <= k THEN 1 ELSE 0]
    /\ writer   = NoProcess
    /\ opener   = [p \in Processes |-> Closed]
    /\ faults   = 0
-----------------------------------------------------------------------------
At(p, step)   == opener[p].pc = step
Goto(p, step) == opener' = [opener EXCEPT ![p].pc = step]

\* tx.Rollback or the end of the process: what was not committed is gone.
Leave(p) ==
  /\ opener' = [opener EXCEPT ![p] = Closed]
  /\ writer' = IF writer = p THEN NoProcess ELSE writer

Open(p) ==
  /\ At(p, "closed")
  /\ Goto(p, "create")
  /\ UNCHANGED <<table, recorded, schema, writer, faults>>

\* CREATE TABLE IF NOT EXISTS schema_migrations writes only where it does not.
CreateTable(p) ==
  /\ At(p, "create")
  /\ table \/ writer = NoProcess
  /\ table' = TRUE
  /\ Goto(p, "check")
  /\ UNCHANGED <<recorded, schema, writer, faults>>

\* Faulty: stops at the first migration that is there.
CheckFirst(p) ==
  /\ At(p, "check")
  /\ IF opener[p].at > Known[p] \/ opener[p].at \in recorded
     THEN Goto(p, "open") ELSE Goto(p, "begin")
  /\ UNCHANGED <<table, recorded, schema, writer, faults>>

\* The loop over the embedded names, and the count that is read for each.
Check(p) ==
  LET i == opener[p].at IN
  /\ At(p, "check")
  /\ IF i > Known[p] THEN Goto(p, "open")
     ELSE IF i \in recorded THEN opener' = [opener EXCEPT ![p].at = i + 1]
     ELSE Goto(p, "begin")
  /\ UNCHANGED <<table, recorded, schema, writer, faults>>

\* BEGIN IMMEDIATE waits for another writer, up to the busy timeout.
BeginTx(p) ==
  /\ At(p, "begin")
  /\ writer = NoProcess
  /\ writer' = p
  /\ Goto(p, "apply")
  /\ UNCHANGED <<table, recorded, schema, faults>>

CanApply(p) == opener[p].at \in Plain => schema[opener[p].at] = 0

\* Faulty: the statements run outside of the transaction.
ApplyAtOnce(p) ==
  /\ At(p, "apply")
  /\ IF CanApply(p)
     THEN /\ Goto(p, "record") /\ UNCHANGED writer
          /\ schema' = [schema EXCEPT ![opener[p].at] = @ + 1]
     ELSE Leave(p) /\ UNCHANGED schema
  /\ UNCHANGED <<table, recorded, faults>>

\* The statements of the migration, seen by nobody else before the commit.
Apply(p) ==
  /\ At(p, "apply")
  /\ IF CanApply(p) THEN Goto(p, "record") /\ UNCHANGED writer ELSE Leave(p)
  /\ UNCHANGED <<table, recorded, schema, faults>>

\* Faulty: INSERT OR IGNORE.
RecordIgnoring(p) ==
  /\ At(p, "record")
  /\ Goto(p, "commit")
  /\ UNCHANGED <<table, recorded, schema, writer, faults>>

\* The name is the primary key of schema_migrations.
Record(p) ==
  /\ At(p, "record")
  /\ IF opener[p].at \notin recorded THEN Goto(p, "commit") /\ UNCHANGED writer ELSE Leave(p)
  /\ UNCHANGED <<table, recorded, schema, faults>>

Commit(p) ==
  LET i == opener[p].at IN
  /\ At(p, "commit")
  /\ recorded' = recorded \cup {i}
  /\ schema'   = [schema EXCEPT ![i] = @ + 1]
  /\ writer'   = NoProcess
  /\ opener'   = [opener EXCEPT ![p] = [pc |-> "check", at |-> i + 1]]
  /\ UNCHANGED <<table, faults>>

\* Another transaction outlasted the busy timeout of 5 s.
TimeOut(p) ==
  /\ At(p, "begin") \/ (At(p, "create") /\ ~table)
  /\ writer \notin {p, NoProcess}
  /\ Leave(p)
  /\ UNCHANGED <<table, recorded, schema, faults>>

\* The command is over.
Close(p) ==
  /\ At(p, "open")
  /\ Leave(p)
  /\ UNCHANGED <<table, recorded, schema, faults>>

\* A statement fails, the context ends, or the process does.
Fail(p) ==
  /\ ~At(p, "closed")
  /\ faults < MaxFaults
  /\ faults' = faults + 1
  /\ Leave(p)
  /\ UNCHANGED <<table, recorded, schema>>
-----------------------------------------------------------------------------
Step(p) ==
  \/ Open(p) \/ CreateTable(p) \/ Check(p) \/ BeginTx(p) \/ Apply(p) \/ Record(p) \/ Commit(p)

OpeningNext == \E p \in Processes : Step(p) \/ TimeOut(p) \/ Close(p) \/ Fail(p)

OpeningSpec == OpeningInit /\ [][OpeningNext]_openingVars

\* A process that can take a step takes one, and one that failed is started again.
FairOpeningSpec == OpeningSpec /\ \A p \in Processes : WF_openingVars(Step(p))
-----------------------------------------------------------------------------
OpeningTypeOK ==
  /\ table    \in BOOLEAN
  /\ recorded \subseteq 1..Migrations
  /\ schema   \in [1..Migrations -> Nat]
  /\ writer   \in Processes \cup {NoProcess}
  /\ opener   \in [Processes -> [pc : Steps, at : 1..Migrations + 1]]
  /\ faults   \in 0..MaxFaults

\* The database is always that of some release: the first migrations, each of them
\* applied once and recorded, and nothing of the others, whoever loses a race
\* or stops half way (docs/database.md 3, store_test.go 45).
SchemaIsRecorded ==
  /\ \A i \in recorded : \A j \in 1..i : j \in recorded
  /\ \A i \in 1..Migrations : schema[i] = IF i \in recorded THEN 1 ELSE 0

\* What Open hands out has every table that its program knows, and no transaction
\* is left behind by one that failed.
OpenedStoreIsComplete ==
  \A p \in Processes :
    /\ At(p, "open") => \A i \in 1..Known[p] : schema[i] = 1
    /\ writer = p <=> opener[p].pc \in {"apply", "record", "commit"}

\* Losing a race or dying with a migration half applied costs a process at most a
\* retry: one that is started again gets its store.
StoreOpens == \A p \in Processes : []<>At(p, "open")

\* What a process has found or done of the migrations before the one it is at.
MigrationsInOrder ==
  \A p \in Processes :
    /\ \A j \in 1..Migrations : j < opener[p].at => j \in recorded
    /\ opener[p].pc \in {"begin", "apply", "record", "commit"} => opener[p].at <= Known[p]
    /\ At(p, "commit") => opener[p].at \notin recorded
    /\ At(p, "open") => opener[p].at > Known[p]

\* The inductive invariant behind the theorems of StoreOpeningProofs.
OpeningInv ==
  OpeningTypeOK /\ SchemaIsRecorded /\ OpenedStoreIsComplete /\ MigrationsInOrder
=============================================================================

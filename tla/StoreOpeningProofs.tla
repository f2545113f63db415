------------------------- MODULE StoreOpeningProofs -------------------------
(***************************************************************************)
(* Theorems about StoreOpening, for any number of processes, releases and  *)
(* migrations.                                                             *)
(***************************************************************************)
EXTENDS StoreOpening, TLAPS

\* A step that changes one process and neither the tables nor the transaction keeps
\* the invariant when that process still satisfies its part of it.
LEMMA MovedProcess ==
  ASSUME OpeningInv, NEW p \in Processes,
         NEW pc \in Steps, NEW i \in 1..Migrations + 1,
         opener' = [opener EXCEPT ![p] = [pc |-> pc, at |-> i]],
         UNCHANGED <<recorded, schema>>,
         table' \in BOOLEAN, faults' \in 0..MaxFaults,
         writer' \in Processes \cup {NoProcess},
         writer' = p <=> pc \in {"apply", "record", "commit"},
         \A q \in Processes \ {p} : writer' = q <=> writer = q,
         \A j \in 1..Migrations : j < i => j \in recorded,
         pc \in {"begin", "apply", "record", "commit"} => i <= Known[p],
         pc = "commit" => i \notin recorded,
         pc = "open" => i > Known[p]
  PROVE  OpeningInv'
<1>0. /\ OpeningTypeOK
      /\ opener'[p] = [pc |-> pc, at |-> i]
      /\ \A q \in Processes : q # p => opener'[q] = opener[q]
  BY DEF OpeningInv, OpeningTypeOK
<1>1. OpeningTypeOK'
  BY <1>0 DEF OpeningTypeOK
<1>2. SchemaIsRecorded'
  BY DEF OpeningInv, SchemaIsRecorded
<1>3. MigrationsInOrder'
  <2> SUFFICES ASSUME NEW q \in Processes
               PROVE  /\ \A j \in 1..Migrations : j < opener'[q].at => j \in recorded'
                      /\ opener'[q].pc \in {"begin", "apply", "record", "commit"} => opener'[q].at <= Known[q]
                      /\ opener'[q].pc = "commit" => opener'[q].at \notin recorded'
                      /\ opener'[q].pc = "open" => opener'[q].at > Known[q]
    BY DEF MigrationsInOrder, At
  <2>1. CASE q = p  BY <2>1, <1>0
  <2>2. CASE q # p  BY <2>2, <1>0 DEF OpeningInv, MigrationsInOrder, At
  <2> QED  BY <2>1, <2>2
<1>4. OpenedStoreIsComplete'
  <2> SUFFICES ASSUME NEW q \in Processes
               PROVE  /\ opener'[q].pc = "open" => \A j \in 1..Known[q] : schema'[j] = 1
                      /\ writer' = q <=> opener'[q].pc \in {"apply", "record", "commit"}
    BY DEF OpenedStoreIsComplete, At
  <2>1. CASE q = p
    <3>1. ASSUME pc = "open", NEW j \in 1..Known[p]  PROVE schema[j] = 1
      <4>1. j \in 1..Migrations /\ j < i  BY <3>1, OpeningAssumption
      <4> QED  BY <4>1 DEF OpeningInv, SchemaIsRecorded
    <3> QED  BY <2>1, <3>1, <1>0
  <2>2. CASE q # p  BY <2>2, <1>0 DEF OpeningInv, OpenedStoreIsComplete, At
  <2> QED  BY <2>1, <2>2
<1> QED  BY <1>1, <1>2, <1>3, <1>4 DEF OpeningInv

\* Leaving a transaction, or closing, sends a process back to the start.
LEMMA LeaveStep ==
  ASSUME OpeningInv, NEW p \in Processes, Leave(p), UNCHANGED <<table, recorded, schema>>,
         faults' \in 0..MaxFaults
  PROVE  OpeningInv'
<1>1. /\ 1 \in 1..Migrations + 1 /\ "closed" \in Steps
      /\ opener' = [opener EXCEPT ![p] = [pc |-> "closed", at |-> 1]]
  BY OpeningAssumption DEF Leave, Closed, Steps
<1>2. /\ table' \in BOOLEAN
      /\ writer' \in Processes \cup {NoProcess} /\ writer' # p
      /\ \A q \in Processes \ {p} : writer' = q <=> writer = q
  BY OpeningAssumption DEF Leave, OpeningInv, OpeningTypeOK
<1>3. \A j \in 1..Migrations : ~(j < 1)  OBVIOUS
<1> QED  BY <1>1, <1>2, <1>3, MovedProcess

\* The commit applies and records the next migration, once.
LEMMA CommitStep ==
  ASSUME OpeningInv, NEW p \in Processes, Commit(p)
  PROVE  OpeningInv'
<1> DEFINE i == opener[p].at
<1>0. /\ OpeningTypeOK /\ At(p, "commit") /\ writer = p
      /\ opener[p] \in [pc : Steps, at : 1..Migrations + 1]
      /\ i \in 1..Migrations /\ i <= Known[p] /\ i \notin recorded
      /\ \A j \in 1..Migrations : j < i => j \in recorded
  <2>1. OpeningTypeOK /\ At(p, "commit")  BY DEF Commit, OpeningInv
  <2>2. opener[p] \in [pc : Steps, at : 1..Migrations + 1] /\ i \in 1..Migrations + 1
    BY <2>1 DEF OpeningTypeOK
  <2>3. writer = p  BY <2>1 DEF OpeningInv, OpenedStoreIsComplete, At
  <2>4. i <= Known[p] /\ i \notin recorded /\ \A j \in 1..Migrations : j < i => j \in recorded
    BY <2>1 DEF OpeningInv, MigrationsInOrder, At
  <2>5. Known[p] \in 0..Migrations  BY OpeningAssumption
  <2> QED  BY <2>1, <2>2, <2>3, <2>4, <2>5, OpeningAssumption
<1>1. /\ recorded' = recorded \cup {i}
      /\ schema' = [schema EXCEPT ![i] = @ + 1]
      /\ writer' = NoProcess
      /\ opener'[p] = [pc |-> "check", at |-> i + 1]
      /\ \A q \in Processes : q # p => opener'[q] = opener[q]
      /\ UNCHANGED <<table, faults>>
  BY <1>0 DEF Commit, OpeningTypeOK
<1>2. OpeningTypeOK'
  <2>1. opener' = [opener EXCEPT ![p] = [pc |-> "check", at |-> i + 1]]  BY DEF Commit
  <2>2. [pc |-> "check", at |-> i + 1] \in [pc : Steps, at : 1..Migrations + 1]
    <3>1. i + 1 \in 1..Migrations + 1 /\ "check" \in Steps  BY <1>0, OpeningAssumption DEF Steps
    <3> QED  BY <3>1
  <2>3. opener' \in [Processes -> [pc : Steps, at : 1..Migrations + 1]]
    BY <1>0, <2>1, <2>2 DEF OpeningTypeOK
  <2>4. schema' \in [1..Migrations -> Nat]  BY <1>0, <1>1 DEF OpeningTypeOK
  <2>5. recorded' \subseteq 1..Migrations  BY <1>0, <1>1 DEF OpeningTypeOK
  <2> QED  BY <1>0, <1>1, <2>3, <2>4, <2>5 DEF OpeningTypeOK
<1>3. SchemaIsRecorded'
  <2>1. \A j \in recorded' : \A m \in 1..j : m \in recorded'
    <3> SUFFICES ASSUME NEW j \in recorded', NEW m \in 1..j PROVE m \in recorded'  OBVIOUS
    <3>1. j \in 1..Migrations /\ m \in 1..Migrations
      BY <1>0, <1>1, OpeningAssumption DEF OpeningTypeOK
    <3>2. CASE j = i   BY <3>1, <3>2, <1>0, <1>1
    <3>3. CASE j # i
      <4>1. j \in recorded  BY <3>3, <1>1
      <4> QED  BY <4>1, <1>1 DEF OpeningInv, SchemaIsRecorded
    <3> QED  BY <3>2, <3>3
  <2>2. schema[i] = 0  BY <1>0 DEF OpeningInv, SchemaIsRecorded
  <2>3. \A j \in 1..Migrations : schema'[j] = IF j \in recorded' THEN 1 ELSE 0
    BY <1>0, <1>1, <2>2 DEF OpeningInv, SchemaIsRecorded, OpeningTypeOK
  <2> QED  BY <2>1, <2>3 DEF SchemaIsRecorded
<1>4. MigrationsInOrder'
  <2> SUFFICES ASSUME NEW q \in Processes
               PROVE  /\ \A j \in 1..Migrations : j < opener'[q].at => j \in recorded'
                      /\ opener'[q].pc \in {"begin", "apply", "record", "commit"} => opener'[q].at <= Known[q]
                      /\ opener'[q].pc = "commit" => opener'[q].at \notin recorded'
                      /\ opener'[q].pc = "open" => opener'[q].at > Known[q]
    BY DEF MigrationsInOrder, At
  <2>1. CASE q = p  BY <2>1, <1>0, <1>1
  <2>2. CASE q # p
    <3>1. opener[q].pc # "commit"
      BY <2>2, <1>0 DEF OpeningInv, OpenedStoreIsComplete
    <3> QED  BY <2>2, <3>1, <1>1 DEF OpeningInv, MigrationsInOrder, At
  <2> QED  BY <2>1, <2>2
<1>5. OpenedStoreIsComplete'
  <2> SUFFICES ASSUME NEW q \in Processes
               PROVE  /\ opener'[q].pc = "open" => \A j \in 1..Known[q] : schema'[j] = 1
                      /\ writer' = q <=> opener'[q].pc \in {"apply", "record", "commit"}
    BY DEF OpenedStoreIsComplete, At
  <2>0. NoProcess # q  BY OpeningAssumption
  <2>1. CASE q = p  BY <2>0, <2>1, <1>1
  <2>2. CASE q # p
    <3>1. schema[i] = 0  BY <1>0 DEF OpeningInv, SchemaIsRecorded
    <3>2. ASSUME opener[q].pc = "open", NEW j \in 1..Known[q]  PROVE schema'[j] = 1
      <4>1. schema[j] = 1 /\ j \in 1..Migrations
        BY <3>2, OpeningAssumption DEF OpeningInv, OpenedStoreIsComplete, At
      <4> QED  BY <4>1, <3>1, <1>0, <1>1 DEF OpeningTypeOK
    <3>3. ~(opener[q].pc \in {"apply", "record", "commit"})
      BY <2>2, <1>0 DEF OpeningInv, OpenedStoreIsComplete
    <3> QED  BY <2>0, <2>2, <3>2, <3>3, <1>1
  <2> QED  BY <2>1, <2>2
<1> QED  BY <1>2, <1>3, <1>4, <1>5 DEF OpeningInv

LEMMA OpeningStep == OpeningInv /\ [OpeningNext]_openingVars => OpeningInv'
<1> SUFFICES ASSUME OpeningInv, [OpeningNext]_openingVars PROVE OpeningInv'  OBVIOUS
<1>0. CASE UNCHANGED openingVars
  BY <1>0 DEF openingVars, OpeningInv, OpeningTypeOK, SchemaIsRecorded, OpenedStoreIsComplete,
    MigrationsInOrder, At
<1>1. ASSUME NEW p \in Processes, Step(p) \/ TimeOut(p) \/ Close(p) \/ Fail(p)
      PROVE  OpeningInv'
  <2> DEFINE i == opener[p].at
  <2>0. /\ OpeningTypeOK
        /\ opener[p] \in [pc : Steps, at : 1..Migrations + 1]
        /\ i \in 1..Migrations + 1
        /\ table \in BOOLEAN /\ faults \in 0..MaxFaults /\ writer \in Processes \cup {NoProcess}
        /\ NoProcess # p
    BY OpeningAssumption DEF OpeningInv, OpeningTypeOK
  <2>1. /\ \A j \in 1..Migrations : j < i => j \in recorded
        /\ opener[p].pc \in {"begin", "apply", "record", "commit"} => i <= Known[p]
        /\ writer = p <=> opener[p].pc \in {"apply", "record", "commit"}
    BY DEF OpeningInv, MigrationsInOrder, OpenedStoreIsComplete
  <2>2. ASSUME NEW pc \in Steps, Goto(p, pc)
        PROVE  opener' = [opener EXCEPT ![p] = [pc |-> pc, at |-> i]]
    <3>1. [opener[p] EXCEPT !.pc = pc] = [pc |-> pc, at |-> i]  BY <2>0
    <3> QED  BY <2>2, <3>1 DEF Goto
  <2>3. CASE Open(p)
    <3>1. opener' = [opener EXCEPT ![p] = [pc |-> "create", at |-> i]] /\ "create" \in Steps
      BY <2>3, <2>2 DEF Open, Steps
    <3> QED  BY <2>3, <3>1, <2>0, <2>1, MovedProcess DEF Open, At
  <2>4. CASE CreateTable(p)
    <3>1. opener' = [opener EXCEPT ![p] = [pc |-> "check", at |-> i]] /\ "check" \in Steps
      BY <2>4, <2>2 DEF CreateTable, Steps
    <3> QED  BY <2>4, <3>1, <2>0, <2>1, MovedProcess DEF CreateTable, At
  <2>5. CASE Check(p)
    <3>0. opener[p].pc = "check" /\ UNCHANGED <<table, recorded, schema, writer, faults>>
      BY <2>5 DEF Check, At
    <3>1. CASE i > Known[p]
      <4>1. opener' = [opener EXCEPT ![p] = [pc |-> "open", at |-> i]] /\ "open" \in Steps
        BY <2>5, <3>1, <2>2 DEF Check, Steps
      <4> QED  BY <3>0, <3>1, <4>1, <2>0, <2>1, MovedProcess
    <3>2. CASE ~(i > Known[p]) /\ i \in recorded
      <4>1. /\ opener' = [opener EXCEPT ![p].at = i + 1]
            /\ [opener[p] EXCEPT !.at = i + 1] = [pc |-> "check", at |-> i + 1]
        BY <2>5, <3>2, <2>0 DEF Check, At
      <4>2. opener' = [opener EXCEPT ![p] = [pc |-> "check", at |-> i + 1]]  BY <4>1
      <4>3. i + 1 \in 1..Migrations + 1 /\ "check" \in Steps
        BY <3>2, <2>0, OpeningAssumption DEF OpeningTypeOK, Steps
      <4>4. \A j \in 1..Migrations : j < i + 1 => j \in recorded  BY <3>2, <2>0, <2>1
      <4> QED  BY <3>0, <4>2, <4>3, <4>4, <2>0, <2>1, MovedProcess
    <3>3. CASE ~(i > Known[p]) /\ i \notin recorded
      <4>1. opener' = [opener EXCEPT ![p] = [pc |-> "begin", at |-> i]] /\ "begin" \in Steps
        BY <2>5, <3>3, <2>2 DEF Check, Steps
      <4>2. i <= Known[p]  BY <3>3, <2>0, OpeningAssumption
      <4> QED  BY <3>0, <4>1, <4>2, <2>0, <2>1, MovedProcess
    <3> QED  BY <3>1, <3>2, <3>3
  <2>6. CASE BeginTx(p)
    <3>1. opener' = [opener EXCEPT ![p] = [pc |-> "apply", at |-> i]] /\ "apply" \in Steps
      BY <2>6, <2>2 DEF BeginTx, Steps
    <3>2. \A q \in Processes \ {p} : writer' = q <=> writer = q
      BY <2>6, OpeningAssumption DEF BeginTx
    <3> QED  BY <2>6, <3>1, <3>2, <2>0, <2>1, MovedProcess DEF BeginTx, At
  <2>7. CASE Apply(p)
    <3>1. CASE CanApply(p)
      <4>1. opener' = [opener EXCEPT ![p] = [pc |-> "record", at |-> i]] /\ "record" \in Steps
        BY <2>7, <3>1, <2>2 DEF Apply, Steps
      <4> QED  BY <2>7, <3>1, <4>1, <2>0, <2>1, MovedProcess DEF Apply, At
    <3>2. CASE ~CanApply(p)  BY <2>7, <3>2, <2>0, LeaveStep DEF Apply
    <3> QED  BY <3>1, <3>2
  <2>8. CASE Record(p)
    <3>1. CASE i \notin recorded
      <4>1. opener' = [opener EXCEPT ![p] = [pc |-> "commit", at |-> i]] /\ "commit" \in Steps
        BY <2>8, <3>1, <2>2 DEF Record, Steps
      <4> QED  BY <2>8, <3>1, <4>1, <2>0, <2>1, MovedProcess DEF Record, At
    <3>2. CASE i \in recorded  BY <2>8, <3>2, <2>0, LeaveStep DEF Record
    <3> QED  BY <3>1, <3>2
  <2>9. CASE Commit(p)   BY <2>9, CommitStep
  <2>10. CASE TimeOut(p) BY <2>10, <2>0, LeaveStep DEF TimeOut
  <2>11. CASE Close(p)   BY <2>11, <2>0, LeaveStep DEF Close
  <2>12. CASE Fail(p)
    <3>1. faults' \in 0..MaxFaults  BY <2>12, <2>0, OpeningAssumption DEF Fail
    <3> QED  BY <2>12, <3>1, LeaveStep DEF Fail
  <2> QED
    BY <1>1, <2>3, <2>4, <2>5, <2>6, <2>7, <2>8, <2>9, <2>10, <2>11, <2>12 DEF Step
<1> QED  BY <1>0, <1>1 DEF OpeningNext

LEMMA OpeningStart == OpeningInit => OpeningInv
<1> SUFFICES ASSUME NEW k \in 0..Migrations,
                    table \in BOOLEAN, recorded = 1..k,
                    schema = [i \in 1..Migrations |-> IF i <= k THEN 1 ELSE 0],
                    writer = NoProcess, opener = [p \in Processes |-> Closed], faults = 0
             PROVE  OpeningInv
  BY DEF OpeningInit
<1>1. OpeningTypeOK
  <2>1. Closed \in [pc : Steps, at : 1..Migrations + 1]
    BY OpeningAssumption DEF Closed, Steps
  <2>2. schema \in [1..Migrations -> Nat]  OBVIOUS
  <2>3. recorded \subseteq 1..Migrations  BY OpeningAssumption
  <2>4. table \in BOOLEAN /\ faults \in 0..MaxFaults  BY OpeningAssumption
  <2> QED  BY <2>1, <2>2, <2>3, <2>4 DEF OpeningTypeOK
<1>2. SchemaIsRecorded  BY OpeningAssumption DEF SchemaIsRecorded
<1>3. OpenedStoreIsComplete  BY OpeningAssumption DEF OpenedStoreIsComplete, At, Closed
<1>4. MigrationsInOrder  BY DEF MigrationsInOrder, At, Closed
<1> QED  BY <1>1, <1>2, <1>3, <1>4 DEF OpeningInv

\* The statements of the database and of the processes that open it, at every moment.
THEOREM OpeningInvariant == OpeningSpec => []OpeningInv
BY OpeningStart, OpeningStep, PTL DEF OpeningSpec

\* Type correctness.
THEOREM OpeningTypes == OpeningSpec => []OpeningTypeOK
<1>1. OpeningInv => OpeningTypeOK  BY DEF OpeningInv
<1> QED  BY <1>1, OpeningInvariant, PTL

\* The schema is that of a release, each migration applied once, whatever races.
THEOREM SchemaOfARelease == OpeningSpec => []SchemaIsRecorded
<1>1. OpeningInv => SchemaIsRecorded  BY DEF OpeningInv
<1> QED  BY <1>1, OpeningInvariant, PTL

\* Every store that was opened has the schema its program needs.
THEOREM OpenStoresAreMigrated == OpeningSpec => []OpenedStoreIsComplete
<1>1. OpeningInv => OpenedStoreIsComplete  BY DEF OpeningInv
<1> QED  BY <1>1, OpeningInvariant, PTL
=============================================================================

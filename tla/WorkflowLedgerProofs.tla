----------------------- MODULE WorkflowLedgerProofs -----------------------
(***************************************************************************)
(* What the tables of WorkflowStore record of the past, for every value of *)
(* the constants: an ended run is final, the tables implement EventLedger, *)
(* a lease is exclusive, the attempts of an event are in order, and the    *)
(* audit trail tells each run.                                             *)
(***************************************************************************)
EXTENDS WorkflowStoreProofs, SequenceTheorems

\* Every operation that writes a run's row finds it absent, or running.
LEMMA EndedStep ==
  ASSUME TypeOK, [Next]_vars, NEW q \in Runs, runs[q].status \in Terminal
  PROVE  runs'[q] = runs[q]
<1>0. runs[q].status # "absent" /\ runs[q].status # "running"
  BY DEF Terminal, Succeeded, Unsuccessful, Preflight
<1>1. CASE Configure
  BY <1>1 DEF Configure, SetWorkflowEnabled, UpsertWorkflow
<1>2. CASE Claim
  BY <1>0, <1>2 DEF Claim, ClaimWorkflow, Evicted
<1>3. CASE Fail
  BY <1>0, <1>3 DEF Fail, FinishUnsuccessfulRun, ClaimHeld, TypeOK
<1>4. CASE NoAction
  BY <1>0, <1>4 DEF NoAction, CompleteNoAction, ClaimHeld, TypeOK
<1>5. CASE Intend
  BY <1>0, <1>5 DEF Intend, PersistApprovalIntent, ClaimHeld, TypeOK
<1>6. CASE Stage
  BY <1>0, <1>6 DEF Stage, CompleteAwaitingApproval, ClaimHeld, TypeOK
<1>7. CASE Preflighted
  BY <1>0, <1>7 DEF Preflighted, RecordTerminalRun, TypeOK
<1>8. CASE Tick
  BY <1>8 DEF Tick
<1>9. CASE UNCHANGED vars
  BY <1>9 DEF vars
<1> QED  BY <1>1, <1>2, <1>3, <1>4, <1>5, <1>6, <1>7, <1>8, <1>9 DEF Next

\* A run that has ended is never written again, under any interleaving of the
\* operations and for any stale claim (the status condition of every UPDATE).
THEOREM EndedRunsStayEnded == Spec => EndedRunsAreFinal
<1>1. ASSUME TypeOK, [Next]_vars
      PROVE  [\A r \in Runs : runs[r].status \in Terminal => runs'[r] = runs[r]]_runs
  BY <1>1, EndedStep
<1> QED  BY <1>1, TypeCorrect, PTL DEF Spec, EndedRunsAreFinal
-----------------------------------------------------------------------------
(* The refinement.                                                         *)

Holder  == [s \in Scopes |-> claims[s].run]
Task    == [r \in Runs |-> runs[r].event]
Outcome == [e \in Events |-> IF dedupe[e].state = "completed"
                             THEN runs[dedupe[e].run].status ELSE "open"]

\* The empty tables are the empty ledger.
LEMMA LedgerInit == Init => Ledger!Init
BY DEF Init, Ledger!Init, Events, NoClaimRow, NoRunRow, NoDedupeRow

\* The outcome of an event does not change while its dedupe row stays completed, or
\* stays open, and no run that succeeded is written.
LEMMA OutcomeKept ==
  ASSUME IInv,
         \A f \in Events : dedupe[f].state = "completed" => dedupe'[f] = dedupe[f],
         \A f \in Events : dedupe'[f].state = "completed" => dedupe[f].state = "completed",
         \A q \in Runs : runs[q].status \in Succeeded => runs'[q].status = runs[q].status
  PROVE  Outcome' = Outcome
<1>1. ASSUME NEW f \in Events
      PROVE  (IF dedupe'[f].state = "completed" THEN runs'[dedupe'[f].run].status ELSE "open")
             = (IF dedupe[f].state = "completed" THEN runs[dedupe[f].run].status ELSE "open")
  <2>1. CASE dedupe[f].state = "completed"
    <3>1. dedupe[f].run \in Runs /\ runs[dedupe[f].run].status \in Succeeded
      BY <2>1 DEF IInv, CompletedByOneRun, RowsAgree
    <3> QED  BY <2>1, <3>1
  <2>2. CASE dedupe[f].state # "completed"
    BY <2>2
  <2> QED  BY <2>1, <2>2
<1> QED  BY <1>1 DEF Outcome

\* ClaimWorkflow is Acquire: the event is open, its new run takes the scope, and
\* the holder it displaces had not decided anything.
LEMMA ClaimAcquires ==
  ASSUME IInv, NEW r \in Runs, NEW e \in Events, NEW i \in Inputs, NEW d \in Leases,
         ClaimWorkflow(r, e, i, d)
  PROVE  Ledger!Acquire(r, e)
<1>1. e[1] \in Scopes  BY DEF Events
<1>2. runs[r].status = "absent" /\ runs[r].event = NoEvent
  BY DEF ClaimWorkflow, IInv, RowsAgree
<1>3. dedupe[e].state # "completed"
  BY DEF ClaimWorkflow, ClaimGranted
<1>4. Holder' = [Holder EXCEPT ![e[1]] = r]
  BY <1>1 DEF Holder, ClaimWorkflow, IInv, TypeOK
<1>5. Task' = [Task EXCEPT ![r] = e]
  <2>1. ASSUME NEW q \in Runs
        PROVE  runs'[q].event = IF q = r THEN e ELSE runs[q].event
    <3>1. CASE q = r  BY <3>1 DEF ClaimWorkflow, NewRun
    <3>2. CASE q # r
      <4>1. runs[q] \in RunRows  BY DEF IInv, TypeOK
      <4> QED  BY <3>2, <4>1 DEF ClaimWorkflow, RunRows
    <3> QED  BY <3>1, <3>2
  <2> QED  BY <2>1 DEF Task
<1>6. Outcome' = Outcome
  <2>1. \A f \in Events : f # e => dedupe'[f] = dedupe[f]
    BY DEF ClaimWorkflow, IInv, TypeOK
  <2>2. dedupe'[e].state = "in_flight"
    BY <1>3 DEF ClaimWorkflow, IInv, TypeOK, InFlightRow
  <2>3. ASSUME NEW q \in Runs, runs[q].status \in Succeeded
        PROVE  runs'[q].status = runs[q].status
    BY <2>3, <1>2 DEF ClaimWorkflow, Evicted, Succeeded
  <2> QED  BY <1>3, <2>1, <2>2, <2>3, OutcomeKept
<1> QED
  BY <1>2, <1>3, <1>4, <1>5, <1>6 DEF Ledger!Acquire, Holder, Task, Outcome

\* finishUnsuccessfulRun is Abandon.
LEMMA FailAbandons ==
  ASSUME IInv, NEW r \in Runs, NEW status \in Unsuccessful, FinishUnsuccessfulRun(r, status)
  PROVE  Ledger!Abandon(r, runs[r].event)
<1> DEFINE e == runs[r].event
<1>0. ClaimHeld(r)  BY DEF FinishUnsuccessfulRun
<1>1. /\ e \in Events /\ e[1] \in Scopes /\ claims[e[1]].run = r
      /\ runs[r].status = "running" /\ dedupe[e].state = "in_flight" /\ dedupe[e].run = r
  BY <1>0, HolderFacts
<1>2. Holder' = [Holder EXCEPT ![e[1]] = NoRun]
  BY <1>1 DEF Holder, FinishUnsuccessfulRun, NoClaimRow, IInv, TypeOK
<1>3. ASSUME NEW q \in Runs
      PROVE  /\ runs'[q].event = runs[q].event
             /\ runs[q].status \in Succeeded => runs'[q].status = runs[q].status
  <2>1. runs[q] \in RunRows  BY DEF IInv, TypeOK
  <2>2. q # r => runs'[q] = runs[q]  BY DEF FinishUnsuccessfulRun, IInv, TypeOK
  <2>3. q = r => runs'[q] = [runs[q] EXCEPT !.status = status]
    BY DEF FinishUnsuccessfulRun, IInv, TypeOK
  <2> QED  BY <2>1, <2>2, <2>3, <1>1 DEF RunRows, Succeeded
<1>4. Task' = Task  BY <1>3 DEF Task
<1>5. Outcome' = Outcome
  <2>1. dedupe'[e].state = "failed" /\ \A f \in Events : f # e => dedupe'[f] = dedupe[f]
    <3>1. dedupe[e] \in DedupeRows  BY <1>1 DEF IInv, TypeOK
    <3> QED  BY <3>1, <1>1 DEF FinishUnsuccessfulRun, IInv, TypeOK, DedupeRows
  <2> QED  BY <1>1, <1>3, <2>1, OutcomeKept
<1> QED  BY <1>1, <1>2, <1>4, <1>5 DEF Ledger!Abandon, Holder, Task, Outcome

\* Either successful finalizer is Settle, with the status it gives its run.
LEMMA CompletionSettles ==
  ASSUME IInv, NEW r \in Runs, NEW o \in Succeeded,
         ClaimHeld(r), CompleteDedupeAndCursor(r),
         runs'[r].status = o, runs'[r].event = runs[r].event,
         \A q \in Runs : q # r => runs'[q] = runs[q]
  PROVE  Ledger!Settle(r, runs[r].event, o)
<1> DEFINE e == runs[r].event
<1>1. /\ e \in Events /\ e[1] \in Scopes /\ claims[e[1]].run = r
      /\ runs[r].status = "running" /\ dedupe[e].state = "in_flight" /\ dedupe[e].run = r
  BY HolderFacts
<1>2. Holder' = [Holder EXCEPT ![e[1]] = NoRun]
  BY <1>1 DEF Holder, CompleteDedupeAndCursor, NoClaimRow, IInv, TypeOK
<1>3. Task' = Task
  <2>1. \A q \in Runs : runs'[q].event = runs[q].event  OBVIOUS
  <2> QED  BY <2>1 DEF Task
<1>4. /\ dedupe'[e].state = "completed" /\ dedupe'[e].run = r
      /\ \A f \in Events : f # e => dedupe'[f] = dedupe[f]
  <2>1. dedupe[e] \in DedupeRows  BY <1>1 DEF IInv, TypeOK
  <2> QED  BY <2>1, <1>1 DEF CompleteDedupeAndCursor, IInv, TypeOK, DedupeRows
<1>5. Outcome' = [Outcome EXCEPT ![e] = o]
  <2>1. ASSUME NEW f \in Events
        PROVE  (IF dedupe'[f].state = "completed" THEN runs'[dedupe'[f].run].status ELSE "open")
               = IF f = e THEN o
                 ELSE IF dedupe[f].state = "completed" THEN runs[dedupe[f].run].status ELSE "open"
    <3>1. CASE f = e  BY <3>1, <1>4
    <3>2. CASE f # e /\ dedupe[f].state = "completed"
      <4>1. dedupe[f].run \in Runs /\ runs[dedupe[f].run].status \in Succeeded
        BY <3>2 DEF IInv, CompletedByOneRun, RowsAgree
      <4>2. dedupe[f].run # r  BY <4>1, <1>1 DEF Succeeded
      <4> QED  BY <3>2, <4>1, <4>2, <1>4
    <3>3. CASE f # e /\ dedupe[f].state # "completed"  BY <3>3, <1>4
    <3> QED  BY <3>1, <3>2, <3>3
  <2> QED  BY <2>1, <1>1 DEF Outcome
<1> QED  BY <1>1, <1>2, <1>3, <1>5 DEF Ledger!Settle, Holder, Task, Outcome

\* What the ledger does not see: no claim, no dedupe row, no event of a run and no
\* success changes.
LEMMA LedgerStutter ==
  ASSUME IInv, UNCHANGED <<claims, dedupe>>,
         \A q \in Runs : /\ runs'[q].event = runs[q].event
                         /\ runs[q].status \in Succeeded => runs'[q].status = runs[q].status
  PROVE  UNCHANGED Ledger!vars
<1>1. Holder' = Holder  BY DEF Holder
<1>2. Task' = Task  BY DEF Task
<1>3. Outcome' = Outcome  BY OutcomeKept
<1> QED  BY <1>1, <1>2, <1>3 DEF Ledger!vars, Holder, Task, Outcome

\* Every step of the tables is a step of the ledger or changes nothing of it.
LEMMA LedgerStep == IInv /\ [Next]_vars => [Ledger!Next]_(Ledger!vars)
<1> SUFFICES ASSUME IInv, [Next]_vars PROVE [Ledger!Next]_(Ledger!vars)  OBVIOUS
<1>w. TypeOK /\ \A q \in Runs : runs[q] \in RunRows  BY DEF IInv, TypeOK
<1>1. CASE Configure
  <2>1. UNCHANGED <<runs, claims, dedupe>>
    BY <1>1 DEF Configure, SetWorkflowEnabled, UpsertWorkflow
  <2> QED  BY <2>1, LedgerStutter
<1>2. CASE Claim
  <2> SUFFICES ASSUME NEW r \in Runs, NEW e \in Events, NEW i \in Inputs, NEW d \in Leases,
                      ClaimWorkflow(r, e, i, d)
               PROVE  Ledger!Next
    BY <1>2 DEF Claim
  <2>1. Ledger!Acquire(r, e)  BY ClaimAcquires
  <2> QED  BY <2>1 DEF Ledger!Next, Events
<1>3. CASE Fail
  <2> SUFFICES ASSUME NEW r \in Runs, NEW status \in Unsuccessful,
                      FinishUnsuccessfulRun(r, status)
               PROVE  Ledger!Next
    BY <1>3 DEF Fail
  <2>1. ClaimHeld(r)  BY DEF FinishUnsuccessfulRun
  <2> DEFINE e == runs[r].event
  <2>2. e \in Scopes \X Keys  BY <2>1, HolderFacts DEF Events
  <2>3. Ledger!Abandon(r, e)  BY FailAbandons
  <2> QED  BY <2>2, <2>3 DEF Ledger!Next, Ledger!Abandon
<1>4. CASE NoAction
  <2> SUFFICES ASSUME NEW r \in Runs, NEW meta \in Metas, CompleteNoAction(r, meta)
               PROVE  Ledger!Next
    BY <1>4 DEF NoAction
  <2>1. ClaimHeld(r) /\ CompleteDedupeAndCursor(r)  BY DEF CompleteNoAction
  <2>2. /\ runs'[r].status = "no_action" /\ runs'[r].event = runs[r].event
        /\ \A q \in Runs : q # r => runs'[q] = runs[q]
    BY <1>w DEF CompleteNoAction, TypeOK, RunRows
  <2>3. runs[r].event \in Events  BY <2>1, HolderFacts
  <2>4. Ledger!Settle(r, runs[r].event, "no_action")
    BY <2>1, <2>2, CompletionSettles DEF Succeeded
  <2> QED  BY <2>3, <2>4 DEF Ledger!Next, Ledger!Outcomes, Events
<1>5. CASE Intend
  <2> SUFFICES ASSUME NEW r \in Runs, NEW request \in Requests, NEW contents \in SUBSET Contents,
                      NEW meta \in Metas, PersistApprovalIntent(r, request, contents, meta)
               PROVE  UNCHANGED Ledger!vars
    BY <1>5 DEF Intend
  <2>1. UNCHANGED <<claims, dedupe>>  BY DEF PersistApprovalIntent
  <2>2. \A q \in Runs : runs'[q].event = runs[q].event /\ runs'[q].status = runs[q].status
    BY <1>w DEF PersistApprovalIntent, TypeOK, RunRows
  <2> QED  BY <2>1, <2>2, LedgerStutter
<1>6. CASE Stage
  <2> SUFFICES ASSUME NEW r \in Runs, NEW a \in Events, NEW issue \in Issues, NEW meta \in Metas,
                      CompleteAwaitingApproval(r, a, issue, meta)
               PROVE  Ledger!Next
    BY <1>6 DEF Stage
  <2>1. ClaimHeld(r) /\ CompleteDedupeAndCursor(r)  BY DEF CompleteAwaitingApproval
  <2>2. /\ runs'[r].status = "awaiting_approval" /\ runs'[r].event = runs[r].event
        /\ \A q \in Runs : q # r => runs'[q] = runs[q]
    BY <1>w DEF CompleteAwaitingApproval, TypeOK, RunRows
  <2>3. runs[r].event \in Events  BY <2>1, HolderFacts
  <2>4. Ledger!Settle(r, runs[r].event, "awaiting_approval")
    BY <2>1, <2>2, CompletionSettles DEF Succeeded
  <2> QED  BY <2>3, <2>4 DEF Ledger!Next, Ledger!Outcomes, Events
<1>7. CASE Preflighted
  <2> SUFFICES ASSUME NEW r \in Runs, NEW status \in Preflight, RecordTerminalRun(r, status)
               PROVE  UNCHANGED Ledger!vars
    BY <1>7 DEF Preflighted
  <2>1. UNCHANGED <<claims, dedupe>> /\ runs[r].status = "absent"
    BY DEF RecordTerminalRun
  <2>2. \A q \in Runs : /\ runs'[q].event = runs[q].event
                        /\ q # r => runs'[q].status = runs[q].status
    BY <1>w DEF RecordTerminalRun, TypeOK, RunRows
  <2> QED  BY <2>1, <2>2, LedgerStutter DEF Succeeded
<1>8. CASE Tick
  <2>1. UNCHANGED <<runs, claims, dedupe>>  BY <1>8 DEF Tick
  <2> QED  BY <2>1, LedgerStutter
<1>9. CASE UNCHANGED vars
  <2>1. UNCHANGED <<runs, claims, dedupe>>  BY <1>9 DEF vars
  <2> QED  BY <2>1, LedgerStutter
<1> QED  BY <1>1, <1>2, <1>3, <1>4, <1>5, <1>6, <1>7, <1>8, <1>9 DEF Next

\* The tables and their transactions implement the ledger of events: one holder for
\* each scope, one outcome for each event, decided by the holder for its own event.
THEOREM StoreImplementsLedger == Spec => ImplementsLedger
<1> QED
  BY LedgerInit, LedgerStep, TablesAgree, PTL DEF Spec, ImplementsLedger, Ledger!Spec
-----------------------------------------------------------------------------
(* Exclusive scopes: no definition allows overlap, as in the one shipped.  *)

NoOverlap == \A s \in Scopes : ~workflows[s].overlap

\* An operation other than a claim leaves the holder of each scope in place, or
\* ends the only run its scope has.
LEMMA ExclusiveFrame ==
  ASSUME IInv, RunningHoldsClaim, NEW r \in Runs,
         \A q \in Runs : /\ runs'[q].event = runs[q].event
                         /\ runs'[q].status = "running" => runs[q].status = "running",
         \/ claims' = claims
         \/ /\ ClaimHeld(r) /\ runs'[r].status # "running"
            /\ \A z \in Scopes : z # ScopeOf(r) => claims'[z] = claims[z]
  PROVE  RunningHoldsClaim'
<1> SUFFICES ASSUME NEW q \in Runs, runs'[q].status = "running"
             PROVE  claims'[runs'[q].event[1]].run = q
  BY DEF RunningHoldsClaim, ScopeOf
<1>1. runs[q].status = "running" /\ claims[runs[q].event[1]].run = q /\ runs[q].event[1] \in Scopes
  BY DEF RunningHoldsClaim, ScopeOf, IInv, RowsAgree, Events
<1>2. CASE claims' = claims  BY <1>1, <1>2
<1>3. CASE /\ ClaimHeld(r) /\ runs'[r].status # "running"
           /\ \A z \in Scopes : z # ScopeOf(r) => claims'[z] = claims[z]
  <2>1. claims[runs[r].event[1]].run = r  BY <1>3, HolderFacts
  <2> QED  BY <1>1, <1>3, <2>1 DEF ScopeOf
<1> QED  BY <1>2, <1>3

\* A claim in an exclusive scope finds no run there but the one it evicts.
LEMMA ExclusiveClaim ==
  ASSUME IInv, NoOverlap, RunningHoldsClaim,
         NEW r \in Runs, NEW e \in Events, NEW i \in Inputs, NEW d \in Leases,
         ClaimWorkflow(r, e, i, d)
  PROVE  RunningHoldsClaim'
<1> DEFINE s == e[1]
<1>1. s \in Scopes /\ runs[r].status = "absent"
  BY DEF Events, ClaimWorkflow
<1>2. /\ claims'[s].run = r
      /\ \A z \in Scopes : z # s => claims'[z] = claims[z]
  BY <1>1 DEF ClaimWorkflow, IInv, TypeOK
<1>3. claims[s].run # NoRun => ~(claims[s].lease > now)
  BY <1>1 DEF ClaimWorkflow, ClaimGranted, LeaseActive, NoOverlap
<1>4. claims[s].lease \in Nat /\ now \in Nat
  BY <1>1 DEF IInv, TypeOK, ClaimRows
<1>5. ASSUME NEW q \in Runs, runs'[q].status = "running"
      PROVE  claims'[runs'[q].event[1]].run = q
  <2>1. CASE q = r
    <3>1. runs'[r].event = e  BY DEF ClaimWorkflow, NewRun, IInv, TypeOK
    <3> QED  BY <2>1, <3>1, <1>2
  <2>2. CASE q # r
    <3>0. runs[q] \in RunRows  BY DEF IInv, TypeOK
    <3>1. /\ q \notin Evicted(s) /\ runs[q].status = "running"
          /\ runs'[q].event = runs[q].event
      BY <1>5, <2>2, <3>0 DEF ClaimWorkflow, RunRows
    <3>2. claims[runs[q].event[1]].run = q /\ runs[q].event[1] \in Scopes
      BY <3>1 DEF RunningHoldsClaim, ScopeOf, IInv, RowsAgree, Events
    <3>3. runs[q].event[1] # s
      BY <3>1, <3>2, <1>3, <1>4, NullsAssumption DEF Evicted
    <3> QED  BY <3>1, <3>2, <3>3, <1>2
  <2> QED  BY <2>1, <2>2
<1> QED  BY <1>5 DEF RunningHoldsClaim, ScopeOf

\* The exclusive invariant is preserved by every step.
LEMMA ExclusiveStep ==
  ASSUME TRUE \notin Overlaps
  PROVE  IInv /\ NoOverlap /\ RunningHoldsClaim /\ [Next]_vars => NoOverlap' /\ RunningHoldsClaim'
<1> SUFFICES ASSUME IInv, NoOverlap, RunningHoldsClaim, [Next]_vars
             PROVE  NoOverlap' /\ RunningHoldsClaim'
  OBVIOUS
<1>w. TypeOK /\ \A q \in Runs : runs[q] \in RunRows  BY DEF IInv, TypeOK
<1>1. NoOverlap'
  <2>1. CASE Configure
    <3>0. \A z \in Scopes : workflows[z] \in [enabled : BOOLEAN, overlap : BOOLEAN]
      BY <1>w DEF TypeOK
    <3>1. ASSUME NEW s \in Scopes, NEW enabled \in BOOLEAN, SetWorkflowEnabled(s, enabled)
          PROVE  NoOverlap'
      <4>1. \A z \in Scopes : workflows'[z].overlap = workflows[z].overlap
        BY <1>w, <3>0, <3>1 DEF SetWorkflowEnabled, TypeOK
      <4> QED  BY <4>1 DEF NoOverlap
    <3>2. ASSUME NEW s \in Scopes, NEW enabled \in BOOLEAN, NEW overlap \in Overlaps,
                 UpsertWorkflow(s, enabled, overlap)
          PROVE  NoOverlap'
      <4>1. overlap = FALSE  BY ConstantsAssumption
      <4>2. /\ workflows'[s].overlap = overlap
            /\ \A z \in Scopes : z # s => workflows'[z] = workflows[z]
        BY <1>w, <3>2 DEF UpsertWorkflow, TypeOK
      <4>3. ~workflows'[s].overlap  BY <4>1, <4>2
      <4> QED  BY <4>2, <4>3 DEF NoOverlap
    <3> QED  BY <2>1, <3>1, <3>2 DEF Configure
  <2>2. Claim => workflows' = workflows  BY DEF Claim, ClaimWorkflow
  <2>3. Fail => workflows' = workflows  BY DEF Fail, FinishUnsuccessfulRun
  <2>4. NoAction => workflows' = workflows  BY DEF NoAction, CompleteNoAction
  <2>5. Intend => workflows' = workflows  BY DEF Intend, PersistApprovalIntent
  <2>6. Stage => workflows' = workflows  BY DEF Stage, CompleteAwaitingApproval
  <2>7. Preflighted \/ Tick \/ UNCHANGED vars => workflows' = workflows
    BY DEF Preflighted, RecordTerminalRun, Tick, vars
  <2>8. CASE workflows' = workflows
    BY <2>8 DEF NoOverlap
  <2> QED  BY <2>1, <2>2, <2>3, <2>4, <2>5, <2>6, <2>7, <2>8 DEF Next
<1>2. RunningHoldsClaim'
  <2>1. CASE Claim  BY <2>1, ExclusiveClaim DEF Claim
  <2>2. CASE Fail
    <3> SUFFICES ASSUME NEW r \in Runs, NEW status \in Unsuccessful,
                        FinishUnsuccessfulRun(r, status)
                 PROVE  RunningHoldsClaim'
      BY <2>2 DEF Fail
    <3>1. /\ ClaimHeld(r) /\ runs'[r].status # "running"
          /\ \A z \in Scopes : z # ScopeOf(r) => claims'[z] = claims[z]
      BY <1>w DEF FinishUnsuccessfulRun, TypeOK, RunRows, Unsuccessful, ScopeOf
    <3>2. \A q \in Runs : /\ runs'[q].event = runs[q].event
                          /\ runs'[q].status = "running" => runs[q].status = "running"
      BY <1>w DEF FinishUnsuccessfulRun, TypeOK, RunRows, Unsuccessful
    <3> QED  BY <3>1, <3>2, ExclusiveFrame
  <2>3. CASE NoAction
    <3> SUFFICES ASSUME NEW r \in Runs, NEW meta \in Metas, CompleteNoAction(r, meta)
                 PROVE  RunningHoldsClaim'
      BY <2>3 DEF NoAction
    <3>1. /\ ClaimHeld(r) /\ runs'[r].status # "running"
          /\ \A z \in Scopes : z # ScopeOf(r) => claims'[z] = claims[z]
      BY <1>w DEF CompleteNoAction, CompleteDedupeAndCursor, TypeOK, RunRows, ScopeOf
    <3>2. \A q \in Runs : /\ runs'[q].event = runs[q].event
                          /\ runs'[q].status = "running" => runs[q].status = "running"
      BY <1>w DEF CompleteNoAction, TypeOK, RunRows
    <3> QED  BY <3>1, <3>2, ExclusiveFrame
  <2>4. CASE Intend
    <3> SUFFICES ASSUME NEW r \in Runs, NEW request \in Requests, NEW contents \in SUBSET Contents,
                        NEW meta \in Metas, PersistApprovalIntent(r, request, contents, meta)
                 PROVE  RunningHoldsClaim'
      BY <2>4 DEF Intend
    <3>1. claims' = claims  BY DEF PersistApprovalIntent
    <3>2. \A q \in Runs : /\ runs'[q].event = runs[q].event
                          /\ runs'[q].status = "running" => runs[q].status = "running"
      BY <1>w DEF PersistApprovalIntent, TypeOK, RunRows
    <3> QED  BY <3>1, <3>2, ExclusiveFrame
  <2>5. CASE Stage
    <3> SUFFICES ASSUME NEW r \in Runs, NEW a \in Events, NEW issue \in Issues, NEW meta \in Metas,
                        CompleteAwaitingApproval(r, a, issue, meta)
                 PROVE  RunningHoldsClaim'
      BY <2>5 DEF Stage
    <3>1. /\ ClaimHeld(r) /\ runs'[r].status # "running"
          /\ \A z \in Scopes : z # ScopeOf(r) => claims'[z] = claims[z]
      BY <1>w DEF CompleteAwaitingApproval, CompleteDedupeAndCursor, TypeOK, RunRows, ScopeOf
    <3>2. \A q \in Runs : /\ runs'[q].event = runs[q].event
                          /\ runs'[q].status = "running" => runs[q].status = "running"
      BY <1>w DEF CompleteAwaitingApproval, TypeOK, RunRows
    <3> QED  BY <3>1, <3>2, ExclusiveFrame
  <2>6. CASE Preflighted
    <3> SUFFICES ASSUME NEW r \in Runs, NEW status \in Preflight, RecordTerminalRun(r, status)
                 PROVE  RunningHoldsClaim'
      BY <2>6 DEF Preflighted
    <3>1. claims' = claims  BY DEF RecordTerminalRun
    <3>2. \A q \in Runs : /\ runs'[q].event = runs[q].event
                          /\ runs'[q].status = "running" => runs[q].status = "running"
      BY <1>w DEF RecordTerminalRun, TypeOK, RunRows, Preflight
    <3> QED  BY <3>1, <3>2, ExclusiveFrame
  <2>7. CASE UNCHANGED <<runs, claims>>
    BY <2>7 DEF RunningHoldsClaim, ScopeOf
  <2> QED
    BY <2>1, <2>2, <2>3, <2>4, <2>5, <2>6, <2>7 DEF Next, Configure, SetWorkflowEnabled,
      UpsertWorkflow, Tick, vars
<1> QED  BY <1>1, <1>2

\* With allow_overlap off, at most one run of a workflow is running: the holder of
\* its claim, which the next claim finds and cancels if its process is gone.
THEOREM ExclusiveRuns == TRUE \notin Overlaps => (Spec => []RunningHoldsClaim)
<1> SUFFICES ASSUME TRUE \notin Overlaps PROVE Spec => []RunningHoldsClaim  OBVIOUS
<1>1. Init => NoOverlap /\ RunningHoldsClaim
  BY DEF Init, NoOverlap, RunningHoldsClaim, NoRunRow
<1>2. IInv /\ NoOverlap /\ RunningHoldsClaim /\ [Next]_vars => NoOverlap' /\ RunningHoldsClaim'
  BY ExclusiveStep
<1> QED  BY <1>1, <1>2, TablesAgree, PTL DEF Spec

\* Only a claim puts a run in another one's place, with the next
\* fence; it finds the lease expired or overlap allowed.
LEMMA ReplacementStep ==
  ASSUME IInv, [Next]_vars, NEW s \in Scopes,
         claims[s].run # NoRun, claims'[s].run \notin {claims[s].run, NoRun}
  PROVE  claims'[s].fence > claims[s].fence /\ (~workflows[s].overlap => claims[s].lease <= now)
<1>w. /\ TypeOK /\ claims[s] \in ClaimRows /\ now \in Nat /\ NoClaimRow.run = NoRun
  BY DEF IInv, TypeOK, NoClaimRow
<1>1. CASE Claim
  <2> SUFFICES ASSUME NEW r \in Runs, NEW e \in Events, NEW i \in Inputs, NEW d \in Leases,
                      ClaimWorkflow(r, e, i, d)
               PROVE  claims'[s].fence > claims[s].fence /\ (~workflows[s].overlap => claims[s].lease <= now)
    BY <1>1 DEF Claim
  <2>1. e[1] = s  BY <1>w DEF ClaimWorkflow, TypeOK
  <2>2. ~workflows[s].overlap => ~(claims[s].lease > now)
    BY <2>1 DEF ClaimWorkflow, ClaimGranted, LeaseActive
  <2>3. claims'[s].fence = claims[s].fence + 1
    BY <1>w, <2>1 DEF ClaimWorkflow, TypeOK
  <2> QED  BY <1>w, <2>2, <2>3 DEF ClaimRows
<1>2. CASE Fail
  BY <1>2, <1>w DEF Fail, FinishUnsuccessfulRun, TypeOK
<1>3. CASE NoAction
  BY <1>3, <1>w DEF NoAction, CompleteNoAction, CompleteDedupeAndCursor, TypeOK
<1>4. CASE Stage
  BY <1>4, <1>w DEF Stage, CompleteAwaitingApproval, CompleteDedupeAndCursor, TypeOK
<1>5. CASE claims' = claims
  BY <1>5
<1>6. Configure \/ Intend \/ Preflighted \/ Tick \/ UNCHANGED vars => claims' = claims
  BY DEF Configure, SetWorkflowEnabled, UpsertWorkflow, Intend, PersistApprovalIntent,
    Preflighted, RecordTerminalRun, Tick, vars
<1> QED  BY <1>1, <1>2, <1>3, <1>4, <1>5, <1>6 DEF Next

\* A claim's successor has a higher fence, and a live lease is taken from its holder
\* only where the definition allows overlap.
THEOREM LeasesAreExclusive == Spec => LeaseIsExclusive
<1>1. ASSUME IInv, [Next]_vars
      PROVE  [\A s \in Scopes :
                claims[s].run # NoRun /\ claims'[s].run \notin {claims[s].run, NoRun} =>
                  /\ claims'[s].fence > claims[s].fence
                  /\ ~workflows[s].overlap => claims[s].lease <= now]_claims
  BY <1>1, ReplacementStep
<1> QED  BY <1>1, TablesAgree, PTL DEF Spec, LeaseIsExclusive

-----------------------------------------------------------------------------
(* The attempts of an event.                                               *)

\* The runs of an event are numbered without a gap, the row that the dedupe key
\* names is the last of them, and all read the input the key was claimed with.
AttemptsNumbered ==
  \A r \in Runs : runs[r].event # NoEvent =>
    /\ runs[r].attempt \in 1..Attempts(runs[r].event)
    /\ dedupe[runs[r].event].state # "absent"
    /\ runs[r].input = dedupe[runs[r].event].input
    /\ dedupe[runs[r].event].run = r => runs[r].attempt = Attempts(runs[r].event)
    /\ \A q \in Runs : q # r /\ runs[q].event = runs[r].event
                         => runs[q].attempt # runs[r].attempt

\* COUNT(*) does not change while no run changes its event, and grows by one when
\* one run is drawn for the event.
LEMMA AttemptsCount ==
  ASSUME NEW e, \A q \in Runs : runs'[q].event = e <=> runs[q].event = e
  PROVE  Attempts(e)' = Attempts(e)
<1>1. {q \in Runs : runs'[q].event = e} = {q \in Runs : runs[q].event = e}
  OBVIOUS
<1> QED
  BY <1>1 DEF Attempts

LEMMA AttemptsGrow ==
  ASSUME NEW e, NEW r \in Runs, runs[r].event # e, runs'[r].event = e,
         \A q \in Runs : q # r => runs'[q].event = runs[q].event
  PROVE  Attempts(e)' = Attempts(e) + 1
<1> DEFINE S == {q \in Runs : runs[q].event = e}
<1>1. {q \in Runs : runs'[q].event = e} = S \cup {r} /\ r \notin S
  OBVIOUS
<1>2. IsFiniteSet(S)
  <2>1. S \subseteq Runs
    OBVIOUS
  <2> QED
    BY <2>1, ConstantsAssumption, FS_Subset
<1>3. Cardinality(S \cup {r}) = Cardinality(S) + 1
  BY <1>1, <1>2, FS_AddElement
<1> QED
  BY <1>1, <1>3 DEF Attempts

\* The numbers stay when a step keeps the event, the input and the number of every
\* run that has an event, and of a dedupe row its input and its run.
LEMMA NumbersKept ==
  ASSUME IInv, AttemptsNumbered,
         \A q \in Runs :
           /\ runs'[q].event = runs[q].event
           /\ runs[q].event # NoEvent =>
                runs'[q].attempt = runs[q].attempt /\ runs'[q].input = runs[q].input,
         \A e \in Events :
           /\ dedupe'[e].run = dedupe[e].run /\ dedupe'[e].input = dedupe[e].input
           /\ dedupe[e].state # "absent" => dedupe'[e].state # "absent"
  PROVE  AttemptsNumbered'
<1> SUFFICES ASSUME NEW r \in Runs, runs[r].event # NoEvent
             PROVE  /\ runs'[r].attempt \in 1..Attempts(runs[r].event)'
                    /\ dedupe'[runs'[r].event].state # "absent"
                    /\ runs'[r].input = dedupe'[runs'[r].event].input
                    /\ dedupe'[runs'[r].event].run = r
                         => runs'[r].attempt = Attempts(runs[r].event)'
                    /\ \A q \in Runs : q # r /\ runs'[q].event = runs'[r].event
                                         => runs'[q].attempt # runs'[r].attempt
  BY DEF AttemptsNumbered
<1> DEFINE e == runs[r].event
<1>0. runs[r] \in RunRows
  BY DEF IInv, TypeOK
<1>1. e \in Events
  BY <1>0 DEF RunRows
<1>2. Attempts(e)' = Attempts(e)
  BY AttemptsCount
<1>3. Attempts(runs[r].event)' = Attempts(e)
  BY <1>2 DEF Attempts
<1>4. /\ runs[r].attempt \in 1..Attempts(e) /\ dedupe[e].state # "absent"
      /\ runs[r].input = dedupe[e].input
      /\ dedupe[e].run = r => runs[r].attempt = Attempts(e)
      /\ \A q \in Runs : q # r /\ runs[q].event = e => runs[q].attempt # runs[r].attempt
  BY DEF AttemptsNumbered
<1>5. runs'[r].event = e /\ runs'[r].attempt = runs[r].attempt /\ runs'[r].input = runs[r].input
  OBVIOUS
<1>6. \A q \in Runs : runs'[q].event = e => runs[q].event = e /\ runs'[q].attempt = runs[q].attempt
  OBVIOUS
<1> HIDE DEF e
<1>7. /\ dedupe'[e].run = dedupe[e].run /\ dedupe'[e].input = dedupe[e].input
      /\ dedupe'[e].state # "absent"
  BY <1>1, <1>4
<1> QED
  BY <1>3, <1>4, <1>5, <1>6, <1>7

\* A claim adds the next number: the event is not completed, so the run of its
\* dedupe row may be replaced, and its input is the one that was claimed before.
LEMMA NumbersGrow ==
  ASSUME IInv, AttemptsNumbered,
         NEW r \in Runs, NEW e \in Events, NEW i \in Inputs, NEW d \in Leases,
         ClaimWorkflow(r, e, i, d)
  PROVE  AttemptsNumbered'
<1>1. /\ runs[r].event = NoEvent /\ e # NoEvent
      /\ \A q \in Runs : runs[q] \in RunRows
  BY NullsAssumption DEF ClaimWorkflow, IInv, RowsAgree, TypeOK
<1>2. /\ runs'[r].event = e /\ runs'[r].input = i /\ runs'[r].attempt = Attempts(e) + 1
      /\ Attempts(e) \in Nat
  BY AttemptsIsNat DEF ClaimWorkflow, NewRun
<1>3. ASSUME NEW q \in Runs, q # r
      PROVE  /\ runs'[q].event = runs[q].event /\ runs'[q].input = runs[q].input
             /\ runs'[q].attempt = runs[q].attempt
  <2>1. runs'[q] = runs[q] \/ runs'[q] = [runs[q] EXCEPT !.status = "cancelled"]
    BY <1>3 DEF ClaimWorkflow
  <2> QED
    BY <2>1, <1>1 DEF RunRows
<1>4. /\ dedupe'[e].state = "in_flight" /\ dedupe'[e].run = r
      /\ dedupe'[e].input = IF dedupe[e].state = "absent" THEN i ELSE dedupe[e].input
      /\ \A f \in Events : f # e => dedupe'[f] = dedupe[f]
  BY DEF ClaimWorkflow, ClaimGranted, IInv, TypeOK, InFlightRow
<1>5. dedupe'[e].input = i
  BY <1>4 DEF ClaimWorkflow, ClaimGranted, InputChanged
<1>6. Attempts(e)' = Attempts(e) + 1
  BY <1>1, <1>2, <1>3, AttemptsGrow
<1> SUFFICES ASSUME NEW q \in Runs, runs'[q].event # NoEvent
             PROVE  /\ runs'[q].attempt \in 1..Attempts(runs[q].event)'
                    /\ dedupe'[runs'[q].event].state # "absent"
                    /\ runs'[q].input = dedupe'[runs'[q].event].input
                    /\ dedupe'[runs'[q].event].run = q
                         => runs'[q].attempt = Attempts(runs[q].event)'
                    /\ \A p \in Runs : p # q /\ runs'[p].event = runs'[q].event
                                         => runs'[p].attempt # runs'[q].attempt
  BY DEF AttemptsNumbered
<1>7. \A p \in Runs : p # r /\ runs[p].event = e =>
        /\ runs[p].attempt \in 1..Attempts(e) /\ dedupe[e].state # "absent"
        /\ runs[p].input = dedupe[e].input
  BY <1>1 DEF AttemptsNumbered
<1>8. CASE q = r
  <2>1. Attempts(runs[q].event)' = Attempts(e) + 1
    BY <1>2, <1>6, <1>8 DEF Attempts
  <2>2. \A p \in Runs : p # q /\ runs'[p].event = e => runs'[p].attempt \in 1..Attempts(e)
    BY <1>3, <1>7, <1>8
  <2> QED
    BY <2>1, <2>2, <1>2, <1>4, <1>5, <1>8
<1>9. CASE q # r /\ runs'[q].event = e
  <2>1. Attempts(runs[q].event)' = Attempts(e) + 1
    BY <1>6, <1>9 DEF Attempts
  <2>2. runs[q].event = e /\ runs[q].attempt \in 1..Attempts(e)
        /\ runs[q].input = dedupe[e].input /\ dedupe[e].state # "absent"
    BY <1>3, <1>7, <1>9
  <2>3. \A p \in Runs : p # q /\ runs'[p].event = e => runs'[p].attempt # runs[q].attempt
    BY <2>2, <1>1, <1>2, <1>3 DEF AttemptsNumbered
  <2> QED
    BY <2>1, <2>2, <2>3, <1>2, <1>3, <1>4, <1>9
<1>10. CASE q # r /\ runs'[q].event # e
  <2>0. PICK f \in Events : f = runs[q].event
    BY <1>1, <1>3, <1>10 DEF RunRows
  <2>1. runs'[q].event = f /\ f # e /\ f # NoEvent
    BY <2>0, <1>3, <1>10
  <2>2. \A p \in Runs : runs'[p].event = f <=> runs[p].event = f
    BY <2>1, <1>1, <1>2, <1>3
  <2>3. Attempts(runs[q].event)' = Attempts(f)
    <3>1. Attempts(f)' = Attempts(f)
      BY <2>2, AttemptsCount
    <3> QED
      BY <2>1, <3>1 DEF Attempts
  <2>4. /\ runs[q].attempt \in 1..Attempts(f) /\ dedupe[f].state # "absent"
        /\ runs[q].input = dedupe[f].input
        /\ dedupe[f].run = q => runs[q].attempt = Attempts(f)
        /\ \A p \in Runs : p # q /\ runs[p].event = f => runs[p].attempt # runs[q].attempt
    BY <2>0, <2>1 DEF AttemptsNumbered
  <2>5. \A p \in Runs : p # q /\ runs'[p].event = f => runs'[p].attempt # runs'[q].attempt
    BY <2>1, <2>4, <1>1, <1>2, <1>3, <1>10
  <2> QED
    BY <2>1, <2>3, <2>4, <2>5, <1>3, <1>4, <1>10
<1> QED
  BY <1>8, <1>9, <1>10

\* Every step keeps the numbers: only a claim and a preflight record write one.
LEMMA NumbersNext == IInv /\ AttemptsNumbered /\ [Next]_vars => AttemptsNumbered'
<1> SUFFICES ASSUME IInv, AttemptsNumbered, [Next]_vars PROVE AttemptsNumbered'
  OBVIOUS
<1>w. /\ runs \in [Runs -> RunRows] /\ dedupe \in [Events -> DedupeRows]
      /\ \A q \in Runs : runs[q] \in RunRows
      /\ \A e \in Events : dedupe[e] \in DedupeRows
  BY DEF IInv, TypeOK
<1>done. ASSUME NEW r \in Runs, ClaimHeld(r), CompleteDedupeAndCursor(r)
         PROVE  \A e \in Events :
                  /\ dedupe'[e].run = dedupe[e].run /\ dedupe'[e].input = dedupe[e].input
                  /\ dedupe[e].state # "absent" => dedupe'[e].state # "absent"
  <2>1. runs[r].event \in Events
    BY <1>done, HolderFacts
  <2> QED
    BY <1>done, <1>w, <2>1 DEF CompleteDedupeAndCursor, DedupeRows
<1>1. CASE Configure
  <2>1. runs' = runs /\ dedupe' = dedupe
    BY <1>1 DEF Configure, SetWorkflowEnabled, UpsertWorkflow
  <2> QED
    BY <2>1, NumbersKept
<1>2. CASE Claim
  BY <1>2, NumbersGrow DEF Claim
<1>3. CASE Fail
  <2> SUFFICES ASSUME NEW r \in Runs, NEW status \in Unsuccessful,
                      FinishUnsuccessfulRun(r, status)
               PROVE  AttemptsNumbered'
    BY <1>3 DEF Fail
  <2>1. runs[r].event \in Events
    BY HolderFacts DEF FinishUnsuccessfulRun
  <2>2. \A q \in Runs : /\ runs'[q].event = runs[q].event /\ runs'[q].input = runs[q].input
                        /\ runs'[q].attempt = runs[q].attempt
    BY <1>w DEF FinishUnsuccessfulRun, RunRows
  <2>3. \A e \in Events :
           /\ dedupe'[e].run = dedupe[e].run /\ dedupe'[e].input = dedupe[e].input
           /\ dedupe[e].state # "absent" => dedupe'[e].state # "absent"
    <3>1. dedupe' = dedupe \/ dedupe' = [dedupe EXCEPT ![runs[r].event].state = "failed"]
      BY DEF FinishUnsuccessfulRun
    <3> QED
      BY <3>1, <2>1, <1>w DEF DedupeRows
  <2> QED
    BY <2>2, <2>3, NumbersKept
<1>4. CASE NoAction
  <2> SUFFICES ASSUME NEW r \in Runs, NEW meta \in Metas, CompleteNoAction(r, meta)
               PROVE  AttemptsNumbered'
    BY <1>4 DEF NoAction
  <2>1. \A q \in Runs : /\ runs'[q].event = runs[q].event /\ runs'[q].input = runs[q].input
                        /\ runs'[q].attempt = runs[q].attempt
    BY <1>w DEF CompleteNoAction, RunRows
  <2> QED
    BY <2>1, <1>done, NumbersKept DEF CompleteNoAction
<1>5. CASE Intend
  <2> SUFFICES ASSUME NEW r \in Runs, NEW request \in Requests, NEW contents \in SUBSET Contents,
                      NEW meta \in Metas, PersistApprovalIntent(r, request, contents, meta)
               PROVE  AttemptsNumbered'
    BY <1>5 DEF Intend
  <2>1. dedupe' = dedupe
        /\ \A q \in Runs : /\ runs'[q].event = runs[q].event /\ runs'[q].input = runs[q].input
                           /\ runs'[q].attempt = runs[q].attempt
    BY <1>w DEF PersistApprovalIntent, RunRows
  <2> QED
    BY <2>1, NumbersKept
<1>6. CASE Stage
  <2> SUFFICES ASSUME NEW r \in Runs, NEW e \in Events, NEW issue \in Issues, NEW meta \in Metas,
                      CompleteAwaitingApproval(r, e, issue, meta)
               PROVE  AttemptsNumbered'
    BY <1>6 DEF Stage
  <2>1. \A q \in Runs : /\ runs'[q].event = runs[q].event /\ runs'[q].input = runs[q].input
                        /\ runs'[q].attempt = runs[q].attempt
    BY <1>w DEF CompleteAwaitingApproval, RunRows
  <2> QED
    BY <2>1, <1>done, NumbersKept DEF CompleteAwaitingApproval
<1>7. CASE Preflighted
  <2> SUFFICES ASSUME NEW r \in Runs, NEW status \in Preflight, RecordTerminalRun(r, status)
               PROVE  AttemptsNumbered'
    BY <1>7 DEF Preflighted
  <2>1. runs[r].event = NoEvent /\ dedupe' = dedupe
    BY DEF RecordTerminalRun, IInv, RowsAgree
  <2>2. \A q \in Runs :
          /\ runs'[q].event = runs[q].event
          /\ runs[q].event # NoEvent =>
               runs'[q].attempt = runs[q].attempt /\ runs'[q].input = runs[q].input
    BY <2>1, <1>w DEF RecordTerminalRun, RunRows
  <2> QED
    BY <2>1, <2>2, NumbersKept
<1>8. CASE Tick \/ UNCHANGED vars
  <2>1. runs' = runs /\ dedupe' = dedupe
    BY <1>8 DEF Tick, vars
  <2> QED
    BY <2>1, NumbersKept
<1> QED
  BY <1>1, <1>2, <1>3, <1>4, <1>5, <1>6, <1>7, <1>8 DEF Next

\* The successful run of an event is the one its dedupe row names, so the last one.
LEMMA NumbersOrder == IInv /\ AttemptsNumbered => AttemptsInOrder
<1> SUFFICES ASSUME IInv, AttemptsNumbered,
                    NEW q \in Runs, NEW r \in Runs,
                    runs[q].event = runs[r].event, runs[q].event # NoEvent, q # r
             PROVE  /\ runs[q].input = runs[r].input
                    /\ runs[q].attempt # runs[r].attempt
                    /\ runs[q].attempt \in 1..Attempts(runs[q].event)
                    /\ runs[q].attempt < runs[r].attempt => runs[q].status \notin Succeeded
  BY DEF AttemptsInOrder
<1>1. /\ runs[q].attempt \in 1..Attempts(runs[q].event)
      /\ runs[r].attempt \in 1..Attempts(runs[q].event)
      /\ runs[q].input = runs[r].input /\ runs[q].attempt # runs[r].attempt
      /\ dedupe[runs[q].event].run = q => runs[q].attempt = Attempts(runs[q].event)
  BY DEF AttemptsNumbered
<1>2. Attempts(runs[q].event) \in Nat
  BY AttemptsIsNat
<1>3. runs[q].event \in Events
  <2>1. runs[q] \in RunRows
    BY DEF IInv, TypeOK
  <2> QED
    BY <2>1 DEF RunRows
<1>4. runs[q].status \in Succeeded => dedupe[runs[q].event].run = q
  BY <1>3 DEF IInv, CompletedByOneRun
<1> QED
  BY <1>1, <1>2, <1>4

\* An attempt that another one has replaced never succeeds, and the attempts of an
\* event are numbered 1, 2, ... over one input, for any number of runs and whatever
\* evictions and retries came between (ClaimWorkflow, workflow.go 159-283).
THEOREM AttemptsStayInOrder == Spec => []AttemptsInOrder
<1>1. Init => AttemptsNumbered
  BY DEF Init, AttemptsNumbered, NoRunRow
<1> QED
  BY <1>1, NumbersNext, NumbersOrder, TablesAgree, PTL DEF Spec

-----------------------------------------------------------------------------
(* The audit trail.                                                        *)

\* The rows of audit_events for a run, by the columns of the run and whether it
\* stored an intent.
Trail(row, noted) ==
  IF row.event = NoEvent THEN IF row.status \in Terminal THEN <<row.status>> ELSE <<>>
  ELSE IF noted
       THEN IF row.status \in Terminal THEN <<"claimed", "intent_created", row.status>>
            ELSE <<"claimed", "intent_created">>
       ELSE IF row.status \in Terminal THEN <<"claimed", row.status>> ELSE <<"claimed">>

\* The run stored the intent of its event.
Noted(r) ==
  /\ runs[r].event # NoEvent
  /\ approvals[runs[r].event].status # "absent"
  /\ audit[r] = Trail(runs[r], TRUE)

TrailOf(r) ==
  /\ audit[r] = Trail(runs[r], FALSE) \/ Noted(r)
  /\ (\E a \in DOMAIN assets : assets[a].run = r) => Noted(r)
  /\ (\E e \in Events : approvals[e].status = "creating" /\ approvals[e].run = r) => Noted(r)
  /\ Len(errors[r]) = IF runs[r].event # NoEvent /\ runs[r].status \in Unsuccessful THEN 1 ELSE 0

TrailsAgree == \A r \in Runs : TrailOf(r)

\* A list is the tuple of its elements.
LEMMA PairOf ==
  ASSUME NEW S, NEW s \in Seq(S), NEW x \in S, NEW y \in S, Len(s) = 2, s[1] = x, s[2] = y
  PROVE  s = <<x, y>>
<1>1. <<x, y>> \in Seq(S) /\ Len(<<x, y>>) = 2 /\ <<x, y>>[1] = x /\ <<x, y>>[2] = y
  OBVIOUS
<1>2. \A i \in 1..Len(s) : s[i] = <<x, y>>[i]
  BY <1>1
<1>3. <<x, y>> \in Seq(S) /\ Len(s) = Len(<<x, y>>)
  BY <1>1
<1> QED
  BY <1>2, <1>3, SeqEqual, Zenon

LEMMA TripleOf ==
  ASSUME NEW S, NEW s \in Seq(S), NEW x \in S, NEW y \in S, NEW z \in S,
         Len(s) = 3, s[1] = x, s[2] = y, s[3] = z
  PROVE  s = <<x, y, z>>
<1>1. /\ <<x, y, z>> \in Seq(S) /\ Len(<<x, y, z>>) = 3
      /\ <<x, y, z>>[1] = x /\ <<x, y, z>>[2] = y /\ <<x, y, z>>[3] = z
  OBVIOUS
<1>2. \A i \in 1..Len(s) : s[i] = <<x, y, z>>[i]
  BY <1>1
<1>3. <<x, y, z>> \in Seq(S) /\ Len(s) = Len(<<x, y, z>>)
  BY <1>1
<1> QED
  BY <1>2, <1>3, SeqEqual, Zenon

\* Appending a row to the lists that a trail can be, and putting a trail together.
LEMMA ShortLists ==
  ASSUME NEW S, NEW x \in S, NEW y \in S, NEW z \in S
  PROVE  /\ Append(<<>>, x) = <<x>>
         /\ Append(<<x>>, y) = <<x, y>> /\ <<x>> \o <<y>> = <<x, y>>
         /\ Append(<<x, y>>, z) = <<x, y, z>> /\ <<x, y>> \o <<z>> = <<x, y, z>>
         /\ <<x>> \o <<>> = <<x>> /\ <<x, y>> \o <<>> = <<x, y>>
<1>1. <<x>> \in Seq(S) /\ Len(<<x>>) = 1 /\ <<x>>[1] = x
  OBVIOUS
<1>2. /\ <<x, y>> \in Seq(S) /\ Len(<<x, y>>) = 2
      /\ <<x, y>>[1] = x /\ <<x, y>>[2] = y
  OBVIOUS
<1>3. Append(<<>>, x) = <<x>>
  OBVIOUS
<1>4. Append(<<x>>, y) = <<x, y>>
  <2>1. /\ Append(<<x>>, y) \in Seq(S) /\ Len(Append(<<x>>, y)) = 2
        /\ Append(<<x>>, y)[1] = x /\ Append(<<x>>, y)[2] = y
    BY <1>1, AppendProperties
  <2> QED
    BY <2>1, PairOf
<1>5. Append(<<x, y>>, z) = <<x, y, z>>
  <2>1. /\ Append(<<x, y>>, z) \in Seq(S) /\ Len(Append(<<x, y>>, z)) = 3
        /\ Append(<<x, y>>, z)[1] = x /\ Append(<<x, y>>, z)[2] = y
        /\ Append(<<x, y>>, z)[3] = z
    BY <1>2, AppendProperties
  <2> QED
    BY <2>1, TripleOf
<1>6. <<x>> \o <<y>> = <<x, y>>
  BY <1>1, <1>4, AppendIsConcat
<1>7. <<x, y>> \o <<z>> = <<x, y, z>>
  BY <1>2, <1>5, AppendIsConcat
<1>8. <<x>> \o <<>> = <<x>> /\ <<x, y>> \o <<>> = <<x, y>>
  BY <1>1, <1>2, ConcatEmptySeq
<1> QED
  BY <1>3, <1>4, <1>5, <1>6, <1>7, <1>8

\* The ending of a run is one more row on its trail.
LEMMA TrailEnds ==
  ASSUME NEW row, NEW ended, NEW noted \in BOOLEAN,
         ended.event = row.event, row.event # NoEvent,
         row.status \notin Terminal, ended.status \in Terminal
  PROVE  Append(Trail(row, noted), ended.status) = Trail(ended, noted)
<1>1. "claimed" \in AuditRows /\ "intent_created" \in AuditRows /\ ended.status \in AuditRows
  BY DEF AuditRows
<1>2. /\ Append(<<"claimed">>, ended.status) = <<"claimed", ended.status>>
      /\ Append(<<"claimed", "intent_created">>, ended.status)
           = <<"claimed", "intent_created", ended.status>>
  BY <1>1, ShortLists
<1> QED
  BY <1>2 DEF Trail

\* A step that leaves the status, the event and the rows of a run alone.
LEMMA TrailKept ==
  ASSUME NEW r \in Runs, TrailOf(r), runs[r].event \in Events \cup {NoEvent},
         runs'[r].event = runs[r].event, runs'[r].status = runs[r].status,
         audit'[r] = audit[r], errors'[r] = errors[r],
         \A e \in Events : approvals[e].status # "absent" => approvals'[e].status # "absent",
         (\E a \in DOMAIN assets' : assets'[a].run = r)
           => (\E a \in DOMAIN assets : assets[a].run = r),
         (\E e \in Events : approvals'[e].status = "creating" /\ approvals'[e].run = r)
           => (\E e \in Events : approvals[e].status = "creating" /\ approvals[e].run = r)
  PROVE  TrailOf(r)'
<1>1. Trail(runs'[r], TRUE) = Trail(runs[r], TRUE) /\ Trail(runs'[r], FALSE) = Trail(runs[r], FALSE)
  BY DEF Trail
<1>2. Noted(r) => Noted(r)'
  BY <1>1 DEF Noted
<1> QED
  BY <1>1, <1>2 DEF TrailOf

\* A step that ends a run that has an event.
LEMMA TrailEnded ==
  ASSUME NEW r \in Runs, TrailOf(r), runs[r].event \in Events, NoEvent \notin Events,
         runs[r].status = "running", runs'[r].status \in Terminal,
         runs'[r].event = runs[r].event,
         audit'[r] = Append(audit[r], runs'[r].status),
         errors[r] \in Seq(ErrorRows),
         IF runs'[r].status \in Unsuccessful
           THEN \E row \in ErrorRows : errors'[r] = Append(errors[r], row)
           ELSE errors'[r] = errors[r],
         \A e \in Events : approvals[e].status # "absent" => approvals'[e].status # "absent",
         (\E a \in DOMAIN assets' : assets'[a].run = r)
           => (\E a \in DOMAIN assets : assets[a].run = r),
         (\E e \in Events : approvals'[e].status = "creating" /\ approvals'[e].run = r)
           => (\E e \in Events : approvals[e].status = "creating" /\ approvals[e].run = r)
  PROVE  TrailOf(r)'
<1>1. runs[r].status \notin Terminal /\ runs[r].event # NoEvent
  BY DEF Terminal, Succeeded, Unsuccessful, Preflight
<1>2. /\ Append(Trail(runs[r], TRUE), runs'[r].status) = Trail(runs'[r], TRUE)
      /\ Append(Trail(runs[r], FALSE), runs'[r].status) = Trail(runs'[r], FALSE)
  BY <1>1, TrailEnds
<1>3. Noted(r) => Noted(r)'
  BY <1>2 DEF Noted
<1>4. audit'[r] = Trail(runs'[r], FALSE) \/ Noted(r)'
  BY <1>2, <1>3 DEF TrailOf
<1>5. Len(errors'[r]) = IF runs'[r].status \in Unsuccessful THEN 1 ELSE 0
  <2>1. Len(errors[r]) = 0
    BY <1>1 DEF TrailOf, Unsuccessful
  <2>2. \A row \in ErrorRows : Len(Append(errors[r], row)) = 1
    BY <2>1, AppendProperties
  <2> QED
    BY <2>1, <2>2
<1> QED
  BY <1>1, <1>3, <1>4, <1>5 DEF TrailOf

\* The types the lemmas below use.
LEMMA TrailTypes ==
  ASSUME IInv
  PROVE  /\ \A q \in Runs : runs[q] \in RunRows /\ errors[q] \in Seq(ErrorRows)
         /\ \A q \in Runs : runs[q].event \in Events \cup {NoEvent}
         /\ \A q \in Runs : runs[q].status = "running" => runs[q].event \in Events
         /\ \A q \in Runs : runs[q].status = "absent" => runs[q].event = NoEvent
         /\ \A e \in Events : approvals[e] \in ApprovalRows
         /\ NoEvent \notin Events
<1>1. \A q \in Runs : runs[q] \in RunRows /\ errors[q] \in Seq(ErrorRows)
  BY DEF IInv, TypeOK
<1>2. \A q \in Runs : runs[q].event \in Events \cup {NoEvent}
  BY <1>1 DEF RunRows
<1>3. \A e \in Events : approvals[e] \in ApprovalRows
  BY DEF IInv, TypeOK
<1>4. /\ \A q \in Runs : runs[q].status = "running" => runs[q].event \in Events
      /\ \A q \in Runs : runs[q].status = "absent" => runs[q].event = NoEvent
  BY DEF IInv, RowsAgree
<1> QED
  BY <1>1, <1>2, <1>3, <1>4, NullsAssumption

\* A uuid that is not drawn has no rows, and no approval and no asset names it.
LEMMA TrailAbsent ==
  ASSUME IInv, NEW r \in Runs, TrailOf(r), runs[r].status = "absent"
  PROVE  /\ audit[r] = <<>> /\ Len(errors[r]) = 0
         /\ ~\E a \in DOMAIN assets : assets[a].run = r
         /\ ~\E e \in Events : approvals[e].status = "creating" /\ approvals[e].run = r
<1>1. runs[r].event = NoEvent
  BY TrailTypes
<1>2. ~Noted(r)
  BY <1>1 DEF Noted
<1>3. Trail(runs[r], FALSE) = <<>>
  BY <1>1 DEF Trail, Terminal, Succeeded, Unsuccessful, Preflight
<1> QED
  BY <1>1, <1>2, <1>3 DEF TrailOf

LEMMA TrailClaim ==
  ASSUME IInv, TrailsAgree,
         NEW r \in Runs, NEW e \in Events, NEW i \in Inputs, NEW d \in Leases,
         ClaimWorkflow(r, e, i, d)
  PROVE  TrailsAgree'
<1> DEFINE s == e[1]
<1>1. approvals' = approvals /\ assets' = assets
  BY DEF ClaimWorkflow
<1>2. TrailOf(r)'
  <2>1. /\ audit[r] = <<>> /\ Len(errors[r]) = 0 /\ runs[r].status = "absent"
        /\ ~\E a \in DOMAIN assets : assets[a].run = r
        /\ ~\E f \in Events : approvals[f].status = "creating" /\ approvals[f].run = r
    BY TrailAbsent DEF TrailsAgree, ClaimWorkflow
  <2>2. r \notin Evicted(s)
    BY <2>1 DEF Evicted
  <2>3. /\ runs'[r].event = e /\ runs'[r].status = "running"
        /\ audit'[r] = Append(audit[r], "claimed") /\ errors'[r] = errors[r]
    BY <2>2 DEF ClaimWorkflow, NewRun
  <2>4. audit'[r] = <<"claimed">>
    BY <2>1, <2>3
  <2>5. Trail(runs'[r], FALSE) = <<"claimed">>
    BY <2>3, TrailTypes DEF Trail, Terminal, Succeeded, Unsuccessful, Preflight
  <2>6. "running" \notin Unsuccessful
    BY DEF Unsuccessful
  <2> QED
    BY <1>1, <2>1, <2>3, <2>4, <2>5, <2>6 DEF TrailOf
<1>3. ASSUME NEW q \in Runs, q # r, q \in Evicted(s) PROVE TrailOf(q)'
  <2>1. runs[q].status = "running" /\ runs[q].event \in Events /\ errors[q] \in Seq(ErrorRows)
    BY <1>3, TrailTypes DEF Evicted
  <2>2. runs'[q] = [runs[q] EXCEPT !.status = "cancelled"] /\ runs[q] \in RunRows
    BY <1>3, TrailTypes DEF ClaimWorkflow
  <2>3. /\ runs'[q].event = runs[q].event /\ runs'[q].status = "cancelled"
        /\ audit'[q] = Append(audit[q], "cancelled")
    BY <1>3, <2>2 DEF ClaimWorkflow, RunRows
  <2>4. \E row \in ErrorRows : errors'[q] = Append(errors[q], row)
    <3>1. [code |-> "lease_expired", retryable |-> TRUE] \in ErrorRows
      BY DEF ErrorRows
    <3>2. errors'[q] = Append(errors[q], [code |-> "lease_expired", retryable |-> TRUE])
      BY <1>3 DEF ClaimWorkflow
    <3> QED
      BY <3>1, <3>2
  <2>5. "cancelled" \in Terminal /\ "cancelled" \in Unsuccessful
    BY DEF Terminal, Unsuccessful
  <2>6. TrailOf(q)
    BY DEF TrailsAgree
  <2> QED
    BY <1>1, <2>1, <2>3, <2>4, <2>5, <2>6, TrailTypes, TrailEnded
<1>4. ASSUME NEW q \in Runs, q # r, q \notin Evicted(s) PROVE TrailOf(q)'
  <2>1. runs'[q] = runs[q] /\ audit'[q] = audit[q] /\ errors'[q] = errors[q]
    BY <1>4 DEF ClaimWorkflow
  <2> QED
    BY <1>1, <2>1, TrailTypes, TrailKept DEF TrailsAgree
<1> QED
  BY <1>2, <1>3, <1>4 DEF TrailsAgree

\* A finalizer of run r: it appends the status to the trail, and an error row when
\* the run did not succeed.
LEMMA TrailFinish ==
  ASSUME IInv, TrailsAgree, NEW r \in Runs, ClaimHeld(r),
         NEW status \in Succeeded \cup Unsuccessful,
         runs'[r].status = status, runs'[r].event = runs[r].event,
         \A q \in Runs : q # r => runs'[q] = runs[q],
         audit' = [audit EXCEPT ![r] = Append(@, status)],
         IF status \in Unsuccessful
           THEN errors' = [errors EXCEPT ![r] = Append(@, [code |-> status,
                                                          retryable |-> status = "failed"])]
           ELSE errors' = errors,
         assets' = assets,
         \A e \in Events : approvals[e].status # "absent" => approvals'[e].status # "absent",
         \A e \in Events : approvals'[e].status = "creating" => approvals'[e] = approvals[e]
  PROVE  TrailsAgree'
<1>1. runs[r].status = "running" /\ runs[r].event \in Events
  BY HolderFacts
<1>2. /\ audit \in [Runs -> Seq(AuditRows)] /\ errors \in [Runs -> Seq(ErrorRows)]
  BY DEF IInv, TypeOK
<1>3. TrailOf(r)'
  <2>1. audit'[r] = Append(audit[r], status)
    BY <1>2
  <2>2. IF status \in Unsuccessful
        THEN \E row \in ErrorRows : errors'[r] = Append(errors[r], row)
        ELSE errors'[r] = errors[r]
    <3>1. CASE status \in Unsuccessful
      <4> DEFINE row == [code |-> status, retryable |-> status = "failed"]
      <4>1. row \in ErrorRows
        BY <3>1 DEF ErrorRows, Unsuccessful
      <4>2. errors'[r] = Append(errors[r], row)
        BY <3>1, <1>2
      <4> QED
        BY <3>1, <4>1, <4>2
    <3> QED
      BY <3>1
  <2>3. status \in Terminal
    BY DEF Terminal
  <2>4. TrailOf(r)
    BY DEF TrailsAgree
  <2> QED
    BY <1>1, <1>2, <2>1, <2>2, <2>3, <2>4, TrailTypes, TrailEnded
<1>4. ASSUME NEW q \in Runs, q # r PROVE TrailOf(q)'
  <2>1. runs'[q] = runs[q] /\ audit'[q] = audit[q] /\ errors'[q] = errors[q]
    BY <1>2, <1>4
  <2>2. TrailOf(q)
    BY DEF TrailsAgree
  <2> QED
    BY <2>1, <2>2, TrailTypes, TrailKept
<1> QED
  BY <1>3, <1>4 DEF TrailsAgree

LEMMA TrailIntend ==
  ASSUME IInv, TrailsAgree,
         NEW r \in Runs, NEW request \in Requests, NEW contents \in SUBSET Contents,
         NEW meta \in Metas, PersistApprovalIntent(r, request, contents, meta)
  PROVE  TrailsAgree'
<1> DEFINE e == runs[r].event
<1>1. runs[r].status = "running" /\ e \in Events /\ e # NoEvent
  BY HolderFacts, NullsAssumption DEF PersistApprovalIntent
<1>2. /\ audit \in [Runs -> Seq(AuditRows)] /\ approvals \in [Events -> ApprovalRows]
      /\ runs \in [Runs -> RunRows]
  BY DEF IInv, TypeOK
<1>3. /\ approvals[e].status = "absent" /\ approvals'[e].status = "creating"
      /\ approvals'[e].run = r
      /\ \A f \in Events : f # e => approvals'[f] = approvals[f]
  BY <1>1, <1>2 DEF PersistApprovalIntent
<1>4. \A q \in Runs : runs'[q].event = runs[q].event /\ runs'[q].status = runs[q].status
  BY <1>2 DEF PersistApprovalIntent, RunRows
<1>5. TrailOf(r)'
  <2>1. ~Noted(r)
    BY <1>3 DEF Noted
  <2>2. TrailOf(r)
    BY DEF TrailsAgree
  <2>3. audit[r] = <<"claimed">> /\ Len(errors[r]) = 0
    BY <1>1, <2>1, <2>2 DEF TrailOf, Trail, Terminal, Succeeded, Unsuccessful, Preflight
  <2>4. audit'[r] = Append(<<"claimed">>, "intent_created") /\ errors' = errors
    BY <1>2, <2>3 DEF PersistApprovalIntent
  <2>5. audit'[r] = <<"claimed", "intent_created">>
    <3>1. "claimed" \in AuditRows /\ "intent_created" \in AuditRows
      BY DEF AuditRows
    <3> QED
      BY <2>4, <3>1, ShortLists
  <2>6. Trail(runs'[r], TRUE) = <<"claimed", "intent_created">>
    BY <1>1, <1>4 DEF Trail, Terminal, Succeeded, Unsuccessful, Preflight
  <2>7. Noted(r)'
    BY <1>1, <1>3, <1>4, <2>5, <2>6 DEF Noted
  <2>8. "running" \notin Unsuccessful
    BY DEF Unsuccessful
  <2> QED
    BY <1>1, <1>4, <2>3, <2>4, <2>7, <2>8 DEF TrailOf
<1>6. ASSUME NEW q \in Runs, q # r PROVE TrailOf(q)'
  <2>1. audit'[q] = audit[q] /\ errors'[q] = errors[q]
    BY <1>2, <1>6 DEF PersistApprovalIntent
  <2>2. (\E a \in DOMAIN assets' : assets'[a].run = q)
          => (\E a \in DOMAIN assets : assets[a].run = q)
    <3>1. /\ DOMAIN assets' = DOMAIN assets
          /\ \A a \in DOMAIN assets : assets'[a] = [approval |-> e, run |-> r] \/ assets'[a] = assets[a]
      BY DEF PersistApprovalIntent
    <3> QED
      BY <3>1, <1>6
  <2>3. \A f \in Events : approvals[f].status # "absent" => approvals'[f].status # "absent"
    BY <1>3
  <2>4. (\E f \in Events : approvals'[f].status = "creating" /\ approvals'[f].run = q)
          => (\E f \in Events : approvals[f].status = "creating" /\ approvals[f].run = q)
    BY <1>3, <1>6
  <2>5. TrailOf(q) /\ runs[q].event \in Events \cup {NoEvent}
    BY TrailTypes DEF TrailsAgree
  <2> QED
    BY <1>4, <2>1, <2>2, <2>3, <2>4, <2>5, TrailKept
<1> QED
  BY <1>5, <1>6 DEF TrailsAgree

LEMMA TrailPreflight ==
  ASSUME IInv, TrailsAgree, NEW r \in Runs, NEW status \in Preflight, RecordTerminalRun(r, status)
  PROVE  TrailsAgree'
<1>1. UNCHANGED <<approvals, assets, errors>> /\ runs[r].status = "absent"
      /\ runs[r].event = NoEvent
  BY TrailTypes DEF RecordTerminalRun
<1>2. audit \in [Runs -> Seq(AuditRows)] /\ runs \in [Runs -> RunRows]
  BY DEF IInv, TypeOK
<1>3. TrailOf(r)'
  <2>1. /\ audit[r] = <<>> /\ Len(errors[r]) = 0
        /\ ~\E a \in DOMAIN assets : assets[a].run = r
        /\ ~\E f \in Events : approvals[f].status = "creating" /\ approvals[f].run = r
    BY <1>1, TrailAbsent DEF TrailsAgree
  <2>2. runs'[r].status = status /\ runs'[r].event = NoEvent
    BY <1>1, <1>2 DEF RecordTerminalRun, RunRows
  <2>3. audit'[r] = <<status>>
    BY <1>2, <2>1 DEF RecordTerminalRun
  <2>4. Trail(runs'[r], FALSE) = <<status>>
    BY <2>2 DEF Trail, Terminal
  <2> QED
    BY <1>1, <2>1, <2>2, <2>3, <2>4 DEF TrailOf
<1>4. ASSUME NEW q \in Runs, q # r PROVE TrailOf(q)'
  <2>1. runs'[q] = runs[q] /\ audit'[q] = audit[q] /\ errors'[q] = errors[q]
    BY <1>1, <1>2, <1>4 DEF RecordTerminalRun
  <2>2. TrailOf(q)
    BY DEF TrailsAgree
  <2> QED
    BY <1>1, <2>1, <2>2, TrailTypes, TrailKept
<1> QED
  BY <1>3, <1>4 DEF TrailsAgree

\* Every step keeps the trails.
LEMMA TrailsNext == IInv /\ TrailsAgree /\ [Next]_vars => TrailsAgree'
<1> SUFFICES ASSUME IInv, TrailsAgree, [Next]_vars PROVE TrailsAgree'
  OBVIOUS
<1>w. /\ runs \in [Runs -> RunRows] /\ approvals \in [Events -> ApprovalRows]
      /\ \A q \in Runs : runs[q] \in RunRows
  BY DEF IInv, TypeOK
<1>same. ASSUME UNCHANGED <<runs, approvals, assets, errors, audit>> PROVE TrailsAgree'
  BY <1>same DEF TrailsAgree, TrailOf, Noted
<1>1. CASE Configure
  BY <1>1, <1>same DEF Configure, SetWorkflowEnabled, UpsertWorkflow
<1>2. CASE Claim
  BY <1>2, TrailClaim DEF Claim
<1>3. CASE Fail
  <2> SUFFICES ASSUME NEW r \in Runs, NEW status \in Unsuccessful,
                      FinishUnsuccessfulRun(r, status)
               PROVE  TrailsAgree'
    BY <1>3 DEF Fail
  <2>1. /\ runs'[r].status = status /\ runs'[r].event = runs[r].event
        /\ \A q \in Runs : q # r => runs'[q] = runs[q]
    BY <1>w DEF FinishUnsuccessfulRun, RunRows
  <2>2. /\ ClaimHeld(r) /\ approvals' = approvals /\ assets' = assets
        /\ audit' = [audit EXCEPT ![r] = Append(@, status)]
        /\ errors' = [errors EXCEPT ![r] = Append(@, [code |-> status,
                                                      retryable |-> status = "failed"])]
    BY DEF FinishUnsuccessfulRun
  <2> QED
    BY <2>1, <2>2, TrailFinish
<1>4. CASE NoAction
  <2> SUFFICES ASSUME NEW r \in Runs, NEW meta \in Metas, CompleteNoAction(r, meta)
               PROVE  TrailsAgree'
    BY <1>4 DEF NoAction
  <2>1. /\ runs'[r].status = "no_action" /\ runs'[r].event = runs[r].event
        /\ \A q \in Runs : q # r => runs'[q] = runs[q]
    BY <1>w DEF CompleteNoAction, RunRows
  <2>2. "no_action" \in Succeeded \cup Unsuccessful /\ "no_action" \notin Unsuccessful
    BY DEF Succeeded, Unsuccessful
  <2>3. /\ ClaimHeld(r) /\ approvals' = approvals /\ assets' = assets /\ errors' = errors
        /\ audit' = [audit EXCEPT ![r] = Append(@, "no_action")]
    BY DEF CompleteNoAction
  <2> QED
    BY <2>1, <2>2, <2>3, TrailFinish
<1>5. CASE Intend
  BY <1>5, TrailIntend DEF Intend
<1>6. CASE Stage
  <2> SUFFICES ASSUME NEW r \in Runs, NEW e \in Events, NEW issue \in Issues, NEW meta \in Metas,
                      CompleteAwaitingApproval(r, e, issue, meta)
               PROVE  TrailsAgree'
    BY <1>6 DEF Stage
  <2>1. /\ runs'[r].status = "awaiting_approval" /\ runs'[r].event = runs[r].event
        /\ \A q \in Runs : q # r => runs'[q] = runs[q]
    BY <1>w DEF CompleteAwaitingApproval, RunRows
  <2>2. "awaiting_approval" \in Succeeded \cup Unsuccessful
        /\ "awaiting_approval" \notin Unsuccessful
    BY DEF Succeeded, Unsuccessful
  <2>3. /\ ClaimHeld(r) /\ assets' = assets /\ errors' = errors
        /\ audit' = [audit EXCEPT ![r] = Append(@, "awaiting_approval")]
    BY DEF CompleteAwaitingApproval
  <2>4. /\ approvals'[e].status = "awaiting_approval"
        /\ \A f \in Events : f # e => approvals'[f] = approvals[f]
    BY <1>w DEF CompleteAwaitingApproval, ApprovalRows
  <2>5. /\ \A f \in Events : approvals[f].status # "absent" => approvals'[f].status # "absent"
        /\ \A f \in Events : approvals'[f].status = "creating" => approvals'[f] = approvals[f]
    BY <2>4
  <2> QED
    BY <2>1, <2>2, <2>3, <2>5, TrailFinish
<1>7. CASE Preflighted
  BY <1>7, TrailPreflight DEF Preflighted
<1>8. CASE Tick \/ UNCHANGED vars
  BY <1>8, <1>same DEF Tick, vars
<1> QED
  BY <1>1, <1>2, <1>3, <1>4, <1>5, <1>6, <1>7, <1>8 DEF Next

\* The trails are what the property spells out; a set of assets is empty or not.
LEMMA TrailsTell == IInv /\ TrailsAgree => AuditTellsTheRun
<1> SUFFICES ASSUME IInv, TrailsAgree, NEW r \in Runs
             PROVE  LET status == runs[r].status
                        intent == Cardinality({a \in DOMAIN assets : assets[a].run = r})
                        opening == IF runs[r].event = NoEvent THEN <<>> ELSE <<"claimed">>
                        ending  == IF status \in Terminal THEN <<status>> ELSE <<>>
                    IN
                    /\ audit[r] \in {opening \o ending, opening \o <<"intent_created">> \o ending}
                    /\ (intent > 0 \/ \E e \in Events : approvals[e].status = "creating"
                                                         /\ approvals[e].run = r)
                         => audit[r] = opening \o <<"intent_created">> \o ending
                    /\ Len(errors[r]) =
                         IF runs[r].event # NoEvent /\ status \in Unsuccessful THEN 1 ELSE 0
  BY DEF AuditTellsTheRun
<1> DEFINE status  == runs[r].status
           assetsOf == {a \in DOMAIN assets : assets[a].run = r}
           opening == IF runs[r].event = NoEvent THEN <<>> ELSE <<"claimed">>
           ending  == IF status \in Terminal THEN <<status>> ELSE <<>>
<1>1. TrailOf(r)
  BY DEF TrailsAgree
<1>2. /\ "claimed" \in AuditRows /\ "intent_created" \in AuditRows
      /\ status \in Terminal => status \in AuditRows
  BY DEF AuditRows
<1>3. opening \o ending = Trail(runs[r], FALSE)
  <2>1. CASE status \in Terminal
    <3>1. <<"claimed">> \o <<status>> = <<"claimed", status>>
      BY <1>2, <2>1, ShortLists
    <3>2. <<>> \o <<status>> = <<status>>
      BY <1>2, <2>1, ConcatEmptySeq
    <3> QED
      BY <2>1, <3>1, <3>2 DEF Trail
  <2>2. CASE status \notin Terminal
    <3>1. <<"claimed">> \o <<>> = <<"claimed">> /\ <<>> \o <<>> = <<>>
      BY <1>2, ShortLists
    <3> QED
      BY <2>2, <3>1 DEF Trail
  <2> QED
    BY <2>1, <2>2
<1>4. runs[r].event # NoEvent => opening \o <<"intent_created">> \o ending = Trail(runs[r], TRUE)
  <2>1. <<"claimed">> \o <<"intent_created">> = <<"claimed", "intent_created">>
    BY <1>2, ShortLists
  <2>2. <<"claimed", "intent_created">> \o <<>> = <<"claimed", "intent_created">>
    BY <1>2, ShortLists
  <2>3. status \in Terminal =>
          <<"claimed", "intent_created">> \o <<status>> = <<"claimed", "intent_created", status>>
    BY <1>2, ShortLists
  <2> QED
    BY <2>1, <2>2, <2>3 DEF Trail
<1>5. Cardinality(assetsOf) > 0 => \E a \in DOMAIN assets : assets[a].run = r
  <2>1. CASE assetsOf = {}
    <3>1. Cardinality(assetsOf) = 0
      BY <2>1, FS_EmptySet
    <3> QED
      BY <3>1
  <2>2. CASE assetsOf # {}
    BY <2>2
  <2> QED
    BY <2>1, <2>2
<1>6. Noted(r) => audit[r] = opening \o <<"intent_created">> \o ending
  BY <1>4 DEF Noted
<1> HIDE DEF opening, ending, assetsOf
<1>7. /\ audit[r] \in {opening \o ending, opening \o <<"intent_created">> \o ending}
      /\ (Cardinality(assetsOf) > 0 \/ \E e \in Events : approvals[e].status = "creating"
                                                          /\ approvals[e].run = r)
           => audit[r] = opening \o <<"intent_created">> \o ending
      /\ Len(errors[r]) = IF runs[r].event # NoEvent /\ status \in Unsuccessful THEN 1 ELSE 0
  BY <1>1, <1>3, <1>5, <1>6 DEF TrailOf
<1> QED
  BY <1>7 DEF opening, ending, assetsOf

\* The audit trail and the error rows of every run tell what happened to it, for any
\* number of runs, whoever ended it: its own finalizer or the claim that evicted it
\* (insertAudit in every operation of workflow.go, approval.go and terminal_run.go).
THEOREM TrailsTellTheRun == Spec => []AuditTellsTheRun
<1>1. Init => TrailsAgree
  <2> SUFFICES ASSUME Init, NEW r \in Runs PROVE TrailOf(r)
    BY DEF TrailsAgree
  <2>1. runs[r].event = NoEvent /\ runs[r].status = "absent" /\ audit[r] = <<>> /\ errors[r] = <<>>
    BY DEF Init, NoRunRow
  <2>2. \A a \in DOMAIN assets : assets[a].run # r
    BY NullsAssumption DEF Init, NoAsset
  <2>3. \A e \in Events : approvals[e].status # "creating"
    BY DEF Init, NoApproval
  <2>4. Trail(runs[r], FALSE) = <<>>
    BY <2>1 DEF Trail, Terminal, Succeeded, Unsuccessful, Preflight
  <2> QED
    BY <2>1, <2>2, <2>3, <2>4 DEF TrailOf
<1> QED
  BY <1>1, TrailsNext, TrailsTell, TablesAgree, PTL DEF Spec
=============================================================================

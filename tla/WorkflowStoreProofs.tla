------------------------ MODULE WorkflowStoreProofs ------------------------
(***************************************************************************)
(* Theorems about WorkflowStore, for every number of scopes, events, runs  *)
(* and lease durations.                                                    *)
(***************************************************************************)
EXTENDS WorkflowStore, FiniteSetTheorems, TLAPS

\* COUNT(*)+1 over the runs of an event is a positive number: the runs table is
\* finite (ClaimWorkflow numbers an attempt this way).
LEMMA AttemptsIsNat == \A e : Attempts(e) \in Nat
<1> TAKE e
<1>1. {q \in Runs : runs[q].event = e} \subseteq Runs  OBVIOUS
<1>2. IsFiniteSet({q \in Runs : runs[q].event = e})
  BY <1>1, ConstantsAssumption, FS_Subset
<1> QED  BY <1>2, FS_CardinalityType DEF Attempts

\* The empty tables of the schema have their types.
LEMMA TypeInit == Init => TypeOK
<1> SUFFICES ASSUME Init PROVE TypeOK  OBVIOUS
<1>1. errors \in [Runs -> Seq(ErrorRows)] /\ audit \in [Runs -> Seq(AuditRows)]
  BY DEF Init
<1> QED
  BY <1>1 DEF Init, TypeOK, NoRunRow, NoClaimRow, NoDedupeRow, NoApproval, NoAsset, RunRows,
    ClaimRows, DedupeRows, ApprovalRows, AssetRows, RunStatus


\* Closing an event keeps the types of the three tables it writes.
LEMMA TypeCompletion ==
  ASSUME TypeOK, NEW r \in Runs, ClaimHeld(r), CompleteDedupeAndCursor(r)
  PROVE  /\ dedupe' \in [Events -> DedupeRows]
         /\ cursors' \in [Scopes -> Keys \cup {NoKey}]
         /\ claims' \in [Scopes -> ClaimRows]
<1> DEFINE e == runs[r].event
<1>1. e \in Events /\ e[1] \in Scopes /\ e[2] \in Keys
  BY DEF TypeOK, RunRows, ClaimHeld, VerifyClaim, Events
<1>2. dedupe' \in [Events -> DedupeRows]
  <2>1. dedupe[e] \in DedupeRows  BY <1>1 DEF TypeOK
  <2>2. [dedupe[e] EXCEPT !.state = "completed"] \in DedupeRows  BY <2>1 DEF DedupeRows
  <2> QED  BY <1>1, <2>2 DEF TypeOK, CompleteDedupeAndCursor
<1>3. cursors' \in [Scopes -> Keys \cup {NoKey}]
  BY <1>1 DEF TypeOK, CompleteDedupeAndCursor
<1>4. claims' \in [Scopes -> ClaimRows]
  <2>1. NoClaimRow \in ClaimRows  BY DEF NoClaimRow, ClaimRows
  <2> QED  BY <1>1, <2>1 DEF TypeOK, CompleteDedupeAndCursor
<1> QED  BY <1>2, <1>3, <1>4

\* Every operation, and the clock, keeps the types of the tables.
LEMMA TypeNext == TypeOK /\ [Next]_vars => TypeOK'
<1> SUFFICES ASSUME TypeOK, [Next]_vars PROVE TypeOK'  OBVIOUS
<1>held. ASSUME NEW r \in Runs, ClaimHeld(r)
         PROVE  /\ runs[r].event \in Events
                /\ runs[r].event[1] \in Scopes
                /\ runs[r] \in RunRows
  BY <1>held DEF TypeOK, ClaimHeld, VerifyClaim, RunRows, Events
<1>log. ASSUME NEW r \in Runs, NEW a \in AuditRows, audit' = [audit EXCEPT ![r] = Append(@, a)]
        PROVE  audit' \in [Runs -> Seq(AuditRows)]
  BY <1>log DEF TypeOK
<1>1. CASE Configure
  <2> SUFFICES ASSUME NEW s \in Scopes, NEW enabled \in BOOLEAN,
                      \/ SetWorkflowEnabled(s, enabled)
                      \/ \E overlap \in Overlaps : UpsertWorkflow(s, enabled, overlap)
               PROVE  TypeOK'
    BY <1>1 DEF Configure
  <2>1. CASE SetWorkflowEnabled(s, enabled)
    BY <2>1 DEF SetWorkflowEnabled, TypeOK
  <2>2. CASE \E overlap \in Overlaps : UpsertWorkflow(s, enabled, overlap)
    BY <2>2, ConstantsAssumption DEF UpsertWorkflow, TypeOK
  <2> QED  BY <2>1, <2>2
<1>2. CASE Claim
  <2> SUFFICES ASSUME NEW r \in Runs, NEW e \in Events, NEW i \in Inputs, NEW d \in Leases,
                      ClaimWorkflow(r, e, i, d)
               PROVE  TypeOK'
    BY <1>2 DEF Claim
  <2> DEFINE s == e[1]
             fence == claims[s].fence + 1
             row == [code |-> "lease_expired", retryable |-> TRUE]
  <2>1. s \in Scopes /\ fence \in Nat /\ now + d \in Nat
    BY ConstantsAssumption DEF TypeOK, Events, ClaimRows
  <2>2. runs' \in [Runs -> RunRows]
    <3>1. NewRun(e, i, fence) \in RunRows
      BY <2>1, AttemptsIsNat DEF NewRun, RunRows, RunStatus
    <3>2. \A q \in Runs : [runs[q] EXCEPT !.status = "cancelled"] \in RunRows
      BY DEF TypeOK, RunRows, RunStatus, Terminal, Unsuccessful
    <3>3. runs' = [q \in Runs |-> IF q = r THEN NewRun(e, i, fence)
                    ELSE IF q \in Evicted(s) THEN [runs[q] EXCEPT !.status = "cancelled"]
                    ELSE runs[q]]
      BY DEF ClaimWorkflow
    <3> HIDE DEF s, fence
    <3> QED  BY <3>1, <3>2, <3>3 DEF TypeOK
  <2>3. errors' \in [Runs -> Seq(ErrorRows)]
    <3>1. row \in ErrorRows  BY DEF ErrorRows
    <3>2. \A q \in Runs : Append(errors[q], row) \in Seq(ErrorRows)
      BY <3>1 DEF TypeOK
    <3> QED  BY <3>2 DEF TypeOK, ClaimWorkflow
  <2>4. audit' \in [Runs -> Seq(AuditRows)]
    <3>1. "claimed" \in AuditRows /\ "cancelled" \in AuditRows
      BY DEF AuditRows, Terminal, Unsuccessful
    <3>2. \A q \in Runs : /\ Append(audit[q], "claimed") \in Seq(AuditRows)
                          /\ Append(audit[q], "cancelled") \in Seq(AuditRows)
      BY <3>1 DEF TypeOK
    <3> QED  BY <3>2 DEF TypeOK, ClaimWorkflow
  <2>5. claims' \in [Scopes -> ClaimRows]
    <3>1. [run |-> r, fence |-> fence, lease |-> now + d] \in ClaimRows
      BY <2>1 DEF ClaimRows
    <3> QED  BY <2>1, <3>1 DEF TypeOK, ClaimWorkflow
  <2>6. dedupe' \in [Events -> DedupeRows]
    <3>0. dedupe[e] \in DedupeRows  BY DEF TypeOK
    <3>1. InFlightRow(r, e, i, now + d) \in DedupeRows
      BY <2>1, <3>0 DEF DedupeRows, InFlightRow
    <3> QED  BY <3>1 DEF TypeOK, ClaimWorkflow
  <2> QED  BY <2>2, <2>3, <2>4, <2>5, <2>6 DEF TypeOK, ClaimWorkflow
<1>3. CASE Fail
  <2> SUFFICES ASSUME NEW r \in Runs, NEW status \in Unsuccessful,
                      FinishUnsuccessfulRun(r, status)
               PROVE  TypeOK'
    BY <1>3 DEF Fail
  <2> DEFINE e == runs[r].event
             row == [code |-> status, retryable |-> status = "failed"]
  <2>1. ClaimHeld(r)  BY DEF FinishUnsuccessfulRun
  <2>2. e \in Events /\ e[1] \in Scopes /\ runs[r] \in RunRows  BY <2>1, <1>held
  <2>3. runs' \in [Runs -> RunRows]
    <3>1. [runs[r] EXCEPT !.status = status] \in RunRows
      BY <2>2 DEF RunRows, RunStatus, Terminal
    <3> QED  BY <3>1 DEF TypeOK, FinishUnsuccessfulRun
  <2>4. dedupe' \in [Events -> DedupeRows]
    <3>0. dedupe[e] \in DedupeRows  BY <2>2 DEF TypeOK
    <3>1. [dedupe[e] EXCEPT !.state = "failed"] \in DedupeRows
      BY <3>0 DEF DedupeRows
    <3> QED  BY <2>2, <3>1 DEF TypeOK, FinishUnsuccessfulRun
  <2>5. claims' \in [Scopes -> ClaimRows]
    <3>1. NoClaimRow \in ClaimRows  BY DEF NoClaimRow, ClaimRows
    <3> QED  BY <2>2, <3>1 DEF TypeOK, FinishUnsuccessfulRun
  <2>6. errors' \in [Runs -> Seq(ErrorRows)]
    <3>1. row \in ErrorRows  BY DEF ErrorRows, Unsuccessful
    <3>2. Append(errors[r], row) \in Seq(ErrorRows)  BY <3>1 DEF TypeOK
    <3> QED  BY <3>2 DEF TypeOK, FinishUnsuccessfulRun
  <2>7. audit' \in [Runs -> Seq(AuditRows)]
    <3>1. status \in AuditRows  BY DEF AuditRows, Terminal
    <3>2. audit' = [audit EXCEPT ![r] = Append(@, status)]  BY DEF FinishUnsuccessfulRun
    <3> QED  BY <3>1, <3>2, <1>log
  <2> QED
    BY <2>3, <2>4, <2>5, <2>6, <2>7 DEF TypeOK, FinishUnsuccessfulRun
<1>4. CASE NoAction
  <2> SUFFICES ASSUME NEW r \in Runs, NEW meta \in Metas, CompleteNoAction(r, meta)
               PROVE  TypeOK'
    BY <1>4 DEF NoAction
  <2>1. ClaimHeld(r) /\ CompleteDedupeAndCursor(r)  BY DEF CompleteNoAction
  <2>2. runs[r] \in RunRows  BY <2>1, <1>held
  <2>3. runs' \in [Runs -> RunRows]
    <3>1. [runs[r] EXCEPT !.status = "no_action", !.meta = meta] \in RunRows
      BY <2>2 DEF RunRows, RunStatus, Terminal, Succeeded
    <3> QED  BY <3>1 DEF TypeOK, CompleteNoAction
  <2>4. audit' \in [Runs -> Seq(AuditRows)]
    <3>1. "no_action" \in AuditRows  BY DEF AuditRows, Terminal, Succeeded
    <3>2. audit' = [audit EXCEPT ![r] = Append(@, "no_action")]  BY DEF CompleteNoAction
    <3> QED  BY <3>1, <3>2, <1>log
  <2> QED  BY <2>1, <2>3, <2>4, TypeCompletion DEF TypeOK, CompleteNoAction
<1>5. CASE Intend
  <2> SUFFICES ASSUME NEW r \in Runs, NEW request \in Requests, NEW contents \in SUBSET Contents,
                      NEW meta \in Metas, PersistApprovalIntent(r, request, contents, meta)
               PROVE  TypeOK'
    BY <1>5 DEF Intend
  <2> DEFINE e == runs[r].event
  <2>1. ClaimHeld(r)  BY DEF PersistApprovalIntent
  <2>2. e \in Events /\ runs[r] \in RunRows  BY <2>1, <1>held
  <2>3. approvals' \in [Events -> ApprovalRows]
    <3>1. [status |-> "creating", run |-> r, request |-> request, issue |-> NoIssue]
            \in ApprovalRows
      BY DEF ApprovalRows
    <3> QED  BY <3>1 DEF TypeOK, PersistApprovalIntent
  <2>4. assets' \in [Scopes \X Contents -> AssetRows]
    <3>1. [approval |-> e, run |-> r] \in AssetRows  BY <2>2 DEF AssetRows
    <3> QED  BY <3>1 DEF TypeOK, PersistApprovalIntent
  <2>5. runs' \in [Runs -> RunRows]
    <3>1. [runs[r] EXCEPT !.meta = meta] \in RunRows  BY <2>2 DEF RunRows
    <3> QED  BY <3>1 DEF TypeOK, PersistApprovalIntent
  <2>6. audit' \in [Runs -> Seq(AuditRows)]
    <3>1. "intent_created" \in AuditRows  BY DEF AuditRows
    <3>2. audit' = [audit EXCEPT ![r] = Append(@, "intent_created")]
      BY DEF PersistApprovalIntent
    <3> QED  BY <3>1, <3>2, <1>log
  <2> QED  BY <2>3, <2>4, <2>5, <2>6 DEF TypeOK, PersistApprovalIntent
<1>6. CASE Stage
  <2> SUFFICES ASSUME NEW r \in Runs, NEW e \in Events, NEW issue \in Issues, NEW meta \in Metas,
                      CompleteAwaitingApproval(r, e, issue, meta)
               PROVE  TypeOK'
    BY <1>6 DEF Stage
  <2>1. ClaimHeld(r) /\ CompleteDedupeAndCursor(r)  BY DEF CompleteAwaitingApproval
  <2>2. runs[r] \in RunRows  BY <2>1, <1>held
  <2>3. approvals' \in [Events -> ApprovalRows]
    <3>1. [approvals[e] EXCEPT !.status = "awaiting_approval", !.run = r, !.issue = issue]
            \in ApprovalRows
      BY DEF TypeOK, ApprovalRows
    <3> QED  BY <3>1 DEF TypeOK, CompleteAwaitingApproval
  <2>4. runs' \in [Runs -> RunRows]
    <3>1. [runs[r] EXCEPT !.status = "awaiting_approval", !.meta = meta, !.approval = e]
            \in RunRows
      BY <2>2 DEF RunRows, RunStatus, Terminal, Succeeded
    <3> QED  BY <3>1 DEF TypeOK, CompleteAwaitingApproval
  <2>5. audit' \in [Runs -> Seq(AuditRows)]
    <3>1. "awaiting_approval" \in AuditRows  BY DEF AuditRows, Terminal, Succeeded
    <3>2. audit' = [audit EXCEPT ![r] = Append(@, "awaiting_approval")]
      BY DEF CompleteAwaitingApproval
    <3> QED  BY <3>1, <3>2, <1>log
  <2> QED  BY <2>1, <2>3, <2>4, <2>5, TypeCompletion DEF TypeOK, CompleteAwaitingApproval
<1>7. CASE Preflighted
  <2> SUFFICES ASSUME NEW r \in Runs, NEW status \in Preflight, RecordTerminalRun(r, status)
               PROVE  TypeOK'
    BY <1>7 DEF Preflighted
  <2>1. runs' \in [Runs -> RunRows]
    <3>0. runs[r] \in RunRows /\ status \in RunStatus  BY DEF TypeOK, RunStatus, Terminal
    <3>1. [runs[r] EXCEPT !.status = status, !.attempt = 1] \in RunRows
      BY <3>0 DEF RunRows
    <3> QED  BY <3>1 DEF TypeOK, RecordTerminalRun
  <2>2. audit' \in [Runs -> Seq(AuditRows)]
    <3>1. status \in AuditRows  BY DEF AuditRows, Terminal
    <3>2. audit' = [audit EXCEPT ![r] = Append(@, status)]  BY DEF RecordTerminalRun
    <3> QED  BY <3>1, <3>2, <1>log
  <2> QED  BY <2>1, <2>2 DEF TypeOK, RecordTerminalRun
<1>8. CASE Tick
  BY <1>8 DEF Tick, TypeOK
<1>9. CASE UNCHANGED vars
  BY <1>9 DEF vars, TypeOK
<1> QED  BY <1>1, <1>2, <1>3, <1>4, <1>5, <1>6, <1>7, <1>8, <1>9 DEF Next

\* Every reachable state has the types of the schema, whatever clients do.
THEOREM TypeCorrect == Spec => []TypeOK
<1> QED  BY TypeInit, TypeNext, PTL DEF Spec
-----------------------------------------------------------------------------
\* What the holder of a claim finds in the tables: its own event, in flight
\* under it, and nothing decided (the facts every finalizer starts from).
LEMMA HolderFacts ==
  ASSUME IInv, NEW r \in Runs, ClaimHeld(r)
  PROVE  LET e == runs[r].event IN
         /\ e \in Events /\ e[1] \in Scopes /\ e[2] \in Keys /\ e = <<e[1], e[2]>>
         /\ claims[e[1]].run = r
         /\ runs[r].status = "running"
         /\ dedupe[e].state = "in_flight" /\ dedupe[e].run = r
         /\ approvals[e].status # "awaiting_approval"
<1> DEFINE e == runs[r].event
<1>1. e \in Events /\ runs[r].status = "running"
  BY DEF IInv, RowsAgree, ClaimHeld
<1>2. e[1] \in Scopes /\ e[2] \in Keys /\ e = <<e[1], e[2]>>
  BY <1>1 DEF Events
<1>3. claims[e[1]].run = r
  BY DEF ClaimHeld, VerifyClaim, ScopeOf
<1>4. dedupe[e].state = "in_flight" /\ dedupe[e].run = r
  BY <1>2, <1>3 DEF IInv, ClaimHolderOwnsEvent
<1>5. approvals[e].status # "awaiting_approval"
  BY <1>1, <1>4 DEF IInv, StagedTogether
<1> QED  BY <1>1, <1>2, <1>3, <1>4, <1>5

\* Empty tables agree: there is no claim, no run and no completed event.
LEMMA InvInit == Init => IInv
<1> SUFFICES ASSUME Init PROVE IInv  OBVIOUS
<1>1. TypeOK  BY TypeInit
<1>2. RowsAgree
  BY DEF Init, RowsAgree, NoDedupeRow, NoRunRow, Succeeded
<1>3. ClaimHolderOwnsEvent
  BY NullsAssumption DEF Init, ClaimHolderOwnsEvent, NoClaimRow
<1>4. CompletedByOneRun
  BY DEF Init, CompletedByOneRun, NoDedupeRow, NoRunRow, Succeeded
<1>5. StagedTogether
  BY DEF Init, StagedTogether, NoDedupeRow, NoApproval
<1>6. AbandonedEventClaimable
  BY DEF Init, AbandonedEventClaimable, NoDedupeRow
<1> QED  BY <1>1, <1>2, <1>3, <1>4, <1>5, <1>6 DEF IInv

\* Granting a claim: the evicted holder, if any, was running under an expired
\* lease, and the new run is the only one that touches its event.
LEMMA InvClaim ==
  ASSUME IInv, TypeOK', NEW r \in Runs, NEW e \in Events, NEW i \in Inputs, NEW d \in Leases,
         ClaimWorkflow(r, e, i, d)
  PROVE  IInv'
<1> DEFINE s == e[1]
<1> USE DEF IInv
<1>1. /\ s \in Scopes /\ now \in Nat /\ now + d \in Nat /\ now + d > now
      /\ \A f \in Events : f[1] \in Scopes /\ f[2] \in Keys
  BY ConstantsAssumption DEF TypeOK, Events
<1>2. runs[r].status = "absent" /\ runs[r].event = NoEvent
  BY DEF ClaimWorkflow, RowsAgree
<1>3. runs'[r] = NewRun(e, i, claims[s].fence + 1)
  BY DEF ClaimWorkflow, TypeOK
<1>4. runs'[r].status = "running" /\ runs'[r].event = e
       /\ runs'[r].fence = claims[s].fence + 1
  BY <1>3 DEF NewRun
<1>5. ASSUME NEW q \in Runs, q \in Evicted(s)
      PROVE  /\ q # r /\ claims[s].run = q /\ claims[s].lease <= now
             /\ runs[q].status = "running" /\ runs[q].event \in {s} \X Keys
             /\ dedupe[runs[q].event].lease = claims[s].lease
  BY <1>5, <1>1, <1>2 DEF Evicted, ClaimHolderOwnsEvent
<1>6. ASSUME NEW q \in Runs, q # r
      PROVE  /\ runs'[q].event = runs[q].event
             /\ runs'[q].fence = runs[q].fence
             /\ runs'[q].approval = runs[q].approval
             /\ runs'[q].status = IF q \in Evicted(s) THEN "cancelled" ELSE runs[q].status
  <2>1. runs[q] \in RunRows  BY DEF TypeOK
  <2>2. runs'[q] = IF q \in Evicted(s) THEN [runs[q] EXCEPT !.status = "cancelled"] ELSE runs[q]
    BY <1>6 DEF ClaimWorkflow
  <2> QED  BY <2>1, <2>2 DEF RunRows
<1>7. /\ claims'[s] = [run |-> r, fence |-> claims[s].fence + 1, lease |-> now + d]
      /\ \A z \in Scopes : z # s => claims'[z] = claims[z]
  BY <1>1 DEF ClaimWorkflow, TypeOK
<1>8. /\ dedupe'[e].state = "in_flight" /\ dedupe'[e].run = r /\ dedupe'[e].lease = now + d
      /\ \A f \in Events : f # e => dedupe'[f] = dedupe[f]
      /\ dedupe[e].state # "completed"
  BY DEF ClaimWorkflow, ClaimGranted, TypeOK, InFlightRow
<1>9. approvals' = approvals /\ now' = now
  BY DEF ClaimWorkflow
<1> HIDE DEF s
<1>10. RowsAgree'
  <2>1. ASSUME NEW f \in Events, dedupe'[f].state # "absent"
        PROVE  dedupe'[f].run \in Runs /\ runs'[dedupe'[f].run].event = f
    <3>1. CASE f = e  BY <3>1, <1>8, <1>4
    <3>2. CASE f # e
      BY <2>1, <3>2, <1>8, <1>6, <1>2, NullsAssumption DEF RowsAgree
    <3> QED  BY <3>1, <3>2
  <2>2. ASSUME NEW q \in Runs
        PROVE  /\ runs'[q].status = "absent" => runs'[q].event = NoEvent
               /\ runs'[q].status = "running" \/ runs'[q].status \in Succeeded
                    => runs'[q].event \in Events
    <3>1. CASE q = r  BY <3>1, <1>4
    <3>2. CASE q # r  BY <3>2, <1>6, <1>5 DEF RowsAgree, Succeeded
    <3> QED  BY <3>1, <3>2
  <2> QED  BY <2>1, <2>2 DEF RowsAgree
<1>11. ClaimHolderOwnsEvent'
  <2> SUFFICES ASSUME NEW z \in Scopes, NEW q \in Runs, claims'[z].run = q
               PROVE  /\ runs'[q].status = "running"
                      /\ runs'[q].event \in {z} \X Keys
                      /\ runs'[q].fence = claims'[z].fence
                      /\ dedupe'[runs'[q].event].state = "in_flight"
                      /\ dedupe'[runs'[q].event].run = q
                      /\ dedupe'[runs'[q].event].lease = claims'[z].lease
    BY DEF ClaimHolderOwnsEvent
  <2>1. CASE z = s
    <3>1. e \in {s} \X Keys  BY DEF s, Events
    <3> QED  BY <2>1, <3>1, <1>4, <1>7, <1>8
  <2>2. CASE z # s
    <3>1. /\ runs[q].status = "running" /\ runs[q].event \in {z} \X Keys
          /\ runs[q].fence = claims[z].fence
          /\ dedupe[runs[q].event].state = "in_flight" /\ dedupe[runs[q].event].run = q
          /\ dedupe[runs[q].event].lease = claims[z].lease
      BY <2>2, <1>7 DEF ClaimHolderOwnsEvent
    <3>2. q # r /\ q \notin Evicted(s)
      BY <3>1, <2>2, <1>2, <1>5
    <3>3. runs[q].event # e /\ runs[q].event \in Events
      BY <3>1, <2>2 DEF s, Events
    <3> QED  BY <2>2, <3>1, <3>2, <3>3, <1>6, <1>7, <1>8
  <2> QED  BY <2>1, <2>2
<1>12. CompletedByOneRun'
  <2> SUFFICES ASSUME NEW f \in Events
               PROVE  /\ dedupe'[f].state = "completed" => dedupe'[f].run \in Runs
                      /\ \A q \in Runs : runs'[q].event = f /\ runs'[q].status \in Succeeded
                           <=> dedupe'[f].state = "completed" /\ dedupe'[f].run = q
    BY DEF CompletedByOneRun
  <2>1. \A q \in Runs : runs'[q].event = f /\ runs'[q].status \in Succeeded
                    <=> runs[q].event = f /\ runs[q].status \in Succeeded
    <3> SUFFICES ASSUME NEW q \in Runs
                 PROVE  runs'[q].event = f /\ runs'[q].status \in Succeeded
                    <=> runs[q].event = f /\ runs[q].status \in Succeeded
      OBVIOUS
    <3>1. CASE q = r  BY <3>1, <1>4, <1>2 DEF Succeeded
    <3>2. CASE q # r  BY <3>2, <1>5, <1>6 DEF Succeeded
    <3> QED  BY <3>1, <3>2
  <2>2. (dedupe'[f].state = "completed") = (dedupe[f].state = "completed")
        /\ (dedupe'[f].state = "completed" => dedupe'[f].run = dedupe[f].run)
    BY <1>8
  <2> QED  BY <2>1, <2>2 DEF CompletedByOneRun
<1>13. ASSUME NEW f \in Events, dedupe[f].state = "completed"
       PROVE  /\ dedupe'[f] = dedupe[f]
              /\ runs'[dedupe[f].run].status = runs[dedupe[f].run].status
              /\ runs'[dedupe[f].run].approval = runs[dedupe[f].run].approval
  <2>1. f # e /\ dedupe'[f] = dedupe[f]  BY <1>13, <1>8
  <2>2. dedupe[f].run \in Runs /\ runs[dedupe[f].run].status \in Succeeded
    BY <1>13 DEF CompletedByOneRun
  <2>3. dedupe[f].run # r /\ dedupe[f].run \notin Evicted(s)
    BY <2>2, <1>2, <1>5 DEF Succeeded
  <2> QED  BY <2>1, <2>2, <2>3, <1>6
<1>14. StagedTogether'
  <2>1. \A f \in Events : dedupe'[f].state = "completed" <=> dedupe[f].state = "completed"
    BY <1>8
  <2> QED  BY <2>1, <1>9, <1>13 DEF StagedTogether
<1>15. AbandonedEventClaimable'
  <2> SUFFICES ASSUME NEW f \in Events, dedupe'[f].state = "in_flight",
                      runs'[dedupe'[f].run].status # "running"
               PROVE  dedupe'[f].lease <= now
    BY <1>9 DEF AbandonedEventClaimable
  <2>1. f # e  BY <1>8, <1>4
  <2>2. dedupe'[f] = dedupe[f] /\ dedupe[f].state = "in_flight"  BY <2>1, <1>8
  <2> DEFINE q == dedupe[f].run
  <2>3. q \in Runs /\ runs[q].event = f /\ q # r
    BY <2>2, <1>2, NullsAssumption DEF RowsAgree
  <2>4. CASE q \in Evicted(s)
    BY <2>2, <2>3, <2>4, <1>5
  <2>5. CASE q \notin Evicted(s)
    <3>1. runs[q].status # "running"  BY <2>2, <2>3, <2>5, <1>6
    <3> QED  BY <3>1, <2>2 DEF AbandonedEventClaimable
  <2> QED  BY <2>4, <2>5
<1> QED  BY <1>10, <1>11, <1>12, <1>14, <1>15

\* Ending a run without success: its event is open again and its scope free.
LEMMA InvFail ==
  ASSUME IInv, TypeOK', NEW r \in Runs, NEW status \in Unsuccessful,
         FinishUnsuccessfulRun(r, status)
  PROVE  IInv'
<1> DEFINE e == runs[r].event
           s == e[1]
<1> USE DEF IInv
<1>1. /\ e \in Events /\ s \in Scopes /\ claims[s].run = r /\ runs[r].status = "running"
      /\ dedupe[e].state = "in_flight" /\ dedupe[e].run = r
      /\ approvals[e].status # "awaiting_approval"
  BY HolderFacts DEF FinishUnsuccessfulRun
<1>2. /\ runs'[r].status = status /\ runs'[r].event = e
      /\ \A q \in Runs : q # r => runs'[q] = runs[q]
  BY DEF FinishUnsuccessfulRun, TypeOK, RunRows
<1>3. /\ dedupe'[e].state = "failed" /\ dedupe'[e].run = r
      /\ \A f \in Events : f # e => dedupe'[f] = dedupe[f]
  <2>1. dedupe[e] \in DedupeRows  BY <1>1 DEF TypeOK
  <2>2. dedupe' = [dedupe EXCEPT ![e].state = "failed"]  BY <1>1 DEF FinishUnsuccessfulRun
  <2> QED  BY <1>1, <2>1, <2>2 DEF TypeOK, DedupeRows
<1>4. /\ claims'[s].run = NoRun
      /\ \A z \in Scopes : z # s => claims'[z] = claims[z]
  BY <1>1 DEF FinishUnsuccessfulRun, TypeOK, NoClaimRow
<1>5. approvals' = approvals /\ now' = now
  BY DEF FinishUnsuccessfulRun
<1>6. status \notin Succeeded /\ status # "running" /\ status # "absent"
  BY DEF Unsuccessful, Succeeded
<1>7. \A f \in Events, q \in Runs : dedupe[f].state # "absent" /\ dedupe[f].run = r => f = e
  BY DEF RowsAgree
<1>8. RowsAgree'
  BY <1>1, <1>2, <1>3, <1>6 DEF RowsAgree
<1>9. ClaimHolderOwnsEvent'
  <2> SUFFICES ASSUME NEW z \in Scopes, NEW q \in Runs, claims'[z].run = q
               PROVE  /\ runs'[q].status = "running"
                      /\ runs'[q].event \in {z} \X Keys
                      /\ runs'[q].fence = claims'[z].fence
                      /\ dedupe'[runs'[q].event].state = "in_flight"
                      /\ dedupe'[runs'[q].event].run = q
                      /\ dedupe'[runs'[q].event].lease = claims'[z].lease
    BY DEF ClaimHolderOwnsEvent
  <2>1. z # s  BY <1>4, NullsAssumption
  <2>2. claims'[z] = claims[z] /\ runs[q].event \in {z} \X Keys /\ runs[q].event \in Events
    BY <2>1, <1>4 DEF ClaimHolderOwnsEvent, Events
  <2>3. q # r /\ runs[q].event # e  BY <2>1, <2>2
  <2> QED  BY <2>2, <2>3, <1>2, <1>3 DEF ClaimHolderOwnsEvent
<1>10. CompletedByOneRun'
  <2> SUFFICES ASSUME NEW f \in Events
               PROVE  /\ dedupe'[f].state = "completed" => dedupe'[f].run \in Runs
                      /\ \A q \in Runs : runs'[q].event = f /\ runs'[q].status \in Succeeded
                           <=> dedupe'[f].state = "completed" /\ dedupe'[f].run = q
    BY DEF CompletedByOneRun
  <2>1. \A q \in Runs : runs'[q].event = f /\ runs'[q].status \in Succeeded
                    <=> runs[q].event = f /\ runs[q].status \in Succeeded
    BY <1>1, <1>2, <1>6 DEF Succeeded
  <2>2. CASE f = e
    BY <2>1, <2>2, <1>1, <1>3 DEF CompletedByOneRun
  <2>3. CASE f # e
    BY <2>1, <2>3, <1>3 DEF CompletedByOneRun
  <2> QED  BY <2>2, <2>3
<1>11. StagedTogether'
  <2> SUFFICES ASSUME NEW f \in Events
               PROVE  /\ approvals[f].status = "awaiting_approval" <=>
                           /\ dedupe'[f].state = "completed"
                           /\ runs'[dedupe'[f].run].status = "awaiting_approval"
                      /\ approvals[f].status = "awaiting_approval" =>
                           /\ approvals[f].run = dedupe'[f].run
                           /\ runs'[dedupe'[f].run].approval = f
                           /\ approvals[f].issue # NoIssue
    BY <1>5 DEF StagedTogether
  <2>1. CASE f = e  BY <2>1, <1>1, <1>3
  <2>2. CASE f # e /\ dedupe[f].state = "completed"
    <3>1. dedupe[f].run \in Runs /\ dedupe[f].run # r
      BY <2>2, <1>7 DEF CompletedByOneRun
    <3> QED  BY <3>1, <2>2, <1>2, <1>3 DEF StagedTogether
  <2>3. CASE f # e /\ dedupe[f].state # "completed"
    BY <2>3, <1>3 DEF StagedTogether
  <2> QED  BY <2>1, <2>2, <2>3
<1>12. AbandonedEventClaimable'
  <2> SUFFICES ASSUME NEW f \in Events, dedupe'[f].state = "in_flight",
                      runs'[dedupe'[f].run].status # "running"
               PROVE  dedupe'[f].lease <= now
    BY <1>5 DEF AbandonedEventClaimable
  <2>1. f # e /\ dedupe'[f] = dedupe[f]  BY <1>3
  <2>2. dedupe[f].run \in Runs /\ dedupe[f].run # r
    BY <2>1, <1>7 DEF RowsAgree
  <2> QED  BY <2>1, <2>2, <1>2 DEF AbandonedEventClaimable
<1> QED  BY <1>8, <1>9, <1>10, <1>11, <1>12

\* Completing an event, with or without an approval: o is the outcome.
LEMMA InvCompletion ==
  ASSUME IInv, TypeOK', NEW r \in Runs, NEW o \in Succeeded,
         ClaimHeld(r), CompleteDedupeAndCursor(r), now' = now,
         runs'[r].status = o, runs'[r].event = runs[r].event,
         \A q \in Runs : q # r => runs'[q] = runs[q],
         \A f \in Events : f # runs[r].event => approvals'[f] = approvals[f],
         approvals'[runs[r].event].status = "awaiting_approval" <=> o = "awaiting_approval",
         o = "awaiting_approval" =>
           /\ approvals'[runs[r].event].run = r
           /\ approvals'[runs[r].event].issue # NoIssue
           /\ runs'[r].approval = runs[r].event
  PROVE  IInv'
<1> DEFINE e == runs[r].event
           s == e[1]
<1> USE DEF IInv
<1>1. /\ e \in Events /\ s \in Scopes /\ claims[s].run = r /\ runs[r].status = "running"
      /\ dedupe[e].state = "in_flight" /\ dedupe[e].run = r
  BY HolderFacts
<1>3. /\ dedupe'[e].state = "completed" /\ dedupe'[e].run = r
      /\ \A f \in Events : f # e => dedupe'[f] = dedupe[f]
  <2>1. dedupe[e] \in DedupeRows  BY <1>1 DEF TypeOK
  <2> QED  BY <1>1, <2>1 DEF CompleteDedupeAndCursor, TypeOK, DedupeRows
<1>4. /\ claims'[s].run = NoRun
      /\ \A z \in Scopes : z # s => claims'[z] = claims[z]
  BY <1>1 DEF CompleteDedupeAndCursor, TypeOK, NoClaimRow
<1>6. o # "running" /\ o # "absent"
  BY DEF Succeeded
<1>7. \A f \in Events : dedupe[f].state # "absent" /\ dedupe[f].run = r => f = e
  BY DEF RowsAgree
<1>8. RowsAgree'
  BY <1>1, <1>3, <1>6 DEF RowsAgree
<1>9. ClaimHolderOwnsEvent'
  <2> SUFFICES ASSUME NEW z \in Scopes, NEW q \in Runs, claims'[z].run = q
               PROVE  /\ runs'[q].status = "running"
                      /\ runs'[q].event \in {z} \X Keys
                      /\ runs'[q].fence = claims'[z].fence
                      /\ dedupe'[runs'[q].event].state = "in_flight"
                      /\ dedupe'[runs'[q].event].run = q
                      /\ dedupe'[runs'[q].event].lease = claims'[z].lease
    BY DEF ClaimHolderOwnsEvent
  <2>1. z # s  BY <1>4, NullsAssumption
  <2>2. claims'[z] = claims[z] /\ runs[q].event \in {z} \X Keys /\ runs[q].event \in Events
    BY <2>1, <1>4 DEF ClaimHolderOwnsEvent, Events
  <2>3. q # r /\ runs[q].event # e  BY <2>1, <2>2
  <2> QED  BY <2>2, <2>3, <1>3 DEF ClaimHolderOwnsEvent
<1>10. CompletedByOneRun'
  <2> SUFFICES ASSUME NEW f \in Events
               PROVE  /\ dedupe'[f].state = "completed" => dedupe'[f].run \in Runs
                      /\ \A q \in Runs : runs'[q].event = f /\ runs'[q].status \in Succeeded
                           <=> dedupe'[f].state = "completed" /\ dedupe'[f].run = q
    BY DEF CompletedByOneRun
  <2>1. CASE f = e
    <3>1. \A q \in Runs : q # r => ~(runs[q].event = e /\ runs[q].status \in Succeeded)
      BY <1>1 DEF CompletedByOneRun
    <3> QED  BY <2>1, <3>1, <1>3
  <2>2. CASE f # e
    <3>1. \A q \in Runs : runs'[q].event = f /\ runs'[q].status \in Succeeded
                      <=> runs[q].event = f /\ runs[q].status \in Succeeded
      BY <2>2
    <3> QED  BY <2>2, <3>1, <1>3 DEF CompletedByOneRun
  <2> QED  BY <2>1, <2>2
<1>11. StagedTogether'
  <2> SUFFICES ASSUME NEW f \in Events
               PROVE  /\ approvals'[f].status = "awaiting_approval" <=>
                           /\ dedupe'[f].state = "completed"
                           /\ runs'[dedupe'[f].run].status = "awaiting_approval"
                      /\ approvals'[f].status = "awaiting_approval" =>
                           /\ approvals'[f].run = dedupe'[f].run
                           /\ runs'[dedupe'[f].run].approval = f
                           /\ approvals'[f].issue # NoIssue
    BY DEF StagedTogether
  <2>1. CASE f = e  BY <2>1, <1>1, <1>3
  <2>2. CASE f # e /\ dedupe[f].state = "completed"
    <3>1. dedupe[f].run \in Runs /\ dedupe[f].run # r
      BY <2>2, <1>7 DEF CompletedByOneRun
    <3> QED  BY <3>1, <2>2, <1>3 DEF StagedTogether
  <2>3. CASE f # e /\ dedupe[f].state # "completed"
    BY <2>3, <1>3 DEF StagedTogether
  <2> QED  BY <2>1, <2>2, <2>3
<1>12. AbandonedEventClaimable'
  <2> SUFFICES ASSUME NEW f \in Events, dedupe'[f].state = "in_flight",
                      runs'[dedupe'[f].run].status # "running"
               PROVE  dedupe'[f].lease <= now
    BY DEF AbandonedEventClaimable
  <2>1. f # e /\ dedupe'[f] = dedupe[f]  BY <1>3
  <2>2. dedupe[f].run \in Runs /\ dedupe[f].run # r
    BY <2>1, <1>7 DEF RowsAgree
  <2> QED  BY <2>1, <2>2 DEF AbandonedEventClaimable
<1> QED  BY <1>8, <1>9, <1>10, <1>11, <1>12

\* Steps that leave claims and dedupe rows alone and change of the runs only what
\* the invariant does not read, or give a uuid without an event a final status.
LEMMA InvFrame ==
  ASSUME IInv, TypeOK', claims' = claims, dedupe' = dedupe, now' >= now,
         \A q \in Runs :
           /\ runs'[q].event = runs[q].event
           /\ runs'[q].fence = runs[q].fence
           /\ runs'[q].approval = runs[q].approval
           /\ \/ runs'[q].status = runs[q].status
              \/ runs[q].status = "absent" /\ runs'[q].status \in Preflight,
         \A f \in Events :
           \/ approvals'[f] = approvals[f]
           \/ approvals[f].status # "awaiting_approval" /\ approvals'[f].status = "creating"
  PROVE  IInv'
<1> USE DEF IInv
<1>1. \A q \in Runs : /\ runs'[q].status = "running" <=> runs[q].status = "running"
                      /\ runs'[q].status \in Succeeded <=> runs[q].status \in Succeeded
  BY DEF Preflight, Succeeded
<1>2. \A q \in Runs : runs[q].event \in Events => runs[q].status # "absent"
  BY NullsAssumption DEF RowsAgree
<1>3. RowsAgree'
  BY <1>1 DEF RowsAgree, Preflight
<1>4. ClaimHolderOwnsEvent'
  BY <1>1 DEF ClaimHolderOwnsEvent
<1>5. CompletedByOneRun'
  BY <1>1 DEF CompletedByOneRun
<1>6. StagedTogether'
  <2> SUFFICES ASSUME NEW f \in Events
               PROVE  /\ approvals'[f].status = "awaiting_approval" <=>
                           /\ dedupe[f].state = "completed"
                           /\ runs'[dedupe[f].run].status = "awaiting_approval"
                      /\ approvals'[f].status = "awaiting_approval" =>
                           /\ approvals'[f].run = dedupe[f].run
                           /\ runs'[dedupe[f].run].approval = f
                           /\ approvals'[f].issue # NoIssue
    BY DEF StagedTogether
  <2>1. CASE dedupe[f].state = "completed"
    <3>1. dedupe[f].run \in Runs /\ runs[dedupe[f].run].event = f
      BY <2>1 DEF RowsAgree
    <3>2. runs'[dedupe[f].run].status = runs[dedupe[f].run].status
      BY <3>1, <1>2
    <3> QED  BY <2>1, <3>1, <3>2 DEF StagedTogether
  <2>2. CASE dedupe[f].state # "completed"
    BY <2>2 DEF StagedTogether
  <2> QED  BY <2>1, <2>2
<1>7. AbandonedEventClaimable'
  <2> SUFFICES ASSUME NEW f \in Events, dedupe[f].state = "in_flight",
                      runs'[dedupe[f].run].status # "running"
               PROVE  dedupe[f].lease <= now'
    BY DEF AbandonedEventClaimable
  <2>1. dedupe[f].run \in Runs  BY DEF RowsAgree
  <2>2. dedupe[f].lease <= now  BY <2>1, <1>1 DEF AbandonedEventClaimable
  <2>3. dedupe[f].lease \in Nat /\ now \in Nat /\ now' \in Nat
    BY DEF TypeOK, DedupeRows
  <2> QED  BY <2>2, <2>3
<1> QED  BY <1>3, <1>4, <1>5, <1>6, <1>7

\* Every step keeps the tables in agreement: each operation by the lemma above
\* about what it does to the claim, the run and the dedupe row.
LEMMA InvNext == IInv /\ [Next]_vars => IInv'
<1> SUFFICES ASSUME IInv, [Next]_vars PROVE IInv'  OBVIOUS
<1>t. TypeOK'  BY TypeNext DEF IInv
<1>w. TypeOK /\ \A q \in Runs : runs[q] \in RunRows  BY DEF IInv, TypeOK
<1>1. CASE Configure
  <2>1. UNCHANGED <<runs, claims, dedupe, approvals, now>>
    BY <1>1 DEF Configure, SetWorkflowEnabled, UpsertWorkflow
  <2> QED  BY <2>1, <1>t, <1>w, InvFrame DEF TypeOK
<1>2. CASE Claim
  BY <1>2, <1>t, InvClaim DEF Claim
<1>3. CASE Fail
  BY <1>3, <1>t, InvFail DEF Fail
<1>4. CASE NoAction
  <2> SUFFICES ASSUME NEW r \in Runs, NEW meta \in Metas, CompleteNoAction(r, meta)
               PROVE  IInv'
    BY <1>4 DEF NoAction
  <2>1. ClaimHeld(r) /\ CompleteDedupeAndCursor(r) /\ approvals' = approvals /\ now' = now
    BY DEF CompleteNoAction
  <2>2. /\ runs'[r].status = "no_action" /\ runs'[r].event = runs[r].event
        /\ \A q \in Runs : q # r => runs'[q] = runs[q]
    <3>1. runs[r] \in RunRows  BY <1>w
    <3> QED  BY <3>1, <1>w DEF CompleteNoAction, TypeOK, RunRows
  <2>3. approvals[runs[r].event].status # "awaiting_approval"
    BY <2>1, HolderFacts
  <2>4. "no_action" \in Succeeded  BY DEF Succeeded
  <2> QED  BY <2>1, <2>2, <2>3, <2>4, <1>t, InvCompletion
<1>5. CASE Intend
  <2> SUFFICES ASSUME NEW r \in Runs, NEW request \in Requests, NEW contents \in SUBSET Contents,
                      NEW meta \in Metas, PersistApprovalIntent(r, request, contents, meta)
               PROVE  IInv'
    BY <1>5 DEF Intend
  <2>1. UNCHANGED <<claims, dedupe, now>>  BY DEF PersistApprovalIntent
  <2>2. \A q \in Runs : /\ runs'[q].event = runs[q].event
                        /\ runs'[q].fence = runs[q].fence
                        /\ runs'[q].approval = runs[q].approval
                        /\ runs'[q].status = runs[q].status
    BY <1>w DEF PersistApprovalIntent, TypeOK, RunRows
  <2>3. \A f \in Events :
           \/ approvals'[f] = approvals[f]
           \/ approvals[f].status # "awaiting_approval" /\ approvals'[f].status = "creating"
    BY <1>w DEF PersistApprovalIntent, TypeOK
  <2> QED  BY <2>1, <2>2, <2>3, <1>t, <1>w, InvFrame DEF TypeOK
<1>6. CASE Stage
  <2> SUFFICES ASSUME NEW r \in Runs, NEW e \in Events, NEW issue \in Issues, NEW meta \in Metas,
                      CompleteAwaitingApproval(r, e, issue, meta)
               PROVE  IInv'
    BY <1>6 DEF Stage
  <2>1. ClaimHeld(r) /\ CompleteDedupeAndCursor(r) /\ now' = now /\ e = runs[r].event
    BY DEF CompleteAwaitingApproval
  <2>2. /\ runs'[r].status = "awaiting_approval" /\ runs'[r].event = runs[r].event
        /\ runs'[r].approval = runs[r].event
        /\ \A q \in Runs : q # r => runs'[q] = runs[q]
    <3>1. runs[r] \in RunRows  BY <1>w
    <3> QED  BY <3>1, <2>1, <1>w DEF CompleteAwaitingApproval, TypeOK, RunRows
  <2>3. /\ approvals'[e].status = "awaiting_approval" /\ approvals'[e].run = r
        /\ approvals'[e].issue # NoIssue
        /\ \A f \in Events : f # e => approvals'[f] = approvals[f]
    <3>1. approvals[e] \in ApprovalRows  BY <1>w DEF TypeOK
    <3> QED  BY <3>1, <1>w, NullsAssumption DEF CompleteAwaitingApproval, TypeOK, ApprovalRows
  <2>4. "awaiting_approval" \in Succeeded  BY DEF Succeeded
  <2> QED  BY <2>1, <2>2, <2>3, <2>4, <1>t, InvCompletion
<1>7. CASE Preflighted
  <2> SUFFICES ASSUME NEW r \in Runs, NEW status \in Preflight, RecordTerminalRun(r, status)
               PROVE  IInv'
    BY <1>7 DEF Preflighted
  <2>1. UNCHANGED <<claims, dedupe, approvals, now>> /\ runs[r].status = "absent"
    BY DEF RecordTerminalRun
  <2>2. \A q \in Runs : /\ runs'[q].event = runs[q].event
                        /\ runs'[q].fence = runs[q].fence
                        /\ runs'[q].approval = runs[q].approval
                        /\ \/ runs'[q].status = runs[q].status
                           \/ q = r /\ runs'[q].status = status
    BY <1>w DEF RecordTerminalRun, TypeOK, RunRows
  <2> QED  BY <2>1, <2>2, <1>t, <1>w, InvFrame DEF TypeOK
<1>8. CASE Tick
  <2>1. UNCHANGED <<runs, claims, dedupe, approvals>> /\ now' >= now
    BY <1>8, <1>w DEF Tick, TypeOK
  <2> QED  BY <2>1, <1>t, InvFrame
<1>9. CASE UNCHANGED vars
  <2>1. UNCHANGED <<runs, claims, dedupe, approvals>> /\ now' >= now
    BY <1>9, <1>w DEF vars, TypeOK
  <2> QED  BY <2>1, <1>t, InvFrame
<1> QED  BY <1>1, <1>2, <1>3, <1>4, <1>5, <1>6, <1>7, <1>8, <1>9 DEF Next

\* The tables agree in every reachable state: claims, runs, dedupe rows and
\* approvals tell one story, whatever the interleaving of the transactions
\* (ClaimWorkflow and the finalizers, workflow.go 159-391, approval.go 58-220).
THEOREM TablesAgree == Spec => []IInv
<1> QED  BY InvInit, InvNext, PTL DEF Spec

\* A claim's holder can always be finalized: run, claim and dedupe row agree.
THEOREM HolderOwnsItsEvent == Spec => []ClaimHolderOwnsEvent
<1>1. IInv => ClaimHolderOwnsEvent  BY DEF IInv
<1> QED  BY <1>1, TablesAgree, PTL

\* An event has at most one successful run, the one its dedupe row names,
\* however many attempts there were and however they interleaved.
THEOREM EventCompletedOnce == Spec => []CompletedByOneRun
<1>1. IInv => CompletedByOneRun  BY DEF IInv
<1> QED  BY <1>1, TablesAgree, PTL

\* Approval, run and dedupe row record the staging of an event together.
THEOREM StagingIsAtomic == Spec => []StagedTogether
<1>1. IInv => StagedTogether  BY DEF IInv
<1> QED  BY <1>1, TablesAgree, PTL

\* No event is left leased to a run that has ended.
THEOREM AbandonedEventsReopen == Spec => []AbandonedEventClaimable
<1>1. IInv => AbandonedEventClaimable  BY DEF IInv
<1> QED  BY <1>1, TablesAgree, PTL
=============================================================================

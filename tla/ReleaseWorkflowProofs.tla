---------------------- MODULE ReleaseWorkflowProofs ----------------------
(***************************************************************************)
(* What ReleaseWorkflow promises, for every number of workers and every    *)
(* value of the other constants: a live worker holds its claim, an event   *)
(* gets one issue as long as GitHub applies no POST late, every issue has  *)
(* its intent and its files, and a recovery keeps the metadata of the run  *)
(* that generated the drafts.                                              *)
(***************************************************************************)
EXTENDS ReleaseWorkflow, WorkflowLedgerProofs, FiniteSetTheorems

-----------------------------------------------------------------------------
(* The store, as Run uses it.                                              *)

\* An approval, and each asset of it, names a run of its event; they agree on the
\* metadata of the generation.
IntentsBacked ==
  /\ \A e \in Events : approvals[e].status # "absent" =>
       /\ approvals[e].run \in Runs /\ runs[approvals[e].run].event = e
       /\ runs[approvals[e].run].meta \in Metas
  /\ \A a \in Scopes \X Contents : assets[a].approval # NoEvent =>
       /\ assets[a].approval \in Events
       /\ approvals[assets[a].approval].status # "absent"
       /\ assets[a].run \in Runs /\ runs[assets[a].run].event = assets[a].approval
       /\ runs[assets[a].run].meta = runs[approvals[assets[a].approval].run].meta

\* The part of the inductive invariant that is about the tables.
StoreInv == IInv /\ NoOverlap /\ RunningHoldsClaim /\ IntentsBacked

\* An operation under the claim of run r leaves every other live claim alone.
OthersKept(r) ==
  \A q \in Runs : q # r /\ ClaimHeld(q) /\ claims[ScopeOf(q)].lease > now =>
    /\ runs'[q] = runs[q]
    /\ claims'[ScopeOf(q)] = claims[ScopeOf(q)]
    /\ approvals[runs[q].event].status = "absent" => approvals'[runs[q].event].status = "absent"

\* What no operation undoes: a run keeps its event, an event its intent, and an
\* intent under way the metadata of its drafts.
HistoryKept ==
  /\ \A q \in Runs : runs[q].event # NoEvent => runs'[q].event = runs[q].event
  /\ \A e \in Events : approvals[e].status # "absent" =>
       /\ approvals'[e].status # "absent"
       /\ approvals'[e].status = "creating" =>
            /\ approvals[e].status = "creating"
            /\ runs'[approvals'[e].run].meta = runs[approvals[e].run].meta

\* The tables are empty when the program starts.
LEMMA StoreInvInit == Init => StoreInv
<1> SUFFICES ASSUME Init PROVE StoreInv
  OBVIOUS
<1>1. IInv  BY InvInit
<1>2. NoOverlap  BY DEF Init, NoOverlap
<1>3. RunningHoldsClaim  BY DEF Init, NoRunRow, RunningHoldsClaim
<1>4. IntentsBacked  BY DEF Init, NoApproval, NoAsset, IntentsBacked
<1> QED  BY <1>1, <1>2, <1>3, <1>4 DEF StoreInv

\* Time, and an enabled column, change nothing that the invariant is about.
LEMMA StoreIdles ==
  ASSUME StoreInv, TypeOK', NoOverlap', now' >= now,
         UNCHANGED <<runs, claims, dedupe, approvals, assets>>
  PROVE  StoreInv' /\ HistoryKept /\ \A r \in Runs \cup {NoRun} : OthersKept(r)
<1>1. IInv'
  <2>1. IInv  BY DEF StoreInv
  <2>2. /\ \A q \in Runs :
             /\ runs'[q].event = runs[q].event
             /\ runs'[q].fence = runs[q].fence
             /\ runs'[q].approval = runs[q].approval
             /\ runs'[q].status = runs[q].status
        /\ \A f \in Events : approvals'[f] = approvals[f]
    OBVIOUS
  <2> QED  BY <2>1, <2>2, InvFrame
<1>2. RunningHoldsClaim'  BY DEF StoreInv, RunningHoldsClaim, ScopeOf
<1>3. IntentsBacked'  BY DEF StoreInv, IntentsBacked
<1>4. HistoryKept  BY DEF HistoryKept
<1>5. \A r \in Runs \cup {NoRun} : OthersKept(r)  BY DEF OthersKept
<1> QED  BY <1>1, <1>2, <1>3, <1>4, <1>5 DEF StoreInv

\* A claim cancels at most the holder of an expired lease; the run it draws has no
\* approval yet.
LEMMA StoreClaims ==
  ASSUME StoreInv, NEW r \in Runs, NEW e \in Events, NEW i \in Inputs, NEW d \in Leases,
         ClaimWorkflow(r, e, i, d)
  PROVE  /\ StoreInv' /\ OthersKept(r) /\ HistoryKept
         /\ (ClaimHeld(r))' /\ runs'[r].event = e /\ claims'[e[1]].lease = now + d
<1> DEFINE s == e[1]
<1>0. IInv /\ NoOverlap /\ RunningHoldsClaim /\ IntentsBacked  BY DEF StoreInv
<1>t. TypeOK /\ \A q \in Runs : runs[q] \in RunRows  BY <1>0 DEF IInv, TypeOK
<1>1. s \in Scopes /\ runs[r].status = "absent" /\ runs[r].event = NoEvent
  BY <1>0 DEF Events, ClaimWorkflow, IInv, RowsAgree
<1>2. IInv'
  <2>1. Next  BY DEF Next, Claim
  <2> QED  BY <1>0, <2>1, InvNext
<1>3. NoOverlap'  BY <1>0 DEF ClaimWorkflow, NoOverlap
<1>4. RunningHoldsClaim'  BY <1>0, ExclusiveClaim
<1>5. \A q \in Runs : q # r =>
        runs'[q].event = runs[q].event /\ runs'[q].meta = runs[q].meta
  BY <1>t DEF ClaimWorkflow, RunRows
<1>6. UNCHANGED <<approvals, assets>>  BY DEF ClaimWorkflow
<1>7. IntentsBacked'
  <2>1. ASSUME NEW f \in Events, approvals[f].status # "absent"
        PROVE  /\ approvals[f].run \in Runs /\ runs'[approvals[f].run].event = f
               /\ runs'[approvals[f].run].meta = runs[approvals[f].run].meta
               /\ runs[approvals[f].run].meta \in Metas
    <3>1. approvals[f].run \in Runs /\ runs[approvals[f].run].event = f
          /\ runs[approvals[f].run].meta \in Metas
      BY <1>0, <2>1 DEF IntentsBacked
    <3>2. approvals[f].run # r  BY <1>1, <3>1, NullsAssumption
    <3> QED  BY <3>1, <3>2, <1>5
  <2>2. ASSUME NEW a \in Scopes \X Contents, assets[a].approval # NoEvent
        PROVE  /\ assets[a].approval \in Events
               /\ approvals[assets[a].approval].status # "absent"
               /\ assets[a].run \in Runs /\ runs'[assets[a].run].event = assets[a].approval
               /\ runs'[assets[a].run].meta = runs'[approvals[assets[a].approval].run].meta
    <3>1. /\ assets[a].approval \in Events
          /\ approvals[assets[a].approval].status # "absent"
          /\ assets[a].run \in Runs /\ runs[assets[a].run].event = assets[a].approval
          /\ runs[assets[a].run].meta = runs[approvals[assets[a].approval].run].meta
      BY <1>0, <2>2 DEF IntentsBacked
    <3>2. assets[a].run # r  BY <1>1, <3>1, NullsAssumption
    <3> QED  BY <3>1, <3>2, <2>1, <1>5
  <2> QED  BY <1>6, <2>1, <2>2 DEF IntentsBacked
<1>8. HistoryKept
  <2>1. \A q \in Runs : runs[q].event # NoEvent => runs'[q].event = runs[q].event
    BY <1>1, <1>5
  <2>2. ASSUME NEW f \in Events, approvals[f].status # "absent"
        PROVE  runs'[approvals[f].run].meta = runs[approvals[f].run].meta
    <3>1. approvals[f].run \in Runs /\ runs[approvals[f].run].event = f
      BY <1>0, <2>2 DEF IntentsBacked
    <3>2. approvals[f].run # r  BY <1>1, <3>1, NullsAssumption
    <3> QED  BY <3>1, <3>2, <1>5
  <2> QED  BY <1>6, <2>1, <2>2 DEF HistoryKept
<1>9. OthersKept(r)
  <2> SUFFICES ASSUME NEW q \in Runs, q # r, ClaimHeld(q), claims[ScopeOf(q)].lease > now
               PROVE  runs'[q] = runs[q] /\ claims'[ScopeOf(q)] = claims[ScopeOf(q)]
    BY <1>6 DEF OthersKept
  <2>1. claims[ScopeOf(q)].run = q /\ ScopeOf(q) \in Scopes
    BY <1>0, HolderFacts DEF ScopeOf
  <2>2. ScopeOf(q) # s
    <3>1. SUFFICES ASSUME ScopeOf(q) = s PROVE FALSE
      OBVIOUS
    <3>2. q # NoRun  BY NullsAssumption
    <3>3. LeaseActive(s)  BY <1>0, <1>1, <2>1, <3>1, <3>2 DEF LeaseActive, NoOverlap
    <3> QED  BY <3>3 DEF ClaimWorkflow, ClaimGranted
  <2>3. q \notin Evicted(s)
    <3>1. SUFFICES ASSUME claims[s].run = q PROVE FALSE
      BY DEF Evicted
    <3>2. runs[q].event \in {s} \X Keys  BY <1>0, <1>1, <3>1 DEF IInv, ClaimHolderOwnsEvent
    <3> QED  BY <3>2, <2>2 DEF ScopeOf
  <2>4. runs'[q] = runs[q]  BY <2>3 DEF ClaimWorkflow
  <2>5. claims'[ScopeOf(q)] = claims[ScopeOf(q)]  BY <1>t, <2>1, <2>2 DEF ClaimWorkflow, TypeOK
  <2> QED  BY <2>4, <2>5
<1>10. /\ runs'[r].event = e /\ runs'[r].status = "running"
       /\ runs'[r].fence = claims[s].fence + 1
  BY DEF ClaimWorkflow, NewRun
<1>11. /\ claims'[s].run = r /\ claims'[s].fence = claims[s].fence + 1
       /\ claims'[s].lease = now + d
  BY <1>t, <1>1 DEF ClaimWorkflow, TypeOK
<1>12. (ClaimHeld(r))'
  BY <1>10, <1>11, NullsAssumption DEF ClaimHeld, VerifyClaim, ScopeOf
<1> QED  BY <1>2, <1>3, <1>4, <1>7, <1>8, <1>9, <1>10, <1>11, <1>12 DEF StoreInv

\* The holder of another claim works in another scope, so on another event.
LEMMA OthersApart ==
  ASSUME IInv, NEW r \in Runs, ClaimHeld(r),
         \A q \in Runs : q # r => runs'[q] = runs[q],
         \A z \in Scopes : z # ScopeOf(r) => claims'[z] = claims[z],
         \A f \in Events : f # runs[r].event => approvals'[f] = approvals[f]
  PROVE  OthersKept(r)
<1> SUFFICES ASSUME NEW q \in Runs, q # r, ClaimHeld(q)
             PROVE  /\ claims'[ScopeOf(q)] = claims[ScopeOf(q)]
                    /\ approvals'[runs[q].event] = approvals[runs[q].event]
  BY DEF OthersKept
<1>1. claims[ScopeOf(q)].run = q /\ ScopeOf(q) \in Scopes /\ runs[q].event \in Events
  BY HolderFacts DEF ScopeOf
<1>2. claims[ScopeOf(r)].run = r  BY HolderFacts DEF ScopeOf
<1>3. ScopeOf(q) # ScopeOf(r)  BY <1>1, <1>2
<1>4. runs[q].event # runs[r].event  BY <1>3 DEF ScopeOf
<1> QED  BY <1>1, <1>3, <1>4

\* An operation that leaves approvals and assets alone keeps the intents, as long as
\* it writes metadata only to runs of an event that has none.
LEMMA IntentsKept ==
  ASSUME IntentsBacked, UNCHANGED <<approvals, assets>>,
         \A q \in Runs : runs'[q].event = runs[q].event,
         \A q \in Runs : approvals[runs[q].event].status # "absent" =>
                           runs'[q].meta = runs[q].meta
  PROVE  IntentsBacked' /\ HistoryKept
<1>1. ASSUME NEW f \in Events, approvals[f].status # "absent"
      PROVE  /\ approvals[f].run \in Runs /\ runs'[approvals[f].run].event = f
             /\ runs'[approvals[f].run].meta = runs[approvals[f].run].meta
             /\ runs[approvals[f].run].meta \in Metas
  BY <1>1 DEF IntentsBacked
<1>2. ASSUME NEW a \in Scopes \X Contents, assets[a].approval # NoEvent
      PROVE  /\ assets[a].approval \in Events
             /\ approvals[assets[a].approval].status # "absent"
             /\ assets[a].run \in Runs /\ runs'[assets[a].run].event = assets[a].approval
             /\ runs'[assets[a].run].meta = runs'[approvals[assets[a].approval].run].meta
  <2>1. /\ assets[a].approval \in Events
        /\ approvals[assets[a].approval].status # "absent"
        /\ assets[a].run \in Runs /\ runs[assets[a].run].event = assets[a].approval
        /\ runs[assets[a].run].meta = runs[approvals[assets[a].approval].run].meta
    BY <1>2 DEF IntentsBacked
  <2> QED  BY <2>1, <1>1
<1>3. IntentsBacked'  BY <1>1, <1>2 DEF IntentsBacked
<1>4. HistoryKept  BY <1>1 DEF HistoryKept
<1> QED  BY <1>3, <1>4

\* A preflight record is a run without an event.
LEMMA StoreRecords ==
  ASSUME StoreInv, NEW r \in Runs, NEW status \in Preflight, RecordTerminalRun(r, status)
  PROVE  StoreInv' /\ OthersKept(r) /\ HistoryKept
<1>0. IInv /\ NoOverlap /\ RunningHoldsClaim /\ IntentsBacked  BY DEF StoreInv
<1>t. TypeOK /\ \A q \in Runs : runs[q] \in RunRows  BY <1>0 DEF IInv, TypeOK
<1>1. /\ \A q \in Runs : runs'[q].event = runs[q].event /\ runs'[q].meta = runs[q].meta
      /\ \A q \in Runs : q # r => runs'[q] = runs[q]
      /\ runs'[r].status = status
  BY <1>t DEF RecordTerminalRun, RunRows, TypeOK
<1>2. IInv'
  <2>1. Next  BY DEF Next, Preflighted
  <2> QED  BY <1>0, <2>1, InvNext
<1>3. NoOverlap'  BY <1>0 DEF RecordTerminalRun, NoOverlap
<1>4. UNCHANGED <<claims, approvals, assets>>  BY DEF RecordTerminalRun
<1>5. RunningHoldsClaim'
  <2>1. status # "running"  BY DEF Preflight
  <2> QED  BY <1>0, <1>1, <1>4, <2>1, ExclusiveFrame
<1>6. IntentsBacked' /\ HistoryKept  BY <1>0, <1>1, <1>4, IntentsKept
<1>7. OthersKept(r)  BY <1>1, <1>4 DEF OthersKept
<1> QED  BY <1>2, <1>3, <1>5, <1>6, <1>7 DEF StoreInv

\* An unsuccessful end writes no intent and no metadata.
LEMMA StoreFails ==
  ASSUME StoreInv, NEW r \in Runs, NEW status \in Unsuccessful, FinishUnsuccessfulRun(r, status)
  PROVE  StoreInv' /\ OthersKept(r) /\ HistoryKept
<1>0. IInv /\ NoOverlap /\ RunningHoldsClaim /\ IntentsBacked  BY DEF StoreInv
<1>t. TypeOK /\ \A q \in Runs : runs[q] \in RunRows  BY <1>0 DEF IInv, TypeOK
<1>h. ClaimHeld(r)  BY DEF FinishUnsuccessfulRun
<1>1. /\ \A q \in Runs : runs'[q].event = runs[q].event /\ runs'[q].meta = runs[q].meta
      /\ \A q \in Runs : q # r => runs'[q] = runs[q]
      /\ runs'[r].status = status
  BY <1>t DEF FinishUnsuccessfulRun, RunRows, TypeOK
<1>2. IInv'
  <2>1. Next  BY DEF Next, Fail
  <2> QED  BY <1>0, <2>1, InvNext
<1>3. NoOverlap'  BY <1>0 DEF FinishUnsuccessfulRun, NoOverlap
<1>4. /\ UNCHANGED <<approvals, assets>>
      /\ \A z \in Scopes : z # ScopeOf(r) => claims'[z] = claims[z]
  BY <1>t DEF FinishUnsuccessfulRun, ScopeOf, TypeOK
<1>5. RunningHoldsClaim'
  <2>1. status # "running"  BY DEF Unsuccessful
  <2> QED  BY <1>0, <1>h, <1>1, <1>4, <2>1, ExclusiveFrame
<1>6. IntentsBacked' /\ HistoryKept  BY <1>0, <1>1, <1>4, IntentsKept
<1>7. OthersKept(r)  BY <1>0, <1>h, <1>1, <1>4, OthersApart
<1> QED  BY <1>2, <1>3, <1>5, <1>6, <1>7 DEF StoreInv

\* A run that settles without drafts writes its metadata where no intent is.
LEMMA StoreSettles ==
  ASSUME StoreInv, NEW r \in Runs, NEW meta \in Metas, CompleteNoAction(r, meta),
         approvals[runs[r].event].status = "absent"
  PROVE  StoreInv' /\ OthersKept(r) /\ HistoryKept
<1>0. IInv /\ NoOverlap /\ RunningHoldsClaim /\ IntentsBacked  BY DEF StoreInv
<1>t. TypeOK /\ \A q \in Runs : runs[q] \in RunRows  BY <1>0 DEF IInv, TypeOK
<1>h. ClaimHeld(r)  BY DEF CompleteNoAction
<1>1. /\ \A q \in Runs : runs'[q].event = runs[q].event
      /\ \A q \in Runs : q # r => runs'[q] = runs[q]
      /\ runs'[r].status = "no_action"
  BY <1>t DEF CompleteNoAction, RunRows, TypeOK
<1>2. IInv'
  <2>1. Next  BY DEF Next, NoAction
  <2> QED  BY <1>0, <2>1, InvNext
<1>3. NoOverlap'  BY <1>0 DEF CompleteNoAction, NoOverlap
<1>4. /\ UNCHANGED <<approvals, assets>>
      /\ \A z \in Scopes : z # ScopeOf(r) => claims'[z] = claims[z]
  BY <1>t DEF CompleteNoAction, CompleteDedupeAndCursor, ScopeOf, TypeOK
<1>5. RunningHoldsClaim'
  BY <1>0, <1>h, <1>1, <1>4, ExclusiveFrame
<1>6. \A q \in Runs : approvals[runs[q].event].status # "absent" => runs'[q].meta = runs[q].meta
  BY <1>1
<1>7. IntentsBacked' /\ HistoryKept  BY <1>0, <1>1, <1>4, <1>6, IntentsKept
<1>8. OthersKept(r)  BY <1>0, <1>h, <1>1, <1>4, OthersApart
<1> QED  BY <1>2, <1>3, <1>5, <1>7, <1>8 DEF StoreInv

\* The first intent of an event: its approval and its assets name the run that holds
\* the claim, with the metadata the run now carries.
LEMMA StoreIntends ==
  ASSUME StoreInv, NEW r \in Runs, NEW request \in Requests, NEW contents \in SUBSET Contents,
         NEW meta \in Metas, PersistApprovalIntent(r, request, contents, meta)
  PROVE  /\ StoreInv' /\ OthersKept(r) /\ HistoryKept /\ (ClaimHeld(r))'
         /\ runs'[r].event = runs[r].event /\ UNCHANGED claims
         /\ approvals'[runs[r].event].status = "creating"
         /\ approvals'[runs[r].event].run = r /\ runs'[r].meta = meta
         /\ \A f \in Events : f # runs[r].event => approvals'[f] = approvals[f]
<1> DEFINE e == runs[r].event
<1>0. IInv /\ NoOverlap /\ RunningHoldsClaim /\ IntentsBacked  BY DEF StoreInv
<1>t. TypeOK /\ (\A q \in Runs : runs[q] \in RunRows)
      /\ approvals \in [Events -> ApprovalRows] /\ DOMAIN assets = Scopes \X Contents
  BY <1>0 DEF IInv, TypeOK
<1>h. ClaimHeld(r) /\ e \in Events /\ approvals[e].status = "absent"
  BY <1>0, HolderFacts DEF PersistApprovalIntent
<1>1. /\ \A q \in Runs : runs'[q].event = runs[q].event /\ runs'[q].status = runs[q].status
                           /\ runs'[q].fence = runs[q].fence
      /\ \A q \in Runs : q # r => runs'[q] = runs[q]
      /\ runs'[r].meta = meta
  BY <1>t DEF PersistApprovalIntent, RunRows, TypeOK
<1>2. IInv'
  <2>1. Next  BY DEF Next, Intend
  <2> QED  BY <1>0, <2>1, InvNext
<1>3. NoOverlap'  BY <1>0 DEF PersistApprovalIntent, NoOverlap
<1>4. UNCHANGED claims  BY DEF PersistApprovalIntent
<1>5. RunningHoldsClaim'  BY <1>0, <1>1, <1>4, ExclusiveFrame
<1>6. /\ approvals'[e].status = "creating" /\ approvals'[e].run = r
      /\ \A f \in Events : f # e => approvals'[f] = approvals[f]
  <2>1. approvals' = [approvals EXCEPT ![e] = [status |-> "creating", run |-> r,
                                               request |-> request, issue |-> NoIssue]]
    BY DEF PersistApprovalIntent
  <2> QED  BY <2>1, <1>t, <1>h
<1>7. \A a \in Scopes \X Contents :
        assets'[a] = assets[a] \/ (assets'[a].approval = e /\ assets'[a].run = r)
  <2>1. assets' = [a \in DOMAIN assets |->
          IF a[1] = e[1] /\ a[2] \in contents THEN [approval |-> e, run |-> r] ELSE assets[a]]
    BY DEF PersistApprovalIntent
  <2> QED  BY <2>1, <1>t
<1>8. ASSUME NEW f \in Events, approvals[f].status # "absent"
      PROVE  /\ f # e /\ approvals[f].run \in Runs /\ approvals[f].run # r
             /\ runs[approvals[f].run].event = f
             /\ runs[approvals[f].run].meta \in Metas
  BY <1>0, <1>8, <1>h DEF IntentsBacked
<1>9. ASSUME NEW f \in Events, approvals'[f].status # "absent"
      PROVE  /\ approvals'[f].run \in Runs /\ runs'[approvals'[f].run].event = f
             /\ runs'[approvals'[f].run].meta \in Metas
  <2>1. CASE f = e  BY <2>1, <1>1, <1>6
  <2>2. CASE f # e  BY <2>2, <1>9, <1>1, <1>6, <1>8
  <2> QED  BY <2>1, <2>2
<1>10. ASSUME NEW a \in Scopes \X Contents, assets'[a].approval # NoEvent
       PROVE  /\ assets'[a].approval \in Events
              /\ approvals'[assets'[a].approval].status # "absent"
              /\ assets'[a].run \in Runs /\ runs'[assets'[a].run].event = assets'[a].approval
              /\ runs'[assets'[a].run].meta = runs'[approvals'[assets'[a].approval].run].meta
  <2>1. CASE assets'[a].approval = e /\ assets'[a].run = r
    BY <2>1, <1>h, <1>1, <1>6
  <2>2. CASE assets'[a] = assets[a]
    <3>1. /\ assets[a].approval \in Events
          /\ approvals[assets[a].approval].status # "absent"
          /\ assets[a].run \in Runs /\ runs[assets[a].run].event = assets[a].approval
          /\ runs[assets[a].run].meta = runs[approvals[assets[a].approval].run].meta
      BY <1>0, <1>10, <2>2 DEF IntentsBacked
    <3>2. assets[a].approval # e /\ assets[a].run # r  BY <3>1, <1>h
    <3>3. approvals[assets[a].approval].run \in Runs /\ approvals[assets[a].approval].run # r
      BY <3>1, <1>8
    <3>4. approvals'[assets[a].approval] = approvals[assets[a].approval]
      BY <3>1, <3>2, <1>6
    <3> QED  BY <2>2, <3>1, <3>2, <3>3, <3>4, <1>1
  <2> QED  BY <2>1, <2>2, <1>7
<1>11. IntentsBacked'  BY <1>9, <1>10 DEF IntentsBacked
<1>12. HistoryKept
  <2>1. \A f \in Events : approvals[f].status # "absent" =>
          approvals'[f] = approvals[f] /\ runs'[approvals[f].run].meta = runs[approvals[f].run].meta
    BY <1>8, <1>6, <1>1
  <2> QED  BY <2>1, <1>1 DEF HistoryKept
<1>13. OthersKept(r)  BY <1>0, <1>h, <1>1, <1>4, <1>6, OthersApart
<1>14. (ClaimHeld(r))'  BY <1>h, <1>1, <1>4 DEF ClaimHeld, VerifyClaim, ScopeOf
<1> QED  BY <1>1, <1>2, <1>3, <1>4, <1>5, <1>6, <1>11, <1>12, <1>13, <1>14 DEF StoreInv

\* The run that stages an event, whichever attempt stored the drafts, takes over the
\* approval with the metadata it was recovered with.
LEMMA StoreStages ==
  ASSUME StoreInv, NEW r \in Runs, NEW issue \in Issues, NEW meta,
         CompleteAwaitingApproval(r, runs[r].event, issue, meta),
         meta = runs[approvals[runs[r].event].run].meta
  PROVE  /\ StoreInv' /\ OthersKept(r) /\ HistoryKept
         /\ approvals'[runs[r].event].status = "awaiting_approval"
         /\ approvals'[runs[r].event].issue = issue
         /\ \A f \in Events : f # runs[r].event => approvals'[f] = approvals[f]
<1> DEFINE e == runs[r].event
<1>0. IInv /\ NoOverlap /\ RunningHoldsClaim /\ IntentsBacked  BY DEF StoreInv
<1>t. TypeOK /\ (\A q \in Runs : runs[q] \in RunRows)
      /\ approvals \in [Events -> ApprovalRows]
  BY <1>0 DEF IInv, TypeOK
<1>h. ClaimHeld(r) /\ e \in Events /\ approvals[e].status = "creating"
  BY <1>0, HolderFacts DEF CompleteAwaitingApproval
<1>m. approvals[e].run \in Runs /\ runs[approvals[e].run].event = e /\ meta \in Metas
  BY <1>0, <1>h DEF IntentsBacked
<1>1. /\ \A q \in Runs : runs'[q].event = runs[q].event
      /\ \A q \in Runs : q # r => runs'[q] = runs[q]
      /\ runs'[r].status = "awaiting_approval" /\ runs'[r].meta = meta
  <2>1. runs' = [runs EXCEPT ![r].status = "awaiting_approval", ![r].meta = meta,
                             ![r].approval = e]
    BY DEF CompleteAwaitingApproval
  <2>2. runs \in [Runs -> RunRows]  BY <1>t DEF TypeOK
  <2> QED  BY <2>1, <2>2 DEF RunRows
<1>2. IInv'
  <2>1. Next  BY <1>h, <1>m DEF Next, Stage
  <2> QED  BY <1>0, <2>1, InvNext
<1>3. NoOverlap'  BY <1>0 DEF CompleteAwaitingApproval, NoOverlap
<1>4. /\ UNCHANGED assets
      /\ \A z \in Scopes : z # ScopeOf(r) => claims'[z] = claims[z]
  BY <1>t DEF CompleteAwaitingApproval, CompleteDedupeAndCursor, ScopeOf, TypeOK
<1>5. RunningHoldsClaim'
  BY <1>0, <1>h, <1>1, <1>4, ExclusiveFrame
<1>6. /\ approvals'[e].status = "awaiting_approval" /\ approvals'[e].run = r
      /\ approvals'[e].issue = issue
      /\ \A f \in Events : f # e => approvals'[f] = approvals[f]
  <2>1. approvals' = [approvals EXCEPT ![e].status = "awaiting_approval",
                                       ![e].run = r, ![e].issue = issue]
    BY DEF CompleteAwaitingApproval
  <2>2. approvals[e] \in ApprovalRows  BY <1>t, <1>h
  <2> QED  BY <2>1, <2>2, <1>t, <1>h DEF ApprovalRows
<1>7. ASSUME NEW f \in Events, approvals'[f].status # "absent"
      PROVE  /\ approvals'[f].run \in Runs /\ runs'[approvals'[f].run].event = f
             /\ runs'[approvals'[f].run].meta = runs[approvals[f].run].meta
             /\ runs[approvals[f].run].meta \in Metas
  <2>1. CASE f = e  BY <2>1, <1>h, <1>m, <1>1, <1>6
  <2>2. CASE f # e
    <3>1. approvals'[f] = approvals[f]  BY <2>2, <1>6
    <3>2. /\ approvals[f].run \in Runs /\ runs[approvals[f].run].event = f
          /\ runs[approvals[f].run].meta \in Metas
      BY <1>0, <1>7, <3>1 DEF IntentsBacked
    <3>3. approvals[f].run # r  BY <3>2, <2>2
    <3> QED  BY <3>1, <3>2, <3>3, <1>1
  <2> QED  BY <2>1, <2>2
<1>8. \A f \in Events : approvals[f].status # "absent" => approvals'[f].status # "absent"
  BY <1>6
<1>9. ASSUME NEW a \in Scopes \X Contents, assets[a].approval # NoEvent
      PROVE  /\ assets[a].approval \in Events
             /\ approvals'[assets[a].approval].status # "absent"
             /\ assets[a].run \in Runs /\ runs'[assets[a].run].event = assets[a].approval
             /\ runs'[assets[a].run].meta = runs'[approvals'[assets[a].approval].run].meta
  <2>1. /\ assets[a].approval \in Events
        /\ approvals[assets[a].approval].status # "absent"
        /\ assets[a].run \in Runs /\ runs[assets[a].run].event = assets[a].approval
        /\ runs[assets[a].run].meta = runs[approvals[assets[a].approval].run].meta
    BY <1>0, <1>9 DEF IntentsBacked
  <2>2. PICK f \in Events : f = assets[a].approval  BY <2>1
  <2>3. runs'[approvals'[f].run].meta = runs[approvals[f].run].meta
    BY <2>1, <2>2, <1>7, <1>8
  <2>4. runs'[assets[a].run].meta = runs[assets[a].run].meta
    <3>1. CASE assets[a].run = r  BY <3>1, <2>1, <1>1
    <3>2. CASE assets[a].run # r  BY <3>2, <2>1, <1>1
    <3> QED  BY <3>1, <3>2
  <2> QED  BY <2>1, <2>2, <2>3, <2>4, <1>1, <1>8
<1>10. IntentsBacked'  BY <1>4, <1>7, <1>9 DEF IntentsBacked
<1>11. HistoryKept
  <2>1. \A f \in Events : approvals'[f].status = "creating" => f # e  BY <1>6
  <2> QED  BY <2>1, <1>1, <1>6, <1>7, <1>8 DEF HistoryKept
<1>12. OthersKept(r)  BY <1>0, <1>h, <1>1, <1>4, <1>6, OthersApart
<1> QED  BY <1>2, <1>3, <1>5, <1>6, <1>10, <1>11, <1>12 DEF StoreInv

-----------------------------------------------------------------------------
(* The workers.                                                            *)

\* The steps after the drafts are stored, and after their files are written.
Posting == {"find", "post", "posting", "posted", "refind", "complete"}
Staging == {"mirror"} \cup Posting

\* The values of the variables that the store does not have.
JobTypes ==
  /\ job      \in [Workers -> Jobs]
  /\ released \in [Scopes -> SUBSET Keys]
  /\ content  \in [Events -> Inputs]
  /\ remote   \in [Issues -> Events \cup {NoEvent}]
  /\ stray    \subseteq Events
  /\ mirrored \subseteq Events

\* A worker's locals name an event and, from the claim on, a run of that event.
Working(w) ==
  /\ job[w].pc # "idle" =>
       /\ job[w].event \in Events /\ job[w].input \in Inputs /\ job[w].lease \in Leases
  /\ job[w].pc = "claim" => job[w].deadline <= now + job[w].lease
  /\ job[w].pc \in Claimed => job[w].run \in Runs /\ runs[job[w].run].event = job[w].event

\* Until its deadline a worker's claim is in force, and lasts as long.
Holding(w) ==
  job[w].pc \in Claimed /\ Alive(w) =>
    ClaimHeld(job[w].run) /\ job[w].deadline <= claims[job[w].event[1]].lease

\* What a worker has learnt is still so: a live one that generates has no intent to
\* recover; one that stages has its intent with the metadata of its drafts, then
\* its files, then its issue.
Informed(w) ==
  /\ job[w].pc \in {"generate", "no_action", "intend"} /\ Alive(w) =>
       approvals[job[w].event].status = "absent"
  /\ job[w].pc \in {"no_action", "intend"} => job[w].meta \in Metas
  /\ job[w].pc \in Staging =>
       /\ approvals[job[w].event].status # "absent"
       /\ approvals[job[w].event].status = "creating" =>
            job[w].meta = runs[approvals[job[w].event].run].meta
  /\ job[w].pc \in Posting => job[w].event \in mirrored
  /\ job[w].pc \in {"posted", "complete"} =>
       job[w].issue \in Issues /\ remote[job[w].issue] = job[w].event

\* A live worker posts only what no issue is marked with.
Searching(w) ==
  ~LateAccept /\ job[w].pc \in {"post", "posting"} /\ Alive(w) =>
    \A g \in Issues : remote[g] # job[w].event

Own(w) == Working(w) /\ Holding(w) /\ Informed(w) /\ Searching(w)

\* No two workers work for one run.
Apart ==
  \A v, w \in Workers :
    v # w /\ job[v].pc \in Claimed /\ job[w].pc \in Claimed => job[v].run # job[w].run

\* Every issue, and every POST that may still be applied, has its intent and files.
IssuesBacked ==
  /\ \A g \in Issues : remote[g] # NoEvent =>
       approvals[remote[g]].status # "absent" /\ remote[g] \in mirrored
  /\ \A e \in stray : approvals[e].status # "absent" /\ e \in mirrored
  /\ \A e \in Events : approvals[e].status = "awaiting_approval" =>
       approvals[e].issue \in Issues /\ remote[approvals[e].issue] = e

\* Unless GitHub applies a POST late, an event has one issue.
IssuesSingle ==
  ~LateAccept =>
    /\ stray = {}
    /\ \A g, h \in Issues : remote[g] # NoEvent /\ remote[g] = remote[h] => g = h

\* The inductive invariant of the release workflow.
WInv ==
  /\ StoreInv
  /\ JobTypes
  /\ \A w \in Workers : Own(w)
  /\ Apart
  /\ IssuesBacked
  /\ IssuesSingle

\* Nobody works when the program starts.
LEMMA WorkflowInvInit == WorkflowInit => WInv
<1> SUFFICES ASSUME WorkflowInit PROVE WInv
  OBVIOUS
<1>1. StoreInv  BY StoreInvInit DEF WorkflowInit
<1>2. Idle \in Jobs  BY DEF Idle, Jobs, Steps
<1>3. JobTypes  BY <1>2 DEF WorkflowInit, JobTypes
<1>4. \A w \in Workers : job[w].pc = "idle"  BY DEF WorkflowInit, Idle
<1>5. \A w \in Workers : Own(w)
  BY <1>4 DEF Own, Working, Holding, Informed, Searching, Claimed, Staging, Posting
<1>6. Apart  BY <1>4 DEF Apart, Claimed
<1>7. IssuesBacked  BY DEF WorkflowInit, Init, NoApproval, IssuesBacked
<1>8. IssuesSingle  BY DEF WorkflowInit, IssuesSingle
<1> QED  BY <1>1, <1>3, <1>5, <1>6, <1>7, <1>8 DEF WInv

\* A worker that takes no part in a step finds all it relies on as before, whatever
\* the step does under the claim of another run.
LEMMA Bystander ==
  ASSUME WInv, NEW r, NEW v \in Workers, HistoryKept, OthersKept(r),
         job'[v] = job[v], job[v].pc \in Claimed => job[v].run # r,
         now' \in Nat, now' >= now, mirrored \subseteq mirrored',
         \A g \in Issues : remote[g] # NoEvent => remote'[g] = remote[g],
         Searching(v)'
  PROVE  Own(v)'
<1> DEFINE q == job[v].run
           e == job[v].event
<1>0. Own(v) /\ StoreInv /\ IInv /\ job[v] \in Jobs  BY DEF WInv, StoreInv, JobTypes
<1>t. now \in Nat /\ job[v].deadline \in Nat  BY <1>0 DEF IInv, TypeOK, Jobs
<1>1. job[v].pc # "idle" => e \in Events /\ job[v].input \in Inputs /\ job[v].lease \in Leases
  BY <1>0 DEF Own, Working
<1>2. job[v].pc = "claim" => job[v].deadline <= now + job[v].lease
  BY <1>0 DEF Own, Working
<1>3. job[v].pc \in Claimed => q \in Runs /\ runs[q].event = e /\ e \in Events /\ e # NoEvent
  BY <1>0, <1>1, NullsAssumption DEF Own, Working, Claimed
<1>4. job[v].pc \in Claimed => runs'[q].event = e
  BY <1>3 DEF HistoryKept
<1>5. (Alive(v))' => Alive(v)  BY <1>t DEF Alive
<1>6. job[v].pc \in Claimed /\ Alive(v) =>
        /\ ClaimHeld(q) /\ job[v].deadline <= claims[e[1]].lease
        /\ ScopeOf(q) = e[1] /\ claims[e[1]].lease \in Nat
  <2>1. SUFFICES ASSUME job[v].pc \in Claimed, Alive(v)
                 PROVE  /\ ClaimHeld(q) /\ job[v].deadline <= claims[e[1]].lease
                        /\ ScopeOf(q) = e[1] /\ claims[e[1]].lease \in Nat
    OBVIOUS
  <2>2. ClaimHeld(q) /\ job[v].deadline <= claims[e[1]].lease  BY <1>0, <2>1 DEF Own, Holding
  <2>3. ScopeOf(q) = e[1] /\ e[1] \in Scopes  BY <1>3, <2>1 DEF ScopeOf, Events
  <2>4. claims[e[1]].lease \in Nat  BY <1>0, <2>3 DEF IInv, TypeOK, ClaimRows
  <2> QED  BY <2>2, <2>3, <2>4
<1>7. job[v].pc \in Claimed /\ Alive(v) =>
        /\ runs'[q] = runs[q] /\ claims'[e[1]] = claims[e[1]]
        /\ approvals[e].status = "absent" => approvals'[e].status = "absent"
  <2>1. SUFFICES ASSUME job[v].pc \in Claimed, Alive(v)
                 PROVE  /\ runs'[q] = runs[q] /\ claims'[e[1]] = claims[e[1]]
                        /\ approvals[e].status = "absent" => approvals'[e].status = "absent"
    OBVIOUS
  <2>2. claims[ScopeOf(q)].lease > now  BY <1>6, <1>t, <2>1 DEF Alive
  <2> QED  BY <1>3, <1>6, <2>1, <2>2 DEF OthersKept
<1>8. Working(v)'
  <2>1. job[v].pc = "claim" => job[v].lease \in Nat
    BY <1>1, ConstantsAssumption
  <2>2. job[v].pc = "claim" => job[v].deadline <= now' + job[v].lease
    BY <1>2, <1>t, <2>1
  <2> QED  BY <1>1, <1>3, <1>4, <2>2 DEF Working
<1>9. Holding(v)'
  <2>1. SUFFICES ASSUME job[v].pc \in Claimed, (Alive(v))'
                 PROVE  (ClaimHeld(q))' /\ job[v].deadline <= claims'[e[1]].lease
    BY DEF Holding
  <2>2. Alive(v)  BY <1>5, <2>1
  <2>3. runs'[q] = runs[q] /\ claims'[e[1]] = claims[e[1]] /\ runs[q].event = e
    BY <1>3, <1>7, <2>1, <2>2
  <2>4. ClaimHeld(q) /\ job[v].deadline <= claims[e[1]].lease  BY <1>6, <2>1, <2>2
  <2>5. (ClaimHeld(q))'  BY <2>3, <2>4 DEF ClaimHeld, VerifyClaim, ScopeOf
  <2> QED  BY <2>3, <2>4, <2>5
<1>10. Informed(v)'
  <2>0. Informed(v)  BY <1>0 DEF Own
  <2>1. job[v].pc \in {"generate", "no_action", "intend"} /\ (Alive(v))' =>
          approvals'[e].status = "absent"
    BY <2>0, <1>5, <1>7 DEF Informed, Claimed
  <2>2. job[v].pc \in Staging =>
          /\ approvals'[e].status # "absent"
          /\ approvals'[e].status = "creating" => job[v].meta = runs'[approvals'[e].run].meta
    <3>1. SUFFICES ASSUME job[v].pc \in Staging
                   PROVE  /\ approvals'[e].status # "absent"
                          /\ approvals'[e].status = "creating" =>
                               job[v].meta = runs'[approvals'[e].run].meta
      OBVIOUS
    <3>2. e \in Events /\ approvals[e].status # "absent"
      BY <2>0, <1>3, <3>1 DEF Informed, Claimed, Staging, Posting
    <3>3. approvals[e].status = "creating" => job[v].meta = runs[approvals[e].run].meta
      BY <2>0, <3>1 DEF Informed
    <3> QED  BY <3>2, <3>3 DEF HistoryKept
  <2>3. job[v].pc \in Posting => e \in mirrored'  BY <2>0 DEF Informed
  <2>4. job[v].pc \in {"posted", "complete"} =>
          job[v].issue \in Issues /\ remote'[job[v].issue] = e
    BY <2>0, <1>3 DEF Informed, Claimed
  <2>5. job[v].pc \in {"no_action", "intend"} => job[v].meta \in Metas
    BY <2>0 DEF Informed
  <2> QED  BY <2>1, <2>2, <2>3, <2>4, <2>5 DEF Informed
<1> QED  BY <1>8, <1>9, <1>10 DEF Own

\* A worker goes on searching while no issue appears and time does not run back.
LEMMA StillSearching ==
  ASSUME WInv, NEW v \in Workers, job'[v] = job[v], remote' = remote,
         now' \in Nat, now' >= now
  PROVE  Searching(v)'
<1>1. Searching(v) /\ job[v].deadline \in Nat /\ now \in Nat
  BY DEF WInv, Own, StoreInv, IInv, TypeOK, JobTypes, Jobs
<1>2. (Alive(v))' => Alive(v)  BY <1>1 DEF Alive
<1> QED  BY <1>1, <1>2 DEF Searching

\* Intents are never withdrawn, nor files deleted, so what an issue needs stays.
LEMMA IssuesKept ==
  ASSUME WInv, HistoryKept, remote' = remote, mirrored \subseteq mirrored',
         \A e \in stray' : approvals'[e].status # "absent" /\ e \in mirrored',
         \A e \in Events : approvals'[e].status = "awaiting_approval" =>
           approvals'[e].issue \in Issues /\ remote[approvals'[e].issue] = e
  PROVE  IssuesBacked'
<1>1. ASSUME NEW g \in Issues, remote[g] # NoEvent
      PROVE  approvals'[remote[g]].status # "absent" /\ remote[g] \in mirrored'
  <2>1. remote[g] \in Events  BY <1>1 DEF WInv, JobTypes
  <2>2. approvals[remote[g]].status # "absent" /\ remote[g] \in mirrored
    BY <1>1 DEF WInv, IssuesBacked
  <2>3. PICK e \in Events : e = remote[g]  BY <2>1
  <2>4. approvals'[e].status # "absent"  BY <2>2, <2>3 DEF HistoryKept
  <2> QED  BY <2>2, <2>3, <2>4
<1> QED  BY <1>1 DEF IssuesBacked

\* A step in which no worker takes part.
LEMMA WorldStep ==
  ASSUME WInv, NEW r, StoreInv', HistoryKept, OthersKept(r), JobTypes', job' = job,
         \A v \in Workers : job[v].pc \in Claimed => job[v].run # r,
         now' >= now, mirrored \subseteq mirrored',
         \A g \in Issues : remote[g] # NoEvent => remote'[g] = remote[g],
         \A v \in Workers : Searching(v)',
         IssuesBacked', IssuesSingle'
  PROVE  WInv'
<1>0. now' \in Nat  BY DEF StoreInv, IInv, TypeOK
<1>1. ASSUME NEW v \in Workers PROVE Own(v)'
  BY <1>0, Bystander
<1>2. Apart'  BY DEF WInv, Apart
<1> QED  BY <1>1, <1>2 DEF WInv

\* A step of worker w: the others are bystanders.
LEMMA WorkerStep ==
  ASSUME WInv, NEW w \in Workers, NEW r, StoreInv', HistoryKept, OthersKept(r), JobTypes',
         \A v \in Workers : v # w => job'[v] = job[v],
         \A v \in Workers : v # w /\ job[v].pc \in Claimed => job[v].run # r,
         now' >= now, mirrored \subseteq mirrored',
         \A g \in Issues : remote[g] # NoEvent => remote'[g] = remote[g],
         \A v \in Workers : v # w => Searching(v)',
         Own(w)',
         job'[w].pc \in Claimed =>
           \A v \in Workers : v # w /\ job[v].pc \in Claimed => job[v].run # job'[w].run,
         IssuesBacked', IssuesSingle'
  PROVE  WInv'
<1>0. now' \in Nat  BY DEF StoreInv, IInv, TypeOK
<1>1. ASSUME NEW v \in Workers PROVE Own(v)'
  <2>1. CASE v = w  BY <2>1
  <2>2. CASE v # w  BY <2>2, <1>0, Bystander
  <2> QED  BY <2>1, <2>2
<1>2. Apart'
  <2>1. ASSUME NEW u \in Workers, NEW v \in Workers, u # v, job'[u].pc \in Claimed,
               job'[v].pc \in Claimed
        PROVE  job'[u].run # job'[v].run
    <3>1. CASE u = w  BY <2>1, <3>1
    <3>2. CASE v = w  BY <2>1, <3>2
    <3>3. CASE u # w /\ v # w  BY <2>1, <3>3 DEF WInv, Apart
    <3> QED  BY <3>1, <3>2, <3>3
  <2> QED  BY <2>1 DEF Apart
<1> QED  BY <1>1, <1>2 DEF WInv

\* A step of worker w that writes nothing to the store and creates no issue.
LEMMA LocalStep ==
  ASSUME WInv, NEW w \in Workers, UNCHANGED <<vars, released, content, remote>>,
         job' \in [Workers -> Jobs], \A v \in Workers : v # w => job'[v] = job[v],
         Own(w)', job'[w].pc \in Claimed => job[w].pc \in Claimed /\ job'[w].run = job[w].run,
         mirrored \subseteq mirrored', mirrored' \subseteq Events,
         \/ stray' = stray
         \/ LateAccept /\ stray' = stray \cup {job[w].event} /\ job[w].pc \in Posting
  PROVE  WInv'
<1>0. IInv /\ StoreInv /\ JobTypes /\ TypeOK /\ NoOverlap /\ now \in Nat /\ IssuesBacked
      /\ IssuesSingle
  BY DEF WInv, StoreInv, IInv, TypeOK
<1>u. UNCHANGED <<workflows, runs, claims, dedupe, approvals, assets, cursors, errors, audit, now>>
  BY DEF vars
<1>1. TypeOK'  BY <1>0, <1>u DEF TypeOK
<1>2. NoOverlap' /\ now' >= now  BY <1>0, <1>u DEF NoOverlap
<1>3. StoreInv' /\ HistoryKept /\ OthersKept(NoRun)
  BY <1>0, <1>u, <1>1, <1>2, StoreIdles
<1>4. job[w].pc \in Posting =>
        /\ job[w].event \in Events /\ job[w].event \in mirrored
        /\ approvals[job[w].event].status # "absent"
  <2>1. Own(w)  BY DEF WInv
  <2>2. job[w].pc \in Posting => job[w].pc \in Staging /\ job[w].pc # "idle"
    BY DEF Posting, Staging
  <2> QED  BY <2>1, <2>2 DEF Own, Working, Informed
<1>5. JobTypes'  BY <1>0, <1>4 DEF JobTypes
<1>6. \A e \in stray' : approvals[e].status # "absent" /\ e \in mirrored
  BY <1>0, <1>4 DEF IssuesBacked
<1>7. IssuesBacked'
  <2>1. \A e \in stray' : approvals'[e].status # "absent" /\ e \in mirrored'
    BY <1>6, <1>u
  <2>2. \A e \in Events : approvals'[e].status = "awaiting_approval" =>
          approvals'[e].issue \in Issues /\ remote[approvals'[e].issue] = e
    BY <1>0, <1>u DEF IssuesBacked
  <2>3. remote' = remote  OBVIOUS
  <2> QED  BY <2>1, <2>2, <2>3, <1>3, IssuesKept
<1>8. IssuesSingle'  BY <1>0 DEF IssuesSingle
<1>9. \A v \in Workers : v # w => Searching(v)'
  BY <1>0, <1>2, <1>u, StillSearching
<1>10. \A v \in Workers : job[v].pc \in Claimed => job[v].run # NoRun
  BY NullsAssumption DEF WInv, Own, Working
<1>11. job'[w].pc \in Claimed =>
         \A v \in Workers : v # w /\ job[v].pc \in Claimed => job[v].run # job'[w].run
  BY DEF WInv, Apart
<1>12. \A g \in Issues : remote[g] # NoEvent => remote'[g] = remote[g]
  OBVIOUS
<1> QED  BY <1>2, <1>3, <1>5, <1>7, <1>8, <1>9, <1>10, <1>11, <1>12, WorkerStep

\* A worker that returns relies on nothing.
LEMMA Returned ==
  ASSUME JobTypes, NEW w \in Workers, Return(w)
  PROVE  /\ job' \in [Workers -> Jobs] /\ job'[w].pc = "idle" /\ Own(w)'
         /\ \A v \in Workers : v # w => job'[v] = job[v]
<1>1. Idle \in Jobs  BY DEF Idle, Jobs, Steps
<1>2. job'[w] = Idle /\ \A v \in Workers : v # w => job'[v] = job[v]
  BY DEF Return, JobTypes
<1>3. job' \in [Workers -> Jobs]  BY <1>1 DEF Return, JobTypes
<1>4. job'[w].pc = "idle"  BY <1>2 DEF Idle
<1>5. Own(w)'
  BY <1>4 DEF Own, Working, Holding, Informed, Searching, Claimed, Staging, Posting
<1> QED  BY <1>2, <1>3, <1>4, <1>5

\* The return of a worker that leaves the store alone.
LEMMA ReturnStep ==
  ASSUME WInv, NEW w \in Workers, Return(w),
         UNCHANGED <<vars, released, content, remote, mirrored>>,
         \/ stray' = stray
         \/ LateAccept /\ stray' = stray \cup {job[w].event} /\ job[w].pc \in Posting
  PROVE  WInv'
<1>0. JobTypes  BY DEF WInv
<1>1. /\ job' \in [Workers -> Jobs] /\ job'[w].pc = "idle" /\ Own(w)'
      /\ \A v \in Workers : v # w => job'[v] = job[v]
  BY <1>0, Returned
<1>2. job'[w].pc \notin Claimed  BY <1>1 DEF Claimed
<1>3. mirrored \subseteq mirrored' /\ mirrored' \subseteq Events  BY <1>0 DEF JobTypes
<1> QED  BY <1>1, <1>2, <1>3, LocalStep

\* A worker that goes on keeps its other locals.
LEMMA Going ==
  ASSUME JobTypes, NEW w \in Workers, NEW step \in Steps, Goto(w, step)
  PROVE  /\ job' \in [Workers -> Jobs] /\ job'[w].pc = step
         /\ job'[w].event = job[w].event /\ job'[w].input = job[w].input
         /\ job'[w].run = job[w].run /\ job'[w].deadline = job[w].deadline
         /\ job'[w].lease = job[w].lease /\ job'[w].meta = job[w].meta
         /\ job'[w].issue = job[w].issue
         /\ \A v \in Workers : v # w => job'[v] = job[v]
<1>1. job \in [Workers -> Jobs] /\ job[w] \in Jobs  BY DEF JobTypes
<1>2. job' = [job EXCEPT ![w].pc = step]  BY DEF Goto
<1> QED  BY <1>1, <1>2 DEF Jobs

\* The next step of a worker that leaves the store alone: its claim and locals are as
\* before, so only what it has learnt is to be shown.
LEMMA GotoStep ==
  ASSUME WInv, NEW w \in Workers, NEW step \in Steps,
         UNCHANGED <<vars, released, content, remote>>,
         job' \in [Workers -> Jobs], \A v \in Workers : v # w => job'[v] = job[v],
         job'[w].pc = step, job'[w].event = job[w].event, job'[w].input = job[w].input,
         job'[w].run = job[w].run, job'[w].deadline = job[w].deadline,
         job'[w].lease = job[w].lease,
         job[w].pc # "idle", step # "claim", step \in Claimed => job[w].pc \in Claimed,
         Informed(w)', Searching(w)',
         mirrored \subseteq mirrored', mirrored' \subseteq Events,
         \/ stray' = stray
         \/ LateAccept /\ stray' = stray \cup {job[w].event} /\ job[w].pc \in Posting
  PROVE  WInv'
<1>0. Own(w)  BY DEF WInv
<1>u. UNCHANGED <<runs, claims, now>>  BY DEF vars
<1>1. Working(w)'  BY <1>0, <1>u DEF Own, Working
<1>2. (Alive(w))' <=> Alive(w)  BY <1>u DEF Alive
<1>3. Holding(w)'
  <2>1. Holding(w)  BY <1>0 DEF Own
  <2>2. (ClaimHeld(job[w].run))' <=> ClaimHeld(job[w].run)
    BY <1>u DEF ClaimHeld, VerifyClaim, ScopeOf
  <2> QED  BY <1>2, <2>1, <2>2, <1>u DEF Holding
<1>4. Own(w)'  BY <1>1, <1>3 DEF Own
<1> QED  BY <1>4, LocalStep

\* A worker that gives up relies on nothing but its run.
LEMMA EndStep ==
  ASSUME WInv, NEW w \in Workers, NEW step \in {"refused"} \cup Unsuccessful, Goto(w, step),
         UNCHANGED <<store, external, mirrored>>,
         job[w].pc # "idle", step # "refused" => job[w].pc \in Claimed
  PROVE  WInv'
<1>0. JobTypes  BY DEF WInv
<1>1. step \in Steps /\ step # "claim" /\ (step \in Claimed => job[w].pc \in Claimed)
  BY DEF Steps, Claimed, Unsuccessful
<1>2. step \notin {"generate", "no_action", "intend", "post", "posting", "posted", "complete"}
      /\ step \notin Staging /\ step \notin Posting
  BY DEF Staging, Posting, Unsuccessful
<1>3. /\ job' \in [Workers -> Jobs] /\ job'[w].pc = step
      /\ job'[w].event = job[w].event /\ job'[w].input = job[w].input
      /\ job'[w].run = job[w].run /\ job'[w].deadline = job[w].deadline
      /\ job'[w].lease = job[w].lease
      /\ \A v \in Workers : v # w => job'[v] = job[v]
  BY <1>0, <1>1, Going
<1>4. Informed(w)'  BY <1>2, <1>3 DEF Informed
<1>5. Searching(w)'  BY <1>2, <1>3 DEF Searching
<1>6. UNCHANGED <<vars, released, content, remote>> /\ UNCHANGED <<stray, mirrored>>
  BY DEF store, external
<1>7. mirrored \subseteq mirrored' /\ mirrored' \subseteq Events  BY <1>0, <1>6 DEF JobTypes
<1> QED  BY <1>1, <1>3, <1>4, <1>5, <1>6, <1>7, GotoStep

-----------------------------------------------------------------------------
(* One lemma for each step of Run.                                         *)

\* The read of a release gives a worker an event and a deadline; it has no claim.
LEMMA BeginKeeps ==
  ASSUME WInv, NEW w \in Workers, NEW e \in Events, NEW d \in Leases, Begin(w, e, d)
  PROVE  WInv'
<1> DEFINE j == [Idle EXCEPT !.pc = "claim", !.event = e, !.input = content[e],
                             !.deadline = now + d, !.lease = d]
<1>0. JobTypes /\ job \in [Workers -> Jobs] /\ now \in Nat /\ d \in Nat
  BY ConstantsAssumption DEF WInv, StoreInv, IInv, TypeOK, JobTypes
<1>1. Idle \in Jobs  BY DEF Idle, Jobs, Steps
<1>2. content[e] \in Inputs /\ now + d \in Nat  BY <1>0 DEF JobTypes
<1>3. j \in Jobs  BY <1>0, <1>1, <1>2 DEF Jobs, Steps
<1>4. j.pc = "claim" /\ j.event = e /\ j.input = content[e] /\ j.deadline = now + d /\ j.lease = d
  BY DEF Idle
<1>5. job' = [job EXCEPT ![w] = j]  BY DEF Begin
<1>6. /\ job' \in [Workers -> Jobs] /\ job'[w] = j
      /\ \A v \in Workers : v # w => job'[v] = job[v]
  BY <1>0, <1>3, <1>5
<1>7. UNCHANGED <<vars, released, content, remote, stray, mirrored>> /\ now' = now
  BY DEF Begin, store, external, vars
<1>8. job'[w].pc = "claim" /\ job'[w].pc \notin Claimed /\ job'[w].pc \notin Staging
      /\ job'[w].pc \notin Posting
  BY <1>4, <1>6 DEF Claimed, Staging, Posting
<1>9. Working(w)'  BY <1>2, <1>4, <1>6, <1>7, <1>8 DEF Working
<1>10. Own(w)'  BY <1>8, <1>9 DEF Own, Holding, Informed, Searching
<1>11. mirrored \subseteq mirrored' /\ mirrored' \subseteq Events  BY <1>0, <1>7 DEF JobTypes
<1> QED  BY <1>6, <1>7, <1>8, <1>10, <1>11, LocalStep

\* A blocked run is nobody's.
LEMMA BlockedKeeps ==
  ASSUME WInv, NEW w \in Workers, NEW s \in Scopes, NEW r \in Runs, Blocked(w, s, r)
  PROVE  WInv'
<1>0. StoreInv /\ IInv /\ JobTypes /\ IssuesBacked /\ IssuesSingle  BY DEF WInv, StoreInv
<1>1. RecordTerminalRun(r, "blocked") /\ "blocked" \in Preflight
  BY DEF Blocked, Preflight
<1>2. StoreInv' /\ OthersKept(r) /\ HistoryKept  BY <1>0, <1>1, StoreRecords
<1>3. UNCHANGED <<job, released, content, remote, stray, mirrored, approvals, now>>
  BY <1>1 DEF Blocked, external, RecordTerminalRun
<1>4. JobTypes'  BY <1>0, <1>3 DEF JobTypes
<1>5. \A v \in Workers : job[v].pc \in Claimed => job[v].run # r
  <2>1. runs[r].event = NoEvent  BY <1>0, <1>1 DEF RecordTerminalRun, IInv, RowsAgree
  <2>2. \A v \in Workers : job[v].pc \in Claimed =>
          runs[job[v].run].event = job[v].event /\ job[v].event \in Events
    BY DEF WInv, Own, Working, Claimed
  <2> QED  BY <2>1, <2>2, NullsAssumption
<1>6. now' \in Nat /\ now' >= now  BY <1>0, <1>3 DEF IInv, TypeOK
<1>7. \A v \in Workers : Searching(v)'  BY <1>3, <1>6, StillSearching
<1>8. IssuesBacked'
  <2>1. \A e \in stray' : approvals'[e].status # "absent" /\ e \in mirrored'
    BY <1>0, <1>3 DEF IssuesBacked
  <2>2. \A e \in Events : approvals'[e].status = "awaiting_approval" =>
          approvals'[e].issue \in Issues /\ remote[approvals'[e].issue] = e
    BY <1>0, <1>3 DEF IssuesBacked
  <2> QED  BY <1>2, <1>3, <2>1, <2>2, IssuesKept
<1>9. IssuesSingle'  BY <1>0, <1>3 DEF IssuesSingle
<1> QED  BY <1>2, <1>3, <1>4, <1>5, <1>6, <1>7, <1>8, <1>9, WorldStep

\* The claim is granted: its lease ends no sooner than the worker's deadline.
LEMMA ClaimKeeps ==
  ASSUME WInv, NEW w \in Workers, NEW r \in Runs, ClaimEvent(w, r)
  PROVE  WInv'
<1> DEFINE e == job[w].event
           d == job[w].lease
<1>0. StoreInv /\ IInv /\ JobTypes /\ IssuesBacked /\ IssuesSingle /\ Own(w)
  BY DEF WInv, StoreInv
<1>1. At(w, "claim") /\ job[w].pc = "claim" /\ ClaimWorkflow(r, e, job[w].input, d)
  BY DEF ClaimEvent, At
<1>2. e \in Events /\ job[w].input \in Inputs /\ d \in Leases /\ job[w].deadline <= now + d
  BY <1>0, <1>1 DEF Own, Working
<1>3. /\ StoreInv' /\ OthersKept(r) /\ HistoryKept
      /\ (ClaimHeld(r))' /\ runs'[r].event = e /\ claims'[e[1]].lease = now + d
  BY <1>0, <1>1, <1>2, StoreClaims
<1>4. UNCHANGED <<released, content, remote, stray, mirrored, approvals, now>>
  BY <1>1 DEF ClaimEvent, external, ClaimWorkflow
<1>5. job' = [job EXCEPT ![w].pc = "lookup", ![w].run = r]  BY DEF ClaimEvent
<1>6. job[w] \in Jobs /\ job \in [Workers -> Jobs]  BY <1>0 DEF JobTypes
<1>7. /\ job' \in [Workers -> Jobs] /\ job'[w].pc = "lookup" /\ job'[w].run = r
      /\ job'[w].event = e /\ job'[w].input = job[w].input /\ job'[w].lease = d
      /\ job'[w].deadline = job[w].deadline
      /\ \A v \in Workers : v # w => job'[v] = job[v]
  BY <1>5, <1>6 DEF Jobs, Steps, Claimed
<1>8. JobTypes'  BY <1>0, <1>4, <1>7 DEF JobTypes
<1>9. Working(w)'  BY <1>2, <1>3, <1>7 DEF Working
<1>10. Holding(w)'  BY <1>2, <1>3, <1>7 DEF Holding
<1>11. Own(w)'  BY <1>7, <1>9, <1>10 DEF Own, Informed, Searching, Staging, Posting
<1>12. \A v \in Workers : job[v].pc \in Claimed => job[v].run # r
  <2>1. runs[r].event = NoEvent  BY <1>0, <1>1 DEF ClaimWorkflow, IInv, RowsAgree
  <2>2. \A v \in Workers : job[v].pc \in Claimed =>
          runs[job[v].run].event = job[v].event /\ job[v].event \in Events
    BY DEF WInv, Own, Working, Claimed
  <2> QED  BY <2>1, <2>2, NullsAssumption
<1>13. now' \in Nat /\ now' >= now  BY <1>0, <1>4 DEF IInv, TypeOK
<1>14. \A v \in Workers : v # w => Searching(v)'  BY <1>4, <1>7, <1>13, StillSearching
<1>15. IssuesBacked'
  <2>1. \A f \in stray' : approvals'[f].status # "absent" /\ f \in mirrored'
    BY <1>0, <1>4 DEF IssuesBacked
  <2>2. \A f \in Events : approvals'[f].status = "awaiting_approval" =>
          approvals'[f].issue \in Issues /\ remote[approvals'[f].issue] = f
    BY <1>0, <1>4 DEF IssuesBacked
  <2> QED  BY <1>3, <1>4, <2>1, <2>2, IssuesKept
<1>16. IssuesSingle'  BY <1>0, <1>4 DEF IssuesSingle
<1> QED
  BY <1>3, <1>4, <1>7, <1>8, <1>11, <1>12, <1>13, <1>14, <1>15, <1>16, WorkerStep

\* ApprovalByDedupe tells a worker whether there are drafts to generate, or takes the
\* metadata of an intent to recover.
LEMMA LookupKeeps ==
  ASSUME WInv, NEW w \in Workers, Lookup(w)
  PROVE  WInv'
<1> DEFINE e == job[w].event
<1>0. StoreInv /\ IntentsBacked /\ TypeOK /\ JobTypes /\ Own(w)
  BY DEF WInv, StoreInv, IInv
<1>1. job[w].pc = "lookup" /\ job[w].pc # "idle" /\ job[w].pc \in Claimed
  BY DEF Lookup, At, Claimed
<1>2. e \in Events /\ approvals[e] \in ApprovalRows
  BY <1>0, <1>1 DEF Own, Working, TypeOK
<1>3. UNCHANGED <<store, external, mirrored>> /\ UNCHANGED <<vars, released, content, remote>>
      /\ UNCHANGED <<stray, mirrored, approvals, runs>>
  BY DEF Lookup, store, external, vars
<1>4. mirrored \subseteq mirrored' /\ mirrored' \subseteq Events  BY <1>0, <1>3 DEF JobTypes
<1>5. CASE approvals[e].status = "absent" /\ Goto(w, "generate")
  <2>1. "generate" \in Steps /\ "generate" # "claim"  BY DEF Steps, Claimed
  <2>2. /\ job' \in [Workers -> Jobs] /\ job'[w].pc = "generate"
        /\ job'[w].event = e /\ job'[w].input = job[w].input
        /\ job'[w].run = job[w].run /\ job'[w].deadline = job[w].deadline
        /\ job'[w].lease = job[w].lease
        /\ \A v \in Workers : v # w => job'[v] = job[v]
    BY <1>0, <1>5, <2>1, Going
  <2>3. Informed(w)'  BY <1>3, <1>5, <2>2 DEF Informed, Staging, Posting
  <2>4. Searching(w)'  BY <2>2 DEF Searching
  <2> QED  BY <1>1, <1>3, <1>4, <2>1, <2>2, <2>3, <2>4, GotoStep
<1>6. CASE approvals[e].status = "creating"
           /\ job' = [job EXCEPT ![w].pc = "mirror", ![w].meta = runs[approvals[e].run].meta]
  <2>0. runs[approvals[e].run].meta \in Metas  BY <1>0, <1>2, <1>6 DEF IntentsBacked
  <2>1. job[w] \in Jobs /\ job \in [Workers -> Jobs]  BY <1>0 DEF JobTypes
  <2>2. /\ job' \in [Workers -> Jobs] /\ job'[w].pc = "mirror"
        /\ job'[w].event = e /\ job'[w].input = job[w].input
        /\ job'[w].run = job[w].run /\ job'[w].deadline = job[w].deadline
        /\ job'[w].lease = job[w].lease
        /\ job'[w].meta = runs[approvals[e].run].meta
        /\ \A v \in Workers : v # w => job'[v] = job[v]
    BY <1>6, <2>0, <2>1 DEF Jobs, Steps, Claimed
  <2>3. Informed(w)'  BY <1>3, <1>6, <2>2 DEF Informed, Staging, Posting
  <2>4. Searching(w)'  BY <2>2 DEF Searching
  <2>5. "mirror" \in Steps /\ "mirror" # "claim"  BY DEF Steps, Claimed
  <2> QED  BY <1>1, <1>3, <1>4, <2>2, <2>3, <2>4, <2>5, GotoStep
<1>7. CASE Goto(w, "failed")
  BY <1>1, <1>3, <1>7, EndStep DEF Unsuccessful
<1>8. approvals[e].status \in {"absent", "creating", "awaiting_approval"}
  BY <1>2 DEF ApprovalRows
<1> QED  BY <1>5, <1>6, <1>7, <1>8 DEF Lookup

\* Generation happens where no intent is stored, and ends with metadata.
LEMMA GenerateKeeps ==
  ASSUME WInv, NEW w \in Workers, NEW decision, NEW meta \in Metas, Generate(w, decision, meta)
  PROVE  WInv'
<1> DEFINE e == job[w].event
<1>0. JobTypes /\ Own(w)  BY DEF WInv
<1>1. /\ job[w].pc = "generate" /\ job[w].pc # "idle" /\ job[w].pc \in Claimed /\ Alive(w)
      /\ decision \in {"no_action", "intend"} /\ decision \in Steps /\ decision # "claim"
  BY DEF Generate, At, Claimed, Steps
<1>2. approvals[e].status = "absent"  BY <1>0, <1>1 DEF Own, Informed
<1>3. UNCHANGED <<vars, released, content, remote>> /\ UNCHANGED <<stray, mirrored, approvals>>
  BY DEF Generate, store, external, vars
<1>4. mirrored \subseteq mirrored' /\ mirrored' \subseteq Events  BY <1>0, <1>3 DEF JobTypes
<1>5. job[w] \in Jobs /\ job \in [Workers -> Jobs]  BY <1>0 DEF JobTypes
<1>6. job' = [job EXCEPT ![w].pc = decision, ![w].meta = meta]  BY DEF Generate
<1>7. /\ job' \in [Workers -> Jobs] /\ job'[w].pc = decision
      /\ job'[w].event = e /\ job'[w].input = job[w].input
      /\ job'[w].run = job[w].run /\ job'[w].deadline = job[w].deadline
      /\ job'[w].lease = job[w].lease /\ job'[w].meta = meta
      /\ \A v \in Workers : v # w => job'[v] = job[v]
  BY <1>1, <1>5, <1>6 DEF Jobs
<1>8. Informed(w)'  BY <1>1, <1>2, <1>3, <1>7 DEF Informed, Staging, Posting
<1>9. Searching(w)'  BY <1>1, <1>7 DEF Searching
<1> QED  BY <1>1, <1>3, <1>4, <1>7, <1>8, <1>9, GotoStep

\* A step of the store under the worker's own claim: the other workers have other
\* runs.
LEMMA OwnRun ==
  ASSUME WInv, NEW w \in Workers, job[w].pc \in Claimed
  PROVE  /\ job[w].run \in Runs /\ job[w].event \in Events
         /\ runs[job[w].run].event = job[w].event
         /\ \A v \in Workers : v # w /\ job[v].pc \in Claimed => job[v].run # job[w].run
<1>1. Own(w)  BY DEF WInv
<1>2. job[w].pc # "idle"  BY DEF Claimed
<1> QED  BY <1>1, <1>2 DEF WInv, Own, Working, Apart

\* A transaction of a worker that returns with it: no issue is touched, and an approval
\* that awaits a decision was awaiting it before.
LEMMA ReturnWithStore ==
  ASSUME WInv, NEW w \in Workers, job[w].pc \in Claimed, Return(w),
         StoreInv', HistoryKept, OthersKept(job[w].run),
         UNCHANGED <<released, content, remote, stray, mirrored, now>>,
         \A e \in Events : approvals'[e].status = "awaiting_approval" =>
           approvals'[e].issue \in Issues /\ remote[approvals'[e].issue] = e
  PROVE  WInv'
<1>0. IInv /\ JobTypes /\ IssuesBacked /\ IssuesSingle  BY DEF WInv, StoreInv
<1>1. /\ job' \in [Workers -> Jobs] /\ job'[w].pc = "idle" /\ Own(w)'
      /\ \A v \in Workers : v # w => job'[v] = job[v]
  BY <1>0, Returned
<1>2. job'[w].pc \notin Claimed  BY <1>1 DEF Claimed
<1>3. JobTypes'  BY <1>0, <1>1 DEF JobTypes
<1>4. now' \in Nat /\ now' >= now  BY <1>0 DEF IInv, TypeOK
<1>5. \A v \in Workers : v # w => Searching(v)'  BY <1>1, <1>4, StillSearching
<1>6. \A e \in stray' : approvals'[e].status # "absent" /\ e \in mirrored'
  BY <1>0 DEF JobTypes, IssuesBacked, HistoryKept
<1>7. IssuesBacked'  BY <1>6, IssuesKept
<1>8. IssuesSingle'  BY <1>0 DEF IssuesSingle
<1>9. \A v \in Workers : v # w /\ job[v].pc \in Claimed => job[v].run # job[w].run
  BY OwnRun
<1> QED  BY <1>1, <1>2, <1>3, <1>4, <1>5, <1>7, <1>8, <1>9, WorkerStep

\* A transaction that rolls back leads to fail.
LEMMA AbortKeeps ==
  ASSUME WInv, NEW w \in Workers, job[w].pc \in Claimed, Aborted(w),
         UNCHANGED <<external, mirrored>>
  PROVE  WInv'
<1>1. job[w].pc # "idle"  BY DEF Claimed
<1> QED  BY <1>1, EndStep DEF Aborted, Unsuccessful

\* Completion without drafts, for an event that has none.
LEMMA SettleKeeps ==
  ASSUME WInv, NEW w \in Workers, SettleNoAction(w)
  PROVE  WInv'
<1> DEFINE r == job[w].run
<1>0. Own(w) /\ StoreInv /\ IssuesBacked  BY DEF WInv
<1>1. job[w].pc = "no_action" /\ job[w].pc \in Claimed /\ Alive(w)
  BY DEF SettleNoAction, At, Claimed
<1>2. UNCHANGED <<external, mirrored>>  BY DEF SettleNoAction
<1>3. CASE CompleteNoAction(r, job[w].meta) /\ Return(w)
  <2>1. r \in Runs /\ runs[r].event = job[w].event  BY <1>1, OwnRun
  <2>2. job[w].meta \in Metas /\ approvals[runs[r].event].status = "absent"
    BY <1>0, <1>1, <2>1 DEF Own, Informed
  <2>3. StoreInv' /\ OthersKept(r) /\ HistoryKept  BY <1>0, <1>3, <2>1, <2>2, StoreSettles
  <2>4. UNCHANGED <<approvals, now>> /\ UNCHANGED <<released, content, remote, stray, mirrored>>
    BY <1>2, <1>3 DEF external, CompleteNoAction
  <2>5. \A e \in Events : approvals'[e].status = "awaiting_approval" =>
          approvals'[e].issue \in Issues /\ remote[approvals'[e].issue] = e
    BY <1>0, <2>4 DEF IssuesBacked
  <2> QED  BY <1>1, <1>3, <2>3, <2>4, <2>5, ReturnWithStore
<1>4. CASE Aborted(w)  BY <1>1, <1>2, <1>4, AbortKeeps
<1> QED  BY <1>3, <1>4 DEF SettleNoAction

\* The worker that stores an intent goes on with its own metadata.
LEMMA PersistKeeps ==
  ASSUME WInv, NEW w \in Workers, NEW c \in Contents, PersistIntent(w, c)
  PROVE  WInv'
<1> DEFINE e == job[w].event
<1>0. Own(w) /\ StoreInv /\ IInv /\ TypeOK /\ JobTypes /\ IssuesBacked /\ IssuesSingle
  BY DEF WInv, StoreInv, IInv
<1>1. job[w].pc = "intend" /\ job[w].pc \in Claimed /\ Alive(w)
  BY DEF PersistIntent, At, Claimed
<1>2. UNCHANGED <<external, mirrored>>  BY DEF PersistIntent
<1>r. PICK r \in Runs : r = job[w].run  BY <1>1, OwnRun
<1>3. CASE PersistApprovalIntent(r, r, {c}, job[w].meta) /\ Goto(w, "mirror")
  <2>1. /\ r \in Requests /\ e \in Events /\ runs[r].event = e
        /\ \A v \in Workers : v # w /\ job[v].pc \in Claimed => job[v].run # r
    BY <1>1, <1>r, OwnRun, WorkflowAssumption
  <2>2. job[w].meta \in Metas /\ {c} \in SUBSET Contents
    BY <1>0, <1>1 DEF Own, Informed
  <2>3. /\ StoreInv' /\ OthersKept(r) /\ HistoryKept /\ (ClaimHeld(r))'
        /\ runs'[r].event = e /\ UNCHANGED claims
        /\ approvals'[e].status = "creating"
        /\ approvals'[e].run = r /\ runs'[r].meta = job[w].meta
        /\ \A f \in Events : f # e => approvals'[f] = approvals[f]
    <3>1. PersistApprovalIntent(r, r, {c}, job[w].meta)  BY <1>3
    <3>2. /\ StoreInv' /\ OthersKept(r) /\ HistoryKept /\ (ClaimHeld(r))'
          /\ runs'[r].event = runs[r].event /\ UNCHANGED claims
          /\ approvals'[runs[r].event].status = "creating"
          /\ approvals'[runs[r].event].run = r /\ runs'[r].meta = job[w].meta
          /\ \A f \in Events : f # runs[r].event => approvals'[f] = approvals[f]
      BY <1>0, <3>1, <2>1, <2>2, StoreIntends
    <3> QED  BY <3>2, <2>1
  <2>4. UNCHANGED now /\ UNCHANGED <<released, content, remote, stray, mirrored>>
    BY <1>2, <1>3 DEF external, PersistApprovalIntent
  <2>5. now' \in Nat /\ now' >= now  BY <1>0, <2>4 DEF TypeOK
  <2>6. /\ job' \in [Workers -> Jobs] /\ job'[w].pc = "mirror"
        /\ job'[w].event = e /\ job'[w].input = job[w].input
        /\ job'[w].run = r /\ job'[w].deadline = job[w].deadline
        /\ job'[w].lease = job[w].lease /\ job'[w].meta = job[w].meta
        /\ \A v \in Workers : v # w => job'[v] = job[v]
    <3>1. "mirror" \in Steps  BY DEF Steps, Claimed
    <3> QED  BY <1>0, <1>r, <1>3, <3>1, Going
  <2>7. JobTypes'  BY <1>0, <2>4, <2>6 DEF JobTypes
  <2>8. Working(w)'
    <3>1. job[w].input \in Inputs /\ job[w].lease \in Leases
      BY <1>0, <1>1 DEF Own, Working
    <3> QED  BY <2>1, <2>3, <2>6, <3>1 DEF Working
  <2>9. Holding(w)'
    <3>1. job[w].deadline <= claims[e[1]].lease  BY <1>0, <1>1 DEF Own, Holding
    <3> QED  BY <2>3, <2>6, <3>1 DEF Holding
  <2>10. Informed(w)'  BY <2>3, <2>6 DEF Informed, Staging, Posting
  <2>11. Searching(w)'  BY <2>6 DEF Searching
  <2>12. Own(w)'  BY <2>8, <2>9, <2>10, <2>11 DEF Own
  <2>13. \A v \in Workers : v # w => Searching(v)'  BY <2>4, <2>5, <2>6, StillSearching
  <2>14. IssuesBacked'
    <3>1. \A f \in stray' : approvals'[f].status # "absent" /\ f \in mirrored'
      BY <1>0, <2>3, <2>4 DEF JobTypes, IssuesBacked, HistoryKept
    <3>2. \A f \in Events : approvals'[f].status = "awaiting_approval" =>
            approvals'[f].issue \in Issues /\ remote[approvals'[f].issue] = f
      BY <1>0, <2>3 DEF IssuesBacked
    <3> QED  BY <2>3, <2>4, <3>1, <3>2, IssuesKept
  <2>15. IssuesSingle'  BY <1>0, <2>4 DEF IssuesSingle
  <2> QED
    BY <2>1, <2>3, <2>4, <2>5, <2>6, <2>7, <2>12, <2>13, <2>14, <2>15, WorkerStep
<1>4. CASE Aborted(w)  BY <1>1, <1>2, <1>4, AbortKeeps
<1> QED  BY <1>r, <1>3, <1>4 DEF PersistIntent

\* A worker that goes on staging without the store keeps its intent and metadata, and
\* shows where it is with the files and the issue.
LEMMA StagingStep ==
  ASSUME WInv, NEW w \in Workers, NEW step \in Staging,
         UNCHANGED <<vars, released, content, remote>>,
         job[w].pc \in Staging,
         job' \in [Workers -> Jobs], \A v \in Workers : v # w => job'[v] = job[v],
         job'[w].pc = step, job'[w].event = job[w].event, job'[w].input = job[w].input,
         job'[w].run = job[w].run, job'[w].deadline = job[w].deadline,
         job'[w].lease = job[w].lease, job'[w].meta = job[w].meta,
         step \in Posting => job[w].event \in mirrored',
         step \in {"posted", "complete"} =>
           job'[w].issue \in Issues /\ remote[job'[w].issue] = job[w].event,
         Searching(w)',
         mirrored \subseteq mirrored', mirrored' \subseteq Events,
         \/ stray' = stray
         \/ LateAccept /\ stray' = stray \cup {job[w].event} /\ job[w].pc \in Posting
  PROVE  WInv'
<1>0. Own(w)  BY DEF WInv
<1>1. /\ job[w].pc # "idle" /\ job[w].pc \in Claimed
      /\ step \in Steps /\ step # "claim" /\ step \in Claimed
      /\ step \notin {"generate", "no_action", "intend"}
  BY DEF Staging, Posting, Claimed, Steps
<1>2. UNCHANGED <<approvals, runs>>  BY DEF vars
<1>3. Informed(w)'  BY <1>0, <1>1, <1>2 DEF Own, Informed
<1> QED  BY <1>1, <1>3, GotoStep

\* mirrorApproval.
LEMMA MirrorKeeps ==
  ASSUME WInv, NEW w \in Workers, Mirror(w)
  PROVE  WInv'
<1>0. JobTypes  BY DEF WInv
<1>1. job[w].pc = "mirror" /\ job[w].pc \in Staging /\ job[w].pc \in Claimed
      /\ "find" \in Steps /\ "find" \in Staging
  BY DEF Mirror, At, Staging, Posting, Steps, Claimed
<1>2. mirrored' = mirrored \cup {job[w].event}  BY DEF Mirror
<1>3. job[w].event \in Events  BY <1>1, OwnRun
<1>4. mirrored \subseteq mirrored' /\ mirrored' \subseteq Events /\ job[w].event \in mirrored'
  BY <1>0, <1>2, <1>3 DEF JobTypes
<1>5. /\ job' \in [Workers -> Jobs] /\ job'[w].pc = "find"
      /\ job'[w].event = job[w].event /\ job'[w].input = job[w].input
      /\ job'[w].run = job[w].run /\ job'[w].deadline = job[w].deadline
      /\ job'[w].lease = job[w].lease /\ job'[w].meta = job[w].meta
      /\ \A v \in Workers : v # w => job'[v] = job[v]
  BY <1>0, <1>1, Going DEF Mirror
<1>6. UNCHANGED <<vars, released, content, remote>> /\ stray' = stray
  BY DEF Mirror, store, external
<1>7. Searching(w)'  BY <1>5 DEF Searching
<1> QED  BY <1>1, <1>4, <1>5, <1>6, <1>7, StagingStep

\* The search for the event's issue.
LEMMA FindKeeps ==
  ASSUME WInv, NEW w \in Workers, FindIssue(w)
  PROVE  WInv'
<1> DEFINE e == job[w].event
<1>0. JobTypes /\ Own(w) /\ job[w] \in Jobs /\ job \in [Workers -> Jobs]  BY DEF WInv, JobTypes
<1>1. job[w].pc \in {"find", "refind"} /\ job[w].pc \in Staging /\ job[w].pc \in Posting
      /\ job[w].pc \in Claimed /\ job[w].pc # "idle"
  BY DEF FindIssue, At, Staging, Posting, Claimed
<1>2. UNCHANGED <<store, external, mirrored>> /\ UNCHANGED <<vars, released, content, remote>>
      /\ stray' = stray /\ mirrored' = mirrored
  BY DEF FindIssue, store, external
<1>3. mirrored \subseteq mirrored' /\ mirrored' \subseteq Events /\ e \in mirrored'
  BY <1>0, <1>1, <1>2 DEF JobTypes, Own, Informed
<1>4. ASSUME NEW g \in Marked(e), job' = [job EXCEPT ![w].pc = "complete", ![w].issue = g]
      PROVE  WInv'
  <2>1. g \in Issues /\ remote[g] = e  BY <1>4 DEF Marked
  <2>2. /\ job' \in [Workers -> Jobs] /\ job'[w].pc = "complete"
        /\ job'[w].event = e /\ job'[w].input = job[w].input
        /\ job'[w].run = job[w].run /\ job'[w].deadline = job[w].deadline
        /\ job'[w].lease = job[w].lease /\ job'[w].meta = job[w].meta
        /\ job'[w].issue = g
        /\ \A v \in Workers : v # w => job'[v] = job[v]
    BY <1>0, <1>4, <2>1 DEF Jobs, Steps, Claimed
  <2>3. Searching(w)'  BY <2>2 DEF Searching
  <2>4. "complete" \in Staging  BY DEF Staging, Posting
  <2> QED  BY <1>1, <1>2, <1>3, <2>1, <2>2, <2>3, <2>4, StagingStep
<1>5. CASE Marked(e) = {} /\ Goto(w, "post")
  <2>1. "post" \in Steps /\ "post" \in Staging  BY DEF Steps, Claimed, Staging, Posting
  <2>2. /\ job' \in [Workers -> Jobs] /\ job'[w].pc = "post"
        /\ job'[w].event = e /\ job'[w].input = job[w].input
        /\ job'[w].run = job[w].run /\ job'[w].deadline = job[w].deadline
        /\ job'[w].lease = job[w].lease /\ job'[w].meta = job[w].meta
        /\ \A v \in Workers : v # w => job'[v] = job[v]
    BY <1>0, <1>5, <2>1, Going
  <2>3. \A g \in Issues : remote[g] # e  BY <1>5 DEF Marked
  <2>4. Searching(w)'  BY <1>2, <2>2, <2>3 DEF Searching
  <2> QED  BY <1>1, <1>2, <1>3, <2>1, <2>2, <2>4, StagingStep
<1>6. CASE Goto(w, "failed")
  BY <1>1, <1>2, <1>6, EndStep DEF Unsuccessful
<1> QED  BY <1>4, <1>5, <1>6 DEF FindIssue

\* CreateIssue starts.
LEMMA PostKeeps ==
  ASSUME WInv, NEW w \in Workers, PostIssue(w)
  PROVE  WInv'
<1>0. JobTypes /\ Own(w)  BY DEF WInv
<1>1. job[w].pc = "post" /\ job[w].pc \in Staging /\ job[w].pc \in Posting /\ Alive(w)
      /\ "posting" \in Steps /\ "posting" \in Staging
  BY DEF PostIssue, At, Staging, Posting, Steps, Claimed
<1>2. UNCHANGED <<vars, released, content, remote>> /\ stray' = stray /\ mirrored' = mirrored
  BY DEF PostIssue, store, external
<1>3. mirrored \subseteq mirrored' /\ mirrored' \subseteq Events /\ job[w].event \in mirrored'
  BY <1>0, <1>1, <1>2 DEF JobTypes, Own, Informed
<1>4. /\ job' \in [Workers -> Jobs] /\ job'[w].pc = "posting"
      /\ job'[w].event = job[w].event /\ job'[w].input = job[w].input
      /\ job'[w].run = job[w].run /\ job'[w].deadline = job[w].deadline
      /\ job'[w].lease = job[w].lease /\ job'[w].meta = job[w].meta
      /\ \A v \in Workers : v # w => job'[v] = job[v]
  BY <1>0, <1>1, Going DEF PostIssue
<1>5. Searching(w)'  BY <1>0, <1>1, <1>2, <1>4 DEF Own, Searching
<1> QED  BY <1>1, <1>2, <1>3, <1>4, <1>5, StagingStep

\* GitHub's answer arrives.
LEMMA ReceiveKeeps ==
  ASSUME WInv, NEW w \in Workers, ReceiveIssue(w)
  PROVE  WInv'
<1>0. JobTypes /\ Own(w)  BY DEF WInv
<1>1. job[w].pc = "posted" /\ job[w].pc \in Staging /\ job[w].pc \in Posting
      /\ "complete" \in Steps /\ "complete" \in Staging
  BY DEF ReceiveIssue, At, Staging, Posting, Steps, Claimed
<1>2. UNCHANGED <<vars, released, content, remote>> /\ stray' = stray /\ mirrored' = mirrored
  BY DEF ReceiveIssue, store, external
<1>3. /\ mirrored \subseteq mirrored' /\ mirrored' \subseteq Events /\ job[w].event \in mirrored'
      /\ job[w].issue \in Issues /\ remote[job[w].issue] = job[w].event
  BY <1>0, <1>1, <1>2 DEF JobTypes, Own, Informed
<1>4. /\ job' \in [Workers -> Jobs] /\ job'[w].pc = "complete"
      /\ job'[w].event = job[w].event /\ job'[w].input = job[w].input
      /\ job'[w].run = job[w].run /\ job'[w].deadline = job[w].deadline
      /\ job'[w].lease = job[w].lease /\ job'[w].meta = job[w].meta
      /\ job'[w].issue = job[w].issue
      /\ \A v \in Workers : v # w => job'[v] = job[v]
  BY <1>0, <1>1, Going DEF ReceiveIssue
<1>5. Searching(w)'  BY <1>4 DEF Searching
<1> QED  BY <1>1, <1>2, <1>3, <1>4, <1>5, StagingStep

\* An ambiguous POST leads to another search; it may still be applied.
LEMMA AmbiguousKeeps ==
  ASSUME WInv, NEW w \in Workers, AmbiguousWrite(w)
  PROVE  WInv'
<1>0. JobTypes /\ Own(w) /\ job[w] \in Jobs /\ job \in [Workers -> Jobs]  BY DEF WInv, JobTypes
<1>1. job[w].pc \in {"posting", "posted"} /\ job[w].pc \in Staging /\ job[w].pc \in Posting
  BY DEF AmbiguousWrite, At, Staging, Posting
<1>2. UNCHANGED <<vars, released, content, remote>> /\ mirrored' = mirrored
      /\ stray' = Abandoned(w)
      /\ job' = [job EXCEPT ![w].pc = "refind", ![w].issue = NoIssue]
  BY DEF AmbiguousWrite, store
<1>3. mirrored \subseteq mirrored' /\ mirrored' \subseteq Events /\ job[w].event \in mirrored'
  BY <1>0, <1>1, <1>2 DEF JobTypes, Own, Informed
<1>4. /\ job' \in [Workers -> Jobs] /\ job'[w].pc = "refind"
      /\ job'[w].event = job[w].event /\ job'[w].input = job[w].input
      /\ job'[w].run = job[w].run /\ job'[w].deadline = job[w].deadline
      /\ job'[w].lease = job[w].lease /\ job'[w].meta = job[w].meta
      /\ \A v \in Workers : v # w => job'[v] = job[v]
  BY <1>0, <1>2 DEF Jobs, Steps, Claimed
<1>5. Searching(w)'  BY <1>4 DEF Searching
<1>6. \/ stray' = stray
      \/ LateAccept /\ stray' = stray \cup {job[w].event} /\ job[w].pc \in Posting
  BY <1>1, <1>2 DEF Abandoned
<1>7. "refind" \in Staging  BY DEF Staging, Posting
<1> QED  BY <1>1, <1>2, <1>3, <1>4, <1>5, <1>6, <1>7, StagingStep

\* Two live workers under a claim are never in the same scope.
LEMMA AloneInScope ==
  ASSUME WInv, NEW v \in Workers, NEW w \in Workers, v # w,
         job[v].pc \in Claimed, job[w].pc \in Claimed, Alive(v), Alive(w)
  PROVE  job[v].event[1] # job[w].event[1]
<1>1. /\ ClaimHeld(job[v].run) /\ ClaimHeld(job[w].run) /\ IInv /\ job[v].run # job[w].run
  BY DEF WInv, StoreInv, Own, Holding, Apart
<1>2. /\ job[v].run \in Runs /\ runs[job[v].run].event = job[v].event
      /\ job[w].run \in Runs /\ runs[job[w].run].event = job[w].event
  BY OwnRun
<1>3. claims[job[v].event[1]].run = job[v].run  BY <1>1, <1>2, HolderFacts
<1>4. claims[job[w].event[1]].run = job[w].run  BY <1>1, <1>2, HolderFacts
<1> QED  BY <1>1, <1>3, <1>4

\* A step that leaves every table alone keeps what the invariant says of them.
LEMMA StoreUnchanged ==
  ASSUME StoreInv, UNCHANGED vars
  PROVE  /\ StoreInv' /\ HistoryKept /\ (\A r \in Runs \cup {NoRun} : OthersKept(r))
         /\ now \in Nat /\ now' \in Nat /\ now' >= now
<1>0. IInv /\ TypeOK /\ NoOverlap /\ now \in Nat  BY DEF StoreInv, IInv, TypeOK
<1>u. UNCHANGED <<workflows, runs, claims, dedupe, approvals, assets, cursors, errors, audit, now>>
  BY DEF vars
<1>1. TypeOK'  BY <1>0, <1>u DEF TypeOK
<1>2. NoOverlap' /\ now' >= now /\ now' \in Nat  BY <1>0, <1>u DEF NoOverlap
<1> QED  BY <1>0, <1>u, <1>1, <1>2, StoreIdles

\* GitHub creates the issue of a live worker, which nobody else posts and which no
\* earlier issue stands for.
LEMMA AcceptKeeps ==
  ASSUME WInv, NEW w \in Workers, NEW g \in Issues, AcceptIssue(w, g)
  PROVE  WInv'
<1> DEFINE e == job[w].event
<1>0. StoreInv /\ JobTypes /\ Own(w) /\ IssuesBacked /\ IssuesSingle
      /\ job[w] \in Jobs /\ job \in [Workers -> Jobs]
  BY DEF WInv, JobTypes
<1>1. job[w].pc = "posting" /\ job[w].pc \in Staging /\ job[w].pc \in Posting
      /\ job[w].pc \in Claimed /\ Alive(w) /\ job[w].pc # "idle"
  BY DEF AcceptIssue, At, Staging, Posting, Claimed
<1>2. UNCHANGED <<vars, released, content, stray, mirrored>>
      /\ UNCHANGED <<approvals, runs, claims, now>>
      /\ remote' = [remote EXCEPT ![g] = e] /\ remote[g] = NoEvent
      /\ job' = [job EXCEPT ![w].pc = "posted", ![w].issue = g]
  BY DEF AcceptIssue, NextIssue, store, vars
<1>3. /\ e \in Events /\ e # NoEvent /\ e \in mirrored /\ approvals[e].status # "absent"
  BY <1>0, <1>1, NullsAssumption DEF Own, Working, Informed
<1>4. /\ job' \in [Workers -> Jobs] /\ job'[w].pc = "posted"
      /\ job'[w].event = e /\ job'[w].input = job[w].input
      /\ job'[w].run = job[w].run /\ job'[w].deadline = job[w].deadline
      /\ job'[w].lease = job[w].lease /\ job'[w].meta = job[w].meta
      /\ job'[w].issue = g
      /\ \A v \in Workers : v # w => job'[v] = job[v]
  BY <1>0, <1>2 DEF Jobs, Steps, Claimed
<1>5. /\ remote'[g] = e /\ remote' \in [Issues -> Events \cup {NoEvent}]
      /\ \A h \in Issues : h # g => remote'[h] = remote[h]
  BY <1>0, <1>2, <1>3 DEF JobTypes
<1>6. /\ StoreInv' /\ HistoryKept /\ OthersKept(NoRun)
      /\ now \in Nat /\ now' \in Nat /\ now' >= now
  BY <1>0, <1>2, StoreUnchanged
<1>7. JobTypes'  BY <1>0, <1>2, <1>4, <1>5 DEF JobTypes
<1>8. \A v \in Workers : (Alive(v))' <=> now < job'[v].deadline  BY <1>2 DEF Alive
<1>9. ASSUME NEW v \in Workers, v # w PROVE Searching(v)'
  <2>1. SUFFICES ASSUME ~LateAccept, job[v].pc \in {"post", "posting"}, Alive(v),
                        NEW h \in Issues
                 PROVE  remote'[h] # job[v].event
    BY <1>4, <1>8, <1>9 DEF Searching, Alive
  <2>2. remote[h] # job[v].event  BY <2>1 DEF WInv, Own, Searching
  <2>3. job[v].event # e  BY <1>1, <1>9, <2>1, AloneInScope DEF Claimed
  <2> QED  BY <1>5, <2>2, <2>3
<1>10. Own(w)'
  <2>1. Working(w)'  BY <1>0, <1>1, <1>2, <1>4 DEF Own, Working
  <2>2. Holding(w)'
    <3>1. ClaimHeld(job[w].run) /\ job[w].deadline <= claims[e[1]].lease
      BY <1>0, <1>1 DEF Own, Holding
    <3>2. (ClaimHeld(job[w].run))'
      BY <1>2, <1>4, <3>1 DEF ClaimHeld, VerifyClaim, ScopeOf
    <3> QED  BY <1>2, <1>4, <3>1, <3>2 DEF Holding
  <2>3. Informed(w)'  BY <1>0, <1>1, <1>2, <1>3, <1>4, <1>5 DEF Own, Informed, Staging, Posting
  <2>4. Searching(w)'  BY <1>4 DEF Searching
  <2> QED  BY <2>1, <2>2, <2>3, <2>4 DEF Own
<1>11. IssuesBacked'
  <2>1. ASSUME NEW h \in Issues, remote'[h] # NoEvent
        PROVE  approvals[remote'[h]].status # "absent" /\ remote'[h] \in mirrored
    BY <1>0, <1>3, <1>5, <2>1 DEF IssuesBacked
  <2>2. \A f \in Events : approvals[f].status = "awaiting_approval" =>
          approvals[f].issue \in Issues /\ remote'[approvals[f].issue] = f
    <3>1. ASSUME NEW f \in Events, approvals[f].status = "awaiting_approval"
          PROVE  approvals[f].issue \in Issues /\ remote'[approvals[f].issue] = f
      <4>1. approvals[f].issue \in Issues /\ remote[approvals[f].issue] = f
        BY <1>0, <3>1 DEF IssuesBacked
      <4>2. approvals[f].issue # g  BY <4>1, <1>2, NullsAssumption
      <4> QED  BY <4>1, <4>2, <1>5
    <3> QED  BY <3>1
  <2>3. \A f \in stray' : approvals[f].status # "absent" /\ f \in mirrored
    BY <1>0, <1>2 DEF IssuesBacked
  <2> QED  BY <1>2, <2>1, <2>2, <2>3 DEF IssuesBacked
<1>12. IssuesSingle'
  <2>1. SUFFICES ASSUME ~LateAccept
                 PROVE  /\ stray = {}
                        /\ \A h, i \in Issues :
                             remote'[h] # NoEvent /\ remote'[h] = remote'[i] => h = i
    BY <1>2 DEF IssuesSingle
  <2>2. \A h \in Issues : remote[h] # e  BY <1>0, <1>1, <2>1 DEF Own, Searching
  <2>3. /\ stray = {}
        /\ \A h, i \in Issues : remote[h] # NoEvent /\ remote[h] = remote[i] => h = i
    BY <1>0, <2>1 DEF IssuesSingle
  <2> QED  BY <1>5, <2>2, <2>3
<1>13. \A v \in Workers : job[v].pc \in Claimed => job[v].run # NoRun
  BY NullsAssumption DEF WInv, Own, Working
<1>14. \A v \in Workers : v # w /\ job[v].pc \in Claimed => job[v].run # job'[w].run
  BY <1>1, <1>4 DEF WInv, Apart
<1>15. \A h \in Issues : remote[h] # NoEvent => remote'[h] = remote[h]
  BY <1>2, <1>5
<1>16. mirrored \subseteq mirrored'  BY <1>2
<1> QED
  BY <1>4, <1>6, <1>7, <1>9, <1>10, <1>11, <1>12, <1>13, <1>14, <1>15, <1>16, WorkerStep

\* The approval takes the issue that the worker holds; its metadata is that of the run
\* it recovers.
LEMMA FinalizeKeeps ==
  ASSUME WInv, NEW w \in Workers, Finalize(w)
  PROVE  WInv'
<1> DEFINE e == job[w].event
           r == job[w].run
<1>0. Own(w) /\ StoreInv /\ IssuesBacked  BY DEF WInv
<1>1. job[w].pc = "complete" /\ job[w].pc \in Claimed /\ job[w].pc \in Staging
  BY DEF Finalize, At, Claimed, Staging, Posting
<1>2. UNCHANGED <<external, mirrored>>  BY DEF Finalize
<1>3. CASE Finalizable(w) /\ CompleteAwaitingApproval(r, e, job[w].issue, job[w].meta) /\ Return(w)
  <2>1. r \in Runs /\ runs[r].event = e /\ e \in Events  BY <1>1, OwnRun
  <2>2. /\ job[w].issue \in Issues /\ remote[job[w].issue] = e
        /\ job[w].meta = runs[approvals[e].run].meta
    BY <1>0, <1>1, <1>3 DEF Own, Informed, Finalizable
  <2>3. PICK issue \in Issues : issue = job[w].issue  BY <2>2
  <2>4. CompleteAwaitingApproval(r, runs[r].event, issue, job[w].meta)
    BY <1>3, <2>1, <2>3
  <2>5. job[w].meta = runs[approvals[runs[r].event].run].meta  BY <2>1, <2>2
  <2>6. /\ StoreInv' /\ OthersKept(r) /\ HistoryKept
        /\ \A f \in Events : f # runs[r].event => approvals'[f] = approvals[f]
        /\ approvals'[runs[r].event].issue = issue
    BY <1>0, <2>1, <2>4, <2>5, StoreStages
  <2>7. UNCHANGED now /\ UNCHANGED <<released, content, remote, stray, mirrored>>
    BY <1>2, <1>3 DEF external, CompleteAwaitingApproval
  <2>8. \A f \in Events : approvals'[f].status = "awaiting_approval" =>
          approvals'[f].issue \in Issues /\ remote[approvals'[f].issue] = f
    BY <1>0, <2>1, <2>2, <2>3, <2>6 DEF IssuesBacked
  <2> QED  BY <1>1, <1>3, <2>6, <2>7, <2>8, ReturnWithStore
<1>4. CASE Aborted(w)  BY <1>1, <1>2, <1>4, AbortKeeps
<1> QED  BY <1>3, <1>4 DEF Finalize

\* The context ends, at whatever call.
LEMMA ExpireKeeps ==
  ASSUME WInv, NEW w \in Workers, Expire(w)
  PROVE  WInv'
<1>0. JobTypes /\ Own(w) /\ ~Alive(w)  BY DEF WInv, Expire
<1>1. CASE AmbiguousWrite(w)  BY <1>1, AmbiguousKeeps
<1>2. CASE /\ job[w].pc \in Cancellable /\ Goto(w, "cancelled")
           /\ UNCHANGED <<store, external, mirrored>>
  <2>1. job[w].pc \in Claimed /\ job[w].pc # "idle" /\ "cancelled" \in Unsuccessful
    BY <1>2 DEF Cancellable, Claimed, Unsuccessful
  <2> QED  BY <1>2, <2>1, EndStep
<1>3. CASE At(w, "post") /\ Goto(w, "refind") /\ UNCHANGED <<store, external, mirrored>>
  <2>1. job[w].pc \in Staging /\ job[w].pc \in Posting /\ "refind" \in Steps /\ "refind" \in Staging
    BY <1>3 DEF At, Staging, Posting, Steps, Claimed
  <2>2. UNCHANGED <<vars, released, content, remote>> /\ stray' = stray /\ mirrored' = mirrored
    BY <1>3 DEF store, external
  <2>3. mirrored \subseteq mirrored' /\ mirrored' \subseteq Events /\ job[w].event \in mirrored'
    BY <1>0, <2>1, <2>2 DEF JobTypes, Own, Informed
  <2>4. /\ job' \in [Workers -> Jobs] /\ job'[w].pc = "refind"
        /\ job'[w].event = job[w].event /\ job'[w].input = job[w].input
        /\ job'[w].run = job[w].run /\ job'[w].deadline = job[w].deadline
        /\ job'[w].lease = job[w].lease /\ job'[w].meta = job[w].meta
        /\ \A v \in Workers : v # w => job'[v] = job[v]
    BY <1>0, <1>3, <2>1, Going
  <2>5. Searching(w)'  BY <2>4 DEF Searching
  <2> QED  BY <2>1, <2>2, <2>3, <2>4, <2>5, StagingStep
<1>4. CASE At(w, "refind") /\ Goto(w, "failed") /\ UNCHANGED <<store, external, mirrored>>
  <2>1. job[w].pc \in Claimed /\ job[w].pc # "idle" /\ "failed" \in Unsuccessful
    BY <1>4 DEF At, Claimed, Unsuccessful
  <2> QED  BY <1>4, <2>1, EndStep
<1> QED  BY <1>1, <1>2, <1>3, <1>4 DEF Expire

\* A cancelled context makes the worker a dead one.
LEMMA InterruptKeeps ==
  ASSUME WInv, NEW w \in Workers, Interrupt(w)
  PROVE  WInv'
<1>0. StoreInv /\ JobTypes /\ Own(w) /\ job[w] \in Jobs /\ job \in [Workers -> Jobs]
  BY DEF WInv, JobTypes
<1>1. UNCHANGED <<vars, released, content, remote>> /\ stray' = stray /\ mirrored' = mirrored
      /\ UNCHANGED <<runs, claims, approvals, now>>
      /\ job' = [job EXCEPT ![w].deadline = now] /\ job[w].pc # "idle"
  BY DEF Interrupt, store, external, vars
<1>2. now \in Nat  BY <1>0 DEF StoreInv, IInv, TypeOK
<1>3. /\ job' \in [Workers -> Jobs] /\ job'[w].pc = job[w].pc
      /\ job'[w].event = job[w].event /\ job'[w].input = job[w].input
      /\ job'[w].run = job[w].run /\ job'[w].deadline = now
      /\ job'[w].lease = job[w].lease /\ job'[w].meta = job[w].meta
      /\ job'[w].issue = job[w].issue
      /\ \A v \in Workers : v # w => job'[v] = job[v]
  BY <1>0, <1>1, <1>2 DEF Jobs
<1>4. ~(Alive(w))'  BY <1>1, <1>2, <1>3 DEF Alive
<1>5. Working(w)'
  <2>1. job[w].lease \in Leases /\ job[w].lease \in Nat
    BY <1>0, <1>1 DEF Own, Working, Jobs
  <2>2. now <= now' + job[w].lease  BY <1>1, <1>2, <2>1
  <2> QED  BY <1>0, <1>1, <1>3, <2>2 DEF Own, Working
<1>6. Informed(w)'  BY <1>0, <1>1, <1>3, <1>4 DEF Own, Informed
<1>7. Own(w)'  BY <1>4, <1>5, <1>6 DEF Own, Holding, Searching
<1>8. mirrored \subseteq mirrored' /\ mirrored' \subseteq Events  BY <1>0, <1>1 DEF JobTypes
<1> QED  BY <1>1, <1>3, <1>7, <1>8, LocalStep

\* A call that fails leads to fail.
LEMMA CallFailsKeeps ==
  ASSUME WInv, NEW w \in Workers, CallFails(w)
  PROVE  WInv'
<1>1. job[w].pc \in Claimed /\ job[w].pc # "idle" /\ "failed" \in Unsuccessful
  BY DEF CallFails, Cancellable, Claimed, Unsuccessful
<1> QED  BY <1>1, EndStep DEF CallFails

\* fail.
LEMMA CleanupKeeps ==
  ASSUME WInv, NEW w \in Workers, Cleanup(w)
  PROVE  WInv'
<1> DEFINE r == job[w].run
<1>0. StoreInv /\ IssuesBacked  BY DEF WInv
<1>1. job[w].pc \in Unsuccessful /\ job[w].pc \in Claimed /\ Return(w)
  BY DEF Cleanup, Unsuccessful, Claimed
<1>2. UNCHANGED <<released, content, remote, stray, mirrored>>  BY DEF Cleanup, external
<1>3. CASE FinishUnsuccessfulRun(r, job[w].pc)
  <2>1. r \in Runs  BY <1>1, OwnRun
  <2>2. StoreInv' /\ OthersKept(r) /\ HistoryKept  BY <1>0, <1>1, <1>3, <2>1, StoreFails
  <2>3. UNCHANGED <<approvals, now>>  BY <1>3 DEF FinishUnsuccessfulRun
  <2>4. \A e \in Events : approvals'[e].status = "awaiting_approval" =>
          approvals'[e].issue \in Issues /\ remote[approvals'[e].issue] = e
    BY <1>0, <2>3 DEF IssuesBacked
  <2> QED  BY <1>1, <1>2, <2>2, <2>3, <2>4, ReturnWithStore
<1>4. CASE UNCHANGED store
  <2>1. UNCHANGED <<vars, released, content, remote, mirrored>> /\ stray' = stray
    BY <1>2, <1>4 DEF store
  <2> QED  BY <1>1, <2>1, ReturnStep
<1> QED  BY <1>3, <1>4 DEF Cleanup

\* A crash forgets the worker's locals; its POST may still be applied.
LEMMA CrashKeeps ==
  ASSUME WInv, NEW w \in Workers, Crash(w)
  PROVE  WInv'
<1>1. UNCHANGED <<vars, released, content, remote, mirrored>> /\ Return(w)
      /\ stray' = Abandoned(w)
  BY DEF Crash, store
<1>2. \/ stray' = stray
      \/ LateAccept /\ stray' = stray \cup {job[w].event} /\ job[w].pc \in Posting
  BY <1>1 DEF Abandoned, At, Posting
<1> QED  BY <1>1, <1>2, ReturnStep

\* A late issue, where GitHub is assumed to create one.
LEMMA LateKeeps ==
  ASSUME WInv, NEW e \in Events, NEW g \in Issues, LateIssue(e, g)
  PROVE  WInv'
<1>0. StoreInv /\ JobTypes /\ IssuesBacked /\ IssuesSingle  BY DEF WInv
<1>1. UNCHANGED <<vars, job, released, content, mirrored>> /\ UNCHANGED approvals
      /\ remote' = [remote EXCEPT ![g] = e] /\ remote[g] = NoEvent
      /\ e \in stray /\ stray' = stray \ {e}
  BY DEF LateIssue, NextIssue, store, vars
<1>2. LateAccept  BY <1>0, <1>1 DEF IssuesSingle
<1>3. approvals[e].status # "absent" /\ e \in mirrored  BY <1>0, <1>1 DEF IssuesBacked
<1>4. /\ remote'[g] = e /\ remote' \in [Issues -> Events \cup {NoEvent}]
      /\ \A h \in Issues : h # g => remote'[h] = remote[h]
  BY <1>0, <1>1 DEF JobTypes
<1>5. /\ StoreInv' /\ HistoryKept /\ OthersKept(NoRun) /\ now' >= now
  BY <1>0, <1>1, StoreUnchanged
<1>6. JobTypes'  BY <1>0, <1>1, <1>4 DEF JobTypes
<1>7. \A v \in Workers : Searching(v)'  BY <1>2 DEF Searching
<1>8. IssuesBacked'
  <2>1. ASSUME NEW h \in Issues, remote'[h] # NoEvent
        PROVE  approvals[remote'[h]].status # "absent" /\ remote'[h] \in mirrored
    BY <1>0, <1>3, <1>4, <2>1 DEF IssuesBacked
  <2>2. ASSUME NEW f \in Events, approvals[f].status = "awaiting_approval"
        PROVE  approvals[f].issue \in Issues /\ remote'[approvals[f].issue] = f
    <3>1. approvals[f].issue \in Issues /\ remote[approvals[f].issue] = f
      BY <1>0, <2>2 DEF IssuesBacked
    <3>2. approvals[f].issue # g  BY <3>1, <1>1, NullsAssumption
    <3> QED  BY <3>1, <3>2, <1>4
  <2>3. \A f \in stray' : approvals[f].status # "absent" /\ f \in mirrored
    BY <1>0, <1>1 DEF IssuesBacked
  <2> QED  BY <1>1, <2>1, <2>2, <2>3 DEF IssuesBacked
<1>9. IssuesSingle'  BY <1>2 DEF IssuesSingle
<1>10. \A v \in Workers : job[v].pc \in Claimed => job[v].run # NoRun
  BY NullsAssumption DEF WInv, Own, Working
<1>11. \A h \in Issues : remote[h] # NoEvent => remote'[h] = remote[h]
  BY <1>1, <1>4
<1> QED  BY <1>1, <1>5, <1>6, <1>7, <1>8, <1>9, <1>10, <1>11, WorldStep

\* A step of the world around the workers that leaves intents, files and issues alone.
LEMMA WorldAround ==
  ASSUME WInv, StoreInv', HistoryKept, OthersKept(NoRun), now' >= now, JobTypes',
         UNCHANGED <<approvals, job, remote, stray, mirrored>>
  PROVE  WInv'
<1>0. IssuesBacked /\ IssuesSingle  BY DEF WInv
<1>1. now' \in Nat  BY DEF StoreInv, IInv, TypeOK
<1>2. \A v \in Workers : Searching(v)'  BY <1>1, StillSearching
<1>3. IssuesBacked'
  <2>1. \A f \in stray' : approvals'[f].status # "absent" /\ f \in mirrored'
    BY <1>0 DEF IssuesBacked
  <2>2. \A f \in Events : approvals'[f].status = "awaiting_approval" =>
          approvals'[f].issue \in Issues /\ remote[approvals'[f].issue] = f
    BY <1>0 DEF IssuesBacked
  <2> QED  BY <2>1, <2>2, IssuesKept
<1>4. IssuesSingle'  BY <1>0 DEF IssuesSingle
<1>5. \A v \in Workers : job[v].pc \in Claimed => job[v].run # NoRun
  BY NullsAssumption DEF WInv, Own, Working
<1> QED  BY <1>2, <1>3, <1>4, <1>5, WorldStep

\* A release appears, or its text changes.
LEMMA ReleasesKeep ==
  ASSUME WInv, \/ \E s \in Scopes, k \in Keys : Publish(s, k)
               \/ \E e \in Events, i \in Inputs : EditRelease(e, i)
  PROVE  WInv'
<1>0. StoreInv /\ JobTypes  BY DEF WInv
<1>1. UNCHANGED vars /\ UNCHANGED <<approvals, job, remote, stray, mirrored>>
  BY DEF Publish, EditRelease, store, vars
<1>2. StoreInv' /\ HistoryKept /\ OthersKept(NoRun) /\ now' >= now
  BY <1>0, <1>1, StoreUnchanged
<1>3. JobTypes'
  <2>1. ASSUME NEW s \in Scopes, NEW k \in Keys, Publish(s, k) PROVE JobTypes'
    BY <1>0, <1>1, <2>1 DEF JobTypes, Publish
  <2>2. ASSUME NEW e \in Events, NEW i \in Inputs, EditRelease(e, i) PROVE JobTypes'
    BY <1>0, <1>1, <2>2 DEF JobTypes, EditRelease
  <2> QED  BY <2>1, <2>2
<1> QED  BY <1>1, <1>2, <1>3, WorldAround

\* An operator enables or disables a workflow; the overlap column stays off.
LEMMA ToggleKeeps ==
  ASSUME WInv, NEW s \in Scopes, NEW enabled \in BOOLEAN, Toggle(s, enabled)
  PROVE  WInv'
<1>0. StoreInv /\ JobTypes /\ IInv /\ TypeOK /\ NoOverlap /\ now \in Nat
  BY DEF WInv, StoreInv, IInv, TypeOK
<1>1. SetWorkflowEnabled(s, enabled)
      /\ UNCHANGED <<job, released, content, remote, stray, mirrored>>
      /\ UNCHANGED <<runs, claims, dedupe, approvals, assets, now>>
  BY DEF Toggle, SetWorkflowEnabled, external
<1>2. TypeOK'
  <2>1. [Next]_vars  BY <1>1 DEF Next, Configure
  <2> QED  BY <1>0, <2>1, TypeNext
<1>3. NoOverlap'
  <2>1. \A z \in Scopes : workflows[z] \in [enabled : BOOLEAN, overlap : BOOLEAN]
    BY <1>0 DEF TypeOK
  <2>2. \A z \in Scopes : workflows'[z].overlap = workflows[z].overlap
    BY <1>0, <1>1, <2>1 DEF SetWorkflowEnabled, TypeOK
  <2> QED  BY <1>0, <2>2 DEF NoOverlap
<1>4. now' >= now  BY <1>0, <1>1
<1>5. StoreInv' /\ HistoryKept /\ OthersKept(NoRun)  BY <1>0, <1>1, <1>2, <1>3, <1>4, StoreIdles
<1>6. JobTypes'  BY <1>0, <1>1 DEF JobTypes
<1> QED  BY <1>1, <1>4, <1>5, <1>6, WorldAround

\* Time passes, beyond the bound too.
LEMMA TimeKeeps ==
  ASSUME WInv, TimePasses
  PROVE  WInv'
<1>0. StoreInv /\ JobTypes /\ IInv /\ TypeOK /\ NoOverlap /\ now \in Nat
  BY DEF WInv, StoreInv, IInv, TypeOK
<1>1. /\ now' = now + 1 /\ UNCHANGED <<job, released, content, remote, stray, mirrored>>
      /\ UNCHANGED <<workflows, runs, claims, dedupe, approvals, assets, cursors, errors, audit>>
  BY DEF TimePasses, Tick, external
<1>2. TypeOK'  BY <1>0, <1>1 DEF TypeOK
<1>3. NoOverlap' /\ now' >= now  BY <1>0, <1>1 DEF NoOverlap
<1>4. StoreInv' /\ HistoryKept /\ OthersKept(NoRun)  BY <1>0, <1>1, <1>2, <1>3, StoreIdles
<1>5. JobTypes'  BY <1>0, <1>1 DEF JobTypes
<1> QED  BY <1>1, <1>3, <1>4, <1>5, WorldAround

\* A step that changes nothing.
LEMMA StutterKeeps == WInv /\ UNCHANGED allVars => WInv'
<1> SUFFICES ASSUME WInv, UNCHANGED allVars PROVE WInv'
  OBVIOUS
<1>0. StoreInv /\ JobTypes  BY DEF WInv
<1>1. UNCHANGED vars /\ UNCHANGED <<job, released, content, remote, stray, mirrored>>
      /\ UNCHANGED approvals
  BY DEF allVars, vars
<1>2. StoreInv' /\ HistoryKept /\ OthersKept(NoRun) /\ now' >= now
  BY <1>0, <1>1, StoreUnchanged
<1>3. JobTypes'  BY <1>0, <1>1 DEF JobTypes
<1> QED  BY <1>1, <1>2, <1>3, WorldAround

-----------------------------------------------------------------------------
(* The theorems.                                                           *)

\* The invariant holds across every step of every worker and of the world.
LEMMA WorkflowInvNext == WInv /\ [WorkflowNext]_allVars => WInv'
<1> SUFFICES ASSUME WInv, WorkflowNext PROVE WInv'
  BY StutterKeeps
<1>1. ASSUME NEW w \in Workers, Work(w) PROVE WInv'
  <2>1. ASSUME NEW r \in Runs, ClaimEvent(w, r) PROVE WInv'  BY <2>1, ClaimKeeps
  <2>2. CASE ClaimIsDuplicate(w)
    BY <2>2, ReturnStep DEF ClaimIsDuplicate, store, external
  <2>3. CASE ClaimIsRefused(w)
    <3>1. job[w].pc # "idle" /\ Goto(w, "refused") /\ UNCHANGED <<store, external, mirrored>>
      BY <2>3 DEF ClaimIsRefused, At
    <3> QED  BY <3>1, EndStep
  <2>4. CASE GiveUp(w)  BY <2>4, ReturnStep DEF GiveUp, store, external
  <2>5. CASE Lookup(w)  BY <2>5, LookupKeeps
  <2>6. ASSUME NEW decision \in {"no_action", "intend"}, NEW meta \in Metas,
               Generate(w, decision, meta)
        PROVE  WInv'
    BY <2>6, GenerateKeeps
  <2>7. CASE SettleNoAction(w)  BY <2>7, SettleKeeps
  <2>8. ASSUME NEW c \in Contents, PersistIntent(w, c) PROVE WInv'  BY <2>8, PersistKeeps
  <2>9. CASE Mirror(w)  BY <2>9, MirrorKeeps
  <2>10. CASE FindIssue(w)  BY <2>10, FindKeeps
  <2>11. CASE PostIssue(w)  BY <2>11, PostKeeps
  <2>12. ASSUME NEW g \in Issues, AcceptIssue(w, g) PROVE WInv'  BY <2>12, AcceptKeeps
  <2>13. CASE ReceiveIssue(w)  BY <2>13, ReceiveKeeps
  <2>14. CASE Finalize(w)  BY <2>14, FinalizeKeeps
  <2>15. CASE Expire(w)  BY <2>15, ExpireKeeps
  <2>16. CASE Cleanup(w)  BY <2>16, CleanupKeeps
  <2> QED
    BY <1>1, <2>1, <2>2, <2>3, <2>4, <2>5, <2>6, <2>7, <2>8, <2>9, <2>10, <2>11, <2>12, <2>13,
       <2>14, <2>15, <2>16 DEF Work
<1>2. ASSUME NEW w \in Workers, Manual(w) PROVE WInv'
  BY <1>2, BeginKeeps DEF Manual
<1>3. ASSUME NEW w \in Workers, Trouble(w) PROVE WInv'
  <2>1. CASE \E s \in Scopes, r \in Runs : Blocked(w, s, r)  BY <2>1, BlockedKeeps
  <2>2. CASE LoseReply(w)  BY <2>2, AmbiguousKeeps DEF LoseReply
  <2>3. CASE CallFails(w)  BY <2>3, CallFailsKeeps
  <2>4. CASE Interrupt(w)  BY <2>4, InterruptKeeps
  <2>5. CASE Crash(w)  BY <2>5, CrashKeeps
  <2> QED  BY <1>3, <2>1, <2>2, <2>3, <2>4, <2>5 DEF Trouble
<1>4. CASE World
  <2>1. CASE \E e \in Events, g \in Issues : LateIssue(e, g)  BY <2>1, LateKeeps
  <2>2. CASE \/ \E s \in Scopes, k \in Keys : Publish(s, k)
             \/ \E e \in Events, i \in Inputs : EditRelease(e, i)
    BY <2>2, ReleasesKeep
  <2>3. CASE \E s \in Scopes, enabled \in BOOLEAN : Toggle(s, enabled)  BY <2>3, ToggleKeeps
  <2>4. CASE TimePasses  BY <2>4, TimeKeeps
  <2> QED  BY <1>4, <2>1, <2>2, <2>3, <2>4 DEF World
<1> QED  BY <1>1, <1>2, <1>3, <1>4 DEF WorkflowNext

\* The inductive invariant of the release workflow holds, for any number of workers.
THEOREM WorkflowInvariant == WorkflowSpec => []WInv
<1> QED  BY WorkflowInvInit, WorkflowInvNext, PTL DEF WorkflowSpec

\* However crashes, refusals, evictions and expiries interleave, a worker whose context
\* has not expired holds the claim it works under (release.go 88 and 163).
THEOREM LiveWorkersHoldClaims == WorkflowSpec => []LiveWorkerHoldsClaim
<1>1. WInv => LiveWorkerHoldsClaim  BY DEF WInv, Own, Holding, LiveWorkerHoldsClaim
<1> QED  BY <1>1, WorkflowInvariant, PTL

\* A GitHub that applies no POST after its client stopped waiting creates at most one
\* issue for an event, whatever is retried or recovered (createOrRecoverIssue).
THEOREM EventGetsOneIssue == LateAccept = FALSE => (WorkflowSpec => []OneIssuePerEvent)
<1> SUFFICES ASSUME LateAccept = FALSE PROVE WorkflowSpec => []OneIssuePerEvent
  OBVIOUS
<1>1. WInv => OneIssuePerEvent
  <2> SUFFICES ASSUME WInv, NEW e \in Events PROVE Cardinality(Marked(e)) <= 1
    BY DEF OneIssuePerEvent
  <2>1. e # NoEvent  BY NullsAssumption
  <2>2. \A g, h \in Marked(e) : g = h  BY <2>1 DEF WInv, IssuesSingle, Marked
  <2>3. CASE Marked(e) = {}  BY <2>3, FS_EmptySet
  <2>4. CASE Marked(e) # {}
    <3>1. PICK g : g \in Marked(e)  BY <2>4
    <3>2. Marked(e) = {g}  BY <2>2, <3>1
    <3>3. Cardinality({g}) = 1  BY FS_Singleton
    <3> QED  BY <3>2, <3>3
  <2> QED  BY <2>3, <2>4
<1> QED  BY <1>1, WorkflowInvariant, PTL

\* Whatever crashes, an issue has its stored intent and its files, and an approval that
\* awaits a decision names an issue of its event.
THEOREM IssuesBackApprovals == WorkflowSpec => []IssueBacksApproval
<1>1. WInv => IssueBacksApproval  BY DEF WInv, IssuesBacked, IssueBacksApproval, Marked
<1> QED  BY <1>1, WorkflowInvariant, PTL

\* The run that stages an approval carries the metadata of the run that generated its
\* drafts, through every recovery in between.
THEOREM RecoveriesKeepMetadata == WorkflowSpec => []RecoveryKeepsMetadata
<1>1. WInv => RecoveryKeepsMetadata
  <2> SUFFICES ASSUME WInv, NEW e \in Events, NEW a \in DOMAIN assets, assets[a].approval = e
               PROVE  runs[approvals[e].run].meta = runs[assets[a].run].meta
    BY DEF RecoveryKeepsMetadata
  <2>1. DOMAIN assets = Scopes \X Contents /\ IntentsBacked
    BY DEF WInv, StoreInv, IInv, TypeOK
  <2>2. e # NoEvent  BY NullsAssumption
  <2> QED  BY <2>1, <2>2 DEF IntentsBacked
<1> QED  BY <1>1, WorkflowInvariant, PTL

\* A worker leaves generation with drafts only while its event has no intent.
LEMMA GenerationStep ==
  ASSUME WInv, [WorkflowNext]_allVars, NEW w \in Workers,
         At(w, "generate"), job'[w].pc \in {"no_action", "intend"}
  PROVE  approvals[job[w].event].status = "absent"
<1>0. job \in [Workers -> Jobs] /\ Informed(w) /\ job[w].pc = "generate"
  BY DEF WInv, JobTypes, Own, At
<1>1. SUFFICES ASSUME ~Alive(w) PROVE FALSE
  BY <1>0 DEF Informed
<1>2. job' # job  BY <1>0
<1>3. PICK v \in Workers : Work(v) \/ Manual(v) \/ Trouble(v)
  BY <1>2 DEF WorkflowNext, World, LateIssue, Publish, EditRelease, Toggle, TimePasses, allVars
<1>4. CASE v # w
  <2>1. job'[w] = job[w]
    BY <1>0, <1>3, <1>4 DEF Work, Manual, Trouble, ClaimEvent, ClaimIsDuplicate, ClaimIsRefused,
      GiveUp, Lookup, Generate, SettleNoAction, PersistIntent, Mirror, FindIssue, PostIssue,
      AcceptIssue, ReceiveIssue, Finalize, Expire, Cleanup, Begin, Blocked, LoseReply,
      AmbiguousWrite, CallFails, Interrupt, Crash, Aborted, Goto, Return
  <2> QED  BY <1>0, <2>1
<1>5. CASE v = w
  <2>1. Expire(w) \/ CallFails(w) \/ Crash(w) \/ \E s \in Scopes, r \in Runs : Blocked(w, s, r)
    BY <1>0, <1>1, <1>3, <1>5 DEF Work, Manual, Trouble, ClaimEvent, ClaimIsDuplicate,
      ClaimIsRefused, GiveUp, Lookup, Generate, SettleNoAction, PersistIntent, Mirror, FindIssue,
      PostIssue, AcceptIssue, ReceiveIssue, Finalize, Cleanup, Begin, LoseReply,
      AmbiguousWrite, Interrupt, At, Unsuccessful
  <2>2. CASE Expire(w) \/ CallFails(w)
    <3>1. Goto(w, "cancelled") \/ Goto(w, "failed")
      BY <1>0, <2>2 DEF Expire, AmbiguousWrite, CallFails, At
    <3>2. job'[w].pc \in {"cancelled", "failed"}  BY <1>0, <3>1 DEF Goto, Jobs
    <3> QED  BY <3>2
  <2>3. CASE Crash(w)
    <3>1. job'[w].pc = "idle"  BY <1>0, <2>3 DEF Crash, Return, Idle
    <3> QED  BY <3>1
  <2>4. CASE \E s \in Scopes, r \in Runs : Blocked(w, s, r)
    <3>1. job' = job  BY <2>4 DEF Blocked
    <3> QED  BY <1>2, <3>1
  <2> QED  BY <2>1, <2>2, <2>3, <2>4
<1> QED  BY <1>4, <1>5

\* Drafts that are stored are never generated again, by no attempt of the event.
THEOREM StoredDraftsStay == WorkflowSpec => DraftsGeneratedOnce
<1>1. WInv /\ [WorkflowNext]_allVars =>
        [\A w \in Workers :
           At(w, "generate") /\ job'[w].pc \in {"no_action", "intend"} =>
             approvals[job[w].event].status = "absent"]_job
  BY GenerationStep
<1> QED  BY <1>1, WorkflowInvariant, PTL DEF WorkflowSpec, DraftsGeneratedOnce

\* Every running run of the release workflow holds the claim of its scope: its steps
\* never turn overlap on, whatever a definition could say.
THEOREM RunningRunsHoldClaims == WorkflowSpec => []RunningHoldsClaim
<1>1. WInv => RunningHoldsClaim  BY DEF WInv, StoreInv
<1> QED  BY <1>1, WorkflowInvariant, PTL

\* Whatever Run does is an operation of the store, with arguments the store knows, or
\* leaves the tables alone; time may pass beyond the store's bound.
LEMMA TablesStep ==
  ASSUME WInv, [WorkflowNext]_allVars
  PROVE  [Next]_vars \/ UNCHANGED <<runs, claims, dedupe>>
<1>0. StoreInv /\ JobTypes  BY DEF WInv
<1>1. SUFFICES ASSUME WorkflowNext, ~UNCHANGED <<runs, claims, dedupe>> PROVE Next
  BY DEF allVars, vars
<1>2. ASSUME NEW w \in Workers, Work(w) PROVE Next
  <2>1. ASSUME NEW r \in Runs, ClaimEvent(w, r) PROVE Next
    <3>1. /\ ClaimWorkflow(r, job[w].event, job[w].input, job[w].lease)
          /\ job[w].pc = "claim" /\ job[w].pc # "idle"
      BY <2>1 DEF ClaimEvent, At
    <3>2. job[w].event \in Events /\ job[w].input \in Inputs /\ job[w].lease \in Leases
      BY <3>1 DEF WInv, Own, Working
    <3> QED  BY <3>1, <3>2 DEF Next, Claim
  <2>2. CASE SettleNoAction(w)
    <3>1. job[w].pc = "no_action" /\ job[w].pc \in Claimed  BY <2>2 DEF SettleNoAction, At, Claimed
    <3>2. job[w].run \in Runs /\ job[w].meta \in Metas
      BY <3>1, OwnRun DEF WInv, Own, Informed
    <3>3. CompleteNoAction(job[w].run, job[w].meta)
      BY <1>1, <2>2 DEF SettleNoAction, Aborted, store, vars
    <3> QED  BY <3>2, <3>3 DEF Next, NoAction
  <2>3. ASSUME NEW c \in Contents, PersistIntent(w, c) PROVE Next
    <3>1. job[w].pc = "intend" /\ job[w].pc \in Claimed  BY <2>3 DEF PersistIntent, At, Claimed
    <3>2. job[w].run \in Runs /\ job[w].run \in Requests /\ job[w].meta \in Metas
      BY <3>1, OwnRun, WorkflowAssumption DEF WInv, Own, Informed
    <3>3. PersistApprovalIntent(job[w].run, job[w].run, {c}, job[w].meta)
      BY <1>1, <2>3 DEF PersistIntent, Aborted, store, vars
    <3> QED  BY <3>2, <3>3 DEF Next, Intend
  <2>4. CASE Finalize(w)
    <3>1. job[w].pc = "complete" /\ job[w].pc \in Claimed /\ job[w].pc \in Staging
      BY <2>4 DEF Finalize, At, Claimed, Staging, Posting
    <3>2. /\ Finalizable(w)
          /\ CompleteAwaitingApproval(job[w].run, job[w].event, job[w].issue, job[w].meta)
      BY <1>1, <2>4 DEF Finalize, Aborted, store, vars
    <3>3. job[w].run \in Runs /\ job[w].event \in Events  BY <3>1, OwnRun
    <3>4. /\ job[w].issue \in Issues /\ approvals[job[w].event].status = "creating"
          /\ job[w].meta = runs[approvals[job[w].event].run].meta
      BY <3>1, <3>2 DEF WInv, Own, Informed, Finalizable
    <3>5. job[w].meta \in Metas
      BY <1>0, <3>3, <3>4 DEF StoreInv, IntentsBacked
    <3> QED  BY <3>2, <3>3, <3>4, <3>5 DEF Next, Stage
  <2>5. CASE Cleanup(w)
    <3>1. job[w].pc \in Unsuccessful /\ job[w].pc \in Claimed
      BY <2>5 DEF Cleanup, Unsuccessful, Claimed
    <3>2. job[w].run \in Runs  BY <3>1, OwnRun
    <3>3. FinishUnsuccessfulRun(job[w].run, job[w].pc)
      BY <1>1, <2>5 DEF Cleanup, store, vars
    <3> QED  BY <3>1, <3>2, <3>3 DEF Next, Fail
  <2>6. CASE UNCHANGED store  BY <1>1, <2>6 DEF store, vars
  <2>7. \/ ClaimIsDuplicate(w) \/ ClaimIsRefused(w) \/ GiveUp(w) \/ Lookup(w) \/ Mirror(w)
        \/ FindIssue(w) \/ PostIssue(w) \/ ReceiveIssue(w) \/ Expire(w)
        \/ (\E decision \in {"no_action", "intend"}, meta \in Metas : Generate(w, decision, meta))
        \/ (\E g \in Issues : AcceptIssue(w, g))
        => UNCHANGED store
    BY DEF ClaimIsDuplicate, ClaimIsRefused, GiveUp, Lookup, Mirror, FindIssue, PostIssue,
      ReceiveIssue, Expire, AmbiguousWrite, Generate, AcceptIssue
  <2> QED  BY <1>2, <2>1, <2>2, <2>3, <2>4, <2>5, <2>6, <2>7 DEF Work
<1>3. ASSUME NEW w \in Workers, Manual(w) PROVE Next
  BY <1>1, <1>3 DEF Manual, Begin, store, vars
<1>4. ASSUME NEW w \in Workers, Trouble(w) PROVE Next
  <2>1. ASSUME NEW s \in Scopes, NEW r \in Runs, Blocked(w, s, r) PROVE Next
    BY <2>1 DEF Blocked, Next, Preflighted, Preflight
  <2>2. LoseReply(w) \/ CallFails(w) \/ Interrupt(w) \/ Crash(w) => UNCHANGED store
    BY DEF LoseReply, AmbiguousWrite, CallFails, Interrupt, Crash
  <2>3. CASE UNCHANGED store  BY <1>1, <2>3 DEF store, vars
  <2> QED  BY <1>4, <2>1, <2>2, <2>3 DEF Trouble
<1>5. CASE World
  <2>1. ASSUME NEW s \in Scopes, NEW enabled \in BOOLEAN, Toggle(s, enabled) PROVE Next
    BY <2>1 DEF Toggle, Next, Configure
  <2>2. \/ UNCHANGED <<runs, claims, dedupe>>
        \/ \E s \in Scopes, enabled \in BOOLEAN : Toggle(s, enabled)
    BY <1>5 DEF World, LateIssue, Publish, EditRelease, TimePasses, Tick, store, vars
  <2> QED  BY <1>1, <2>1, <2>2
<1> QED  BY <1>1, <1>2, <1>3, <1>4, <1>5 DEF WorkflowNext

\* Workers that crash, expire and recover one another keep to the ledger of events: one
\* holder of a scope, one outcome of an event, decided by the holder.
THEOREM WorkflowImplementsLedger == WorkflowSpec => ImplementsLedger
<1>1. WorkflowInit => Ledger!Init  BY LedgerInit DEF WorkflowInit
<1>2. WInv /\ [WorkflowNext]_allVars => [Ledger!Next]_(Ledger!vars)
  <2> SUFFICES ASSUME WInv, [WorkflowNext]_allVars PROVE [Ledger!Next]_(Ledger!vars)
    OBVIOUS
  <2>0. IInv  BY DEF WInv, StoreInv
  <2>1. CASE [Next]_vars  BY <2>0, <2>1, LedgerStep
  <2>2. CASE UNCHANGED <<runs, claims, dedupe>>  BY <2>0, <2>2, LedgerStutter
  <2> QED  BY <2>1, <2>2, TablesStep
<1> QED
  BY <1>1, <1>2, WorkflowInvariant, PTL DEF WorkflowSpec, ImplementsLedger, Ledger!Spec

=============================================================================

--------------------------- MODULE WorkflowStore ---------------------------
(***************************************************************************)
(* The transactional store behind every workflow run: the tables           *)
(* workflows, workflow_runs, workflow_claims, dedupe_keys, approvals,      *)
(* generated_assets, cursors, errors and audit_events, and the operations  *)
(* of internal/state/workflow.go, approval.go and terminal_run.go that     *)
(* write them.  Each operation is one BEGIN IMMEDIATE transaction, so each *)
(* is one atomic action.  The clients are arbitrary: any process may call  *)
(* any operation at any time with the claim of any run ever handed out,    *)
(* which covers concurrent processes, stale workers and restarts.          *)
(*                                                                         *)
(* An event <<s, k>> is a dedupe key k of the product/workflow pair s.     *)
(***************************************************************************)
EXTENDS Integers, Sequences, FiniteSets

CONSTANTS
  Scopes,     \* product/workflow pairs
  Keys,       \* dedupe keys: one per release of the product's repository
  Inputs,     \* hashes of the release as it was read (input_hash)
  Runs,       \* uuids a transaction may draw for a new run
  Metas,      \* what a generation records about itself in a run row
  Requests,   \* approval request hashes (title and body of the issue)
  Contents,   \* channel/content_hash pairs of generated assets
  Issues,     \* issue ids of the approval repository
  Leases,     \* lease durations: the timeouts a definition may carry
  Overlaps,   \* values UpsertWorkflow may write to allow_overlap
  MaxTime,    \* bound on the clock
  NoRun, NoEvent, NoMeta, NoRequest, NoIssue, NoInput, NoKey  \* SQL defaults

Events == Scopes \X Keys

ASSUME ConstantsAssumption ==
  /\ IsFiniteSet(Runs)
  /\ Leases \subseteq Nat \ {0}
  /\ Overlaps \subseteq BOOLEAN
  /\ MaxTime \in Nat

ASSUME NullsAssumption ==
  /\ NoRun \notin Runs
  /\ NoEvent \notin Events
  /\ NoMeta \notin Metas
  /\ NoRequest \notin Requests
  /\ NoIssue \notin Issues
  /\ NoInput \notin Inputs
  /\ NoKey \notin Keys

VARIABLES
  workflows,  \* the enabled and allow_overlap columns of each definition
  runs,       \* workflow_runs; status "absent" is a uuid not drawn yet
  claims,     \* workflow_claims; run = NoRun is no row
  dedupe,     \* dedupe_keys; state "absent" is no row
  approvals,  \* approvals with approval_history; status "absent" is no row
  assets,     \* generated_assets; approval = NoEvent is no row
  cursors,    \* the github_release cursor, as the key of its release
  errors,     \* the rows of errors for each run, oldest first
  audit,      \* the rows of audit_events for each run, oldest first
  now         \* the clock every process of the machine reads

vars == <<workflows, runs, claims, dedupe, approvals, assets, cursors, errors, audit, now>>
-----------------------------------------------------------------------------
Succeeded    == {"no_action", "awaiting_approval"}
Unsuccessful == {"failed", "cancelled"}
Preflight    == {"blocked", "killed", "cancelled"}
Terminal     == Succeeded \cup Unsuccessful \cup Preflight
RunStatus    == {"absent", "running"} \cup Terminal

RunRows      == [status : RunStatus, event : Events \cup {NoEvent}, input : Inputs \cup {NoInput},
                 attempt : Nat, fence : Nat, meta : Metas \cup {NoMeta},
                 approval : Events \cup {NoEvent}]
ClaimRows    == [run : Runs \cup {NoRun}, fence : Nat, lease : Nat]
DedupeRows   == [state : {"absent", "in_flight", "failed", "completed"},
                 input : Inputs \cup {NoInput}, run : Runs \cup {NoRun}, lease : Nat]
ApprovalRows == [status : {"absent", "creating", "awaiting_approval"}, run : Runs \cup {NoRun},
                 request : Requests \cup {NoRequest}, issue : Issues \cup {NoIssue}]
AssetRows    == [approval : Events \cup {NoEvent}, run : Runs \cup {NoRun}]
ErrorRows    == [code : {"failed", "cancelled", "lease_expired"}, retryable : BOOLEAN]
AuditRows    == {"claimed", "intent_created"} \cup Terminal

NoRunRow     == [status |-> "absent", event |-> NoEvent, input |-> NoInput, attempt |-> 0,
                 fence |-> 0, meta |-> NoMeta, approval |-> NoEvent]
NoClaimRow   == [run |-> NoRun, fence |-> 0, lease |-> 0]
NoDedupeRow  == [state |-> "absent", input |-> NoInput, run |-> NoRun, lease |-> 0]
NoApproval   == [status |-> "absent", run |-> NoRun, request |-> NoRequest, issue |-> NoIssue]
NoAsset      == [approval |-> NoEvent, run |-> NoRun]

Init ==
  /\ workflows = [s \in Scopes |-> [enabled |-> FALSE, overlap |-> FALSE]]
  /\ runs      = [r \in Runs |-> NoRunRow]
  /\ claims    = [s \in Scopes |-> NoClaimRow]
  /\ dedupe    = [e \in Events |-> NoDedupeRow]
  /\ approvals = [e \in Events |-> NoApproval]
  /\ assets    = [a \in Scopes \X Contents |-> NoAsset]
  /\ cursors   = [s \in Scopes |-> NoKey]
  /\ errors    = [r \in Runs |-> <<>>]
  /\ audit     = [r \in Runs |-> <<>>]
  /\ now       = 0
-----------------------------------------------------------------------------
(* Definitions: product add inserts one disabled, operators toggle it.     *)

UpsertWorkflow(s, enabled, overlap) ==
  /\ workflows' = [workflows EXCEPT ![s] = [enabled |-> enabled, overlap |-> overlap]]
  /\ UNCHANGED <<runs, claims, dedupe, approvals, assets, cursors, errors, audit, now>>

SetWorkflowEnabled(s, enabled) ==
  /\ workflows' = [workflows EXCEPT ![s].enabled = enabled]
  /\ UNCHANGED <<runs, claims, dedupe, approvals, assets, cursors, errors, audit, now>>
-----------------------------------------------------------------------------
(* ClaimWorkflow.  Its early returns, in the order of the code: a disabled *)
(* workflow, a changed input, a completed event, an event in flight, and a *)
(* workflow whose claim is live.  The caller treats only "duplicate" apart.*)

\* Faulty variants, here and below, stand before the definition they break: each
\* is a slip that some property must notice.

InputChanged(e, i) == dedupe[e].state # "absent" /\ dedupe[e].input # i

\* Faulty: an event in flight never comes free again.
EventTaken(e) == dedupe[e].state = "in_flight"

EventInFlight(e)   == dedupe[e].state = "in_flight" /\ dedupe[e].lease > now

\* Faulty: a lease ends one instant early.
LeaseNearlyActive(s) ==
  claims[s].run # NoRun /\ ~workflows[s].overlap /\ claims[s].lease > now + 1

LeaseActive(s)     == claims[s].run # NoRun /\ ~workflows[s].overlap /\ claims[s].lease > now

ClaimDuplicate(e, i) ==
  workflows[e[1]].enabled /\ ~InputChanged(e, i) /\ dedupe[e].state = "completed"

ClaimGranted(e, i) ==
  /\ workflows[e[1]].enabled
  /\ ~InputChanged(e, i)
  /\ dedupe[e].state # "completed"
  /\ ~EventInFlight(e)
  /\ ~LeaseActive(e[1])

\* Faulty: nobody is cancelled; a live holder is; so are the scope's ended runs.
EvictedNobody(s) == {}
EvictedLive(s)   == {q \in Runs : claims[s].run = q /\ runs[q].status = "running"}
EvictedEnded(s)  == {q \in Runs : /\ claims[s].run # NoRun /\ claims[s].lease <= now
                                  /\ runs[q].event \in {s} \X Keys}

\* The run a claim for scope s cancels first: the holder of an expired row.
Evicted(s) ==
  {q \in Runs : claims[s].run = q /\ claims[s].lease <= now /\ runs[q].status = "running"}

\* Faulty: an evicted attempt is not counted.
FailedAttempts(e) == Cardinality({q \in Runs : runs[q].event = e /\ runs[q].status = "failed"})

Attempts(e) == Cardinality({q \in Runs : runs[q].event = e})

NewRun(e, i, fence) ==
  [status |-> "running", event |-> e, input |-> i, attempt |-> Attempts(e) + 1,
   fence |-> fence, meta |-> NoMeta, approval |-> NoEvent]

\* An insert stores the input; an update leaves it, and a completed row, alone.
InFlightRow(r, e, i, lease) ==
  IF dedupe[e].state = "completed" THEN dedupe[e]
  ELSE [state |-> "in_flight", run |-> r, lease |-> lease,
        input |-> IF dedupe[e].state = "absent" THEN i ELSE dedupe[e].input]

ClaimWorkflow(r, e, i, duration) ==
  LET s     == e[1]
      fence == claims[s].fence + 1
  IN
  /\ runs[r].status = "absent"
  /\ ClaimGranted(e, i)
  /\ runs' = [q \in Runs |->
       IF q = r THEN NewRun(e, i, fence)
       ELSE IF q \in Evicted(s) THEN [runs[q] EXCEPT !.status = "cancelled"]
       ELSE runs[q]]
  /\ errors' = [q \in Runs |->
       IF q \in Evicted(s)
       THEN Append(errors[q], [code |-> "lease_expired", retryable |-> TRUE])
       ELSE errors[q]]
  /\ audit' = [q \in Runs |->
       IF q = r THEN Append(audit[q], "claimed")
       ELSE IF q \in Evicted(s) THEN Append(audit[q], "cancelled")
       ELSE audit[q]]
  /\ claims' = [claims EXCEPT ![s] = [run |-> r, fence |-> fence, lease |-> now + duration]]
  /\ dedupe' = [dedupe EXCEPT ![e] = InFlightRow(r, e, i, now + duration)]
  /\ UNCHANGED <<workflows, approvals, assets, cursors, now>>
-----------------------------------------------------------------------------
(* The finalizers.  A WorkflowClaim carries the run's id, event and fence, *)
(* all of which are columns of the run row; so the claim of run r is r.    *)

ScopeOf(r) == runs[r].event[1]

VerifyClaim(r) ==
  /\ runs[r].event # NoEvent
  /\ claims[ScopeOf(r)].run = r
  /\ claims[ScopeOf(r)].fence = runs[r].fence

\* Faulty: a run that was displaced passes for the holder.
RunIsRunning(r) == runs[r].event # NoEvent /\ runs[r].status = "running"

\* The UPDATE ... WHERE status = running AND fencing_token = ? found its row.
ClaimHeld(r) == VerifyClaim(r) /\ runs[r].status = "running"

\* Faulty: the claim row stays.
CompleteKeepingClaim(r) ==
  LET e == runs[r].event IN
  /\ dedupe[e].run = r
  /\ dedupe[e].state = "in_flight"
  /\ dedupe'  = [dedupe EXCEPT ![e].state = "completed"]
  /\ cursors' = [cursors EXCEPT ![e[1]] = e[2]]
  /\ UNCHANGED claims

\* completeDedupeAndCursor.
CompleteDedupeAndCursor(r) ==
  LET e == runs[r].event IN
  /\ dedupe[e].run = r
  /\ dedupe[e].state = "in_flight"
  /\ dedupe'  = [dedupe EXCEPT ![e].state = "completed"]
  /\ cursors' = [cursors EXCEPT ![e[1]] = e[2]]
  /\ claims'  = [claims EXCEPT ![e[1]] = NoClaimRow]

\* Faulty: the dedupe row takes the run's status; the cursor moves; the event
\* counts as done.
FinishWithStatus(r, status) ==
  LET e == runs[r].event IN
  /\ ClaimHeld(r)
  /\ runs'   = [runs EXCEPT ![r].status = status]
  /\ dedupe' = IF dedupe[e].run = r THEN [dedupe EXCEPT ![e].state = status] ELSE dedupe
  /\ claims' = [claims EXCEPT ![e[1]] = NoClaimRow]
  /\ errors' = [errors EXCEPT ![r] = Append(@, [code |-> status, retryable |-> status = "failed"])]
  /\ audit'  = [audit EXCEPT ![r] = Append(@, status)]
  /\ UNCHANGED <<workflows, approvals, assets, cursors, now>>

FinishAsDone(r, status) ==
  LET e == runs[r].event IN
  /\ ClaimHeld(r)
  /\ runs'   = [runs EXCEPT ![r].status = status]
  /\ dedupe' = IF dedupe[e].run = r THEN [dedupe EXCEPT ![e].state = "completed"] ELSE dedupe
  /\ claims' = [claims EXCEPT ![e[1]] = NoClaimRow]
  /\ errors' = [errors EXCEPT ![r] = Append(@, [code |-> status, retryable |-> status = "failed"])]
  /\ audit'  = [audit EXCEPT ![r] = Append(@, status)]
  /\ UNCHANGED <<workflows, approvals, assets, cursors, now>>

\* FailWorkflowRun and CancelWorkflowRun.
FinishUnsuccessfulRun(r, status) ==
  LET e == runs[r].event IN
  /\ ClaimHeld(r)
  /\ runs'   = [runs EXCEPT ![r].status = status]
  /\ dedupe' = IF dedupe[e].run = r THEN [dedupe EXCEPT ![e].state = "failed"] ELSE dedupe
  /\ claims' = [claims EXCEPT ![e[1]] = NoClaimRow]
  /\ errors' = [errors EXCEPT ![r] = Append(@, [code |-> status, retryable |-> status = "failed"])]
  /\ audit'  = [audit EXCEPT ![r] = Append(@, status)]
  /\ UNCHANGED <<workflows, approvals, assets, cursors, now>>

CompleteNoAction(r, meta) ==
  /\ ClaimHeld(r)
  /\ runs'  = [runs EXCEPT ![r].status = "no_action", ![r].meta = meta]
  /\ CompleteDedupeAndCursor(r)
  /\ audit' = [audit EXCEPT ![r] = Append(@, "no_action")]
  /\ UNCHANGED <<workflows, approvals, assets, errors, now>>

\* UNIQUE(product_id, workflow_id, channel, content_hash).
AssetsFree(s, contents) == \A c \in contents : assets[<<s, c>>].approval = NoEvent

\* Faulty: a stored intent is replaced.
ReplaceApprovalIntent(r, request, contents, meta) ==
  LET e == runs[r].event IN
  /\ ClaimHeld(r)
  /\ AssetsFree(e[1], contents)
  /\ approvals' = [approvals EXCEPT ![e] = [status |-> "creating", run |-> r,
                                            request |-> request, issue |-> NoIssue]]
  /\ assets' = [a \in DOMAIN assets |->
       IF a[1] = e[1] /\ a[2] \in contents THEN [approval |-> e, run |-> r] ELSE assets[a]]
  /\ runs'   = [runs EXCEPT ![r].meta = meta]
  /\ audit'  = [audit EXCEPT ![r] = Append(@, "intent_created")]
  /\ UNCHANGED <<workflows, claims, dedupe, cursors, errors, now>>

\* The insert of an intent.  When the event's intent already exists the
\* transaction writes nothing: it returns that row, or refuses a different one.
\* The approval id is a hash of the dedupe key, so it is the event.
PersistApprovalIntent(r, request, contents, meta) ==
  LET e == runs[r].event IN
  /\ ClaimHeld(r)
  /\ approvals[e].status = "absent"
  /\ AssetsFree(e[1], contents)
  /\ approvals' = [approvals EXCEPT ![e] = [status |-> "creating", run |-> r,
                                            request |-> request, issue |-> NoIssue]]
  /\ assets' = [a \in DOMAIN assets |->
       IF a[1] = e[1] /\ a[2] \in contents THEN [approval |-> e, run |-> r] ELSE assets[a]]
  /\ runs'   = [runs EXCEPT ![r].meta = meta]
  /\ audit'  = [audit EXCEPT ![r] = Append(@, "intent_created")]
  /\ UNCHANGED <<workflows, claims, dedupe, cursors, errors, now>>

\* UNIQUE(issue_repository, issue_id).
IssueFree(issue) == \A e \in Events : approvals[e].issue # issue

\* Faulty: the approval keeps naming the attempt that persisted it.
CompleteForFirstRun(r, approval, issue, meta) ==
  /\ ClaimHeld(r)
  /\ approval = runs[r].event
  /\ approvals[approval].status = "creating"
  /\ IssueFree(issue)
  /\ approvals' = [approvals EXCEPT ![approval].status = "awaiting_approval",
                                    ![approval].issue = issue]
  /\ runs' = [runs EXCEPT ![r].status = "awaiting_approval", ![r].meta = meta,
                          ![r].approval = approval]
  /\ CompleteDedupeAndCursor(r)
  /\ audit' = [audit EXCEPT ![r] = Append(@, "awaiting_approval")]
  /\ UNCHANGED <<workflows, assets, errors, now>>

CompleteAwaitingApproval(r, approval, issue, meta) ==
  /\ ClaimHeld(r)
  /\ approval = runs[r].event
  /\ approvals[approval].status = "creating"
  /\ IssueFree(issue)
  /\ approvals' = [approvals EXCEPT ![approval].status = "awaiting_approval",
                                    ![approval].run = r, ![approval].issue = issue]
  /\ runs' = [runs EXCEPT ![r].status = "awaiting_approval", ![r].meta = meta,
                          ![r].approval = approval]
  /\ CompleteDedupeAndCursor(r)
  /\ audit' = [audit EXCEPT ![r] = Append(@, "awaiting_approval")]
  /\ UNCHANGED <<workflows, assets, errors, now>>

\* RecordTerminalRun: fence 0 and a dedupe key of its own, so no event.
RecordTerminalRun(r, status) ==
  /\ runs[r].status = "absent"
  /\ runs'  = [runs EXCEPT ![r].status = status, ![r].attempt = 1]
  /\ audit' = [audit EXCEPT ![r] = Append(@, status)]
  /\ UNCHANGED <<workflows, claims, dedupe, approvals, assets, cursors, errors, now>>

Tick ==
  /\ now < MaxTime
  /\ now' = now + 1
  /\ UNCHANGED <<workflows, runs, claims, dedupe, approvals, assets, cursors, errors, audit>>
-----------------------------------------------------------------------------
Configure ==
  \E s \in Scopes, enabled \in BOOLEAN :
    \/ SetWorkflowEnabled(s, enabled)
    \/ \E overlap \in Overlaps : UpsertWorkflow(s, enabled, overlap)

Claim ==
  \E r \in Runs, e \in Events, i \in Inputs, d \in Leases : ClaimWorkflow(r, e, i, d)

Fail      == \E r \in Runs, status \in Unsuccessful : FinishUnsuccessfulRun(r, status)
NoAction  == \E r \in Runs, meta \in Metas : CompleteNoAction(r, meta)
Intend    == \E r \in Runs, request \in Requests, contents \in SUBSET Contents, meta \in Metas :
               PersistApprovalIntent(r, request, contents, meta)
Stage     == \E r \in Runs, e \in Events, issue \in Issues, meta \in Metas :
               CompleteAwaitingApproval(r, e, issue, meta)
Preflighted == \E r \in Runs, status \in Preflight : RecordTerminalRun(r, status)

Next == Configure \/ Claim \/ Fail \/ NoAction \/ Intend \/ Stage \/ Preflighted \/ Tick

Spec == Init /\ [][Next]_vars
-----------------------------------------------------------------------------
TypeOK ==
  /\ workflows \in [Scopes -> [enabled : BOOLEAN, overlap : BOOLEAN]]
  /\ runs      \in [Runs -> RunRows]
  /\ claims    \in [Scopes -> ClaimRows]
  /\ dedupe    \in [Events -> DedupeRows]
  /\ approvals \in [Events -> ApprovalRows]
  /\ assets    \in [Scopes \X Contents -> AssetRows]
  /\ cursors   \in [Scopes -> Keys \cup {NoKey}]
  /\ errors    \in [Runs -> Seq(ErrorRows)]
  /\ audit     \in [Runs -> Seq(AuditRows)]
  /\ now       \in Nat

\* The run a claim row names is running, with the row's fence, and the event it
\* was claimed for is in flight under it until the same instant.  Without this a
\* holder that passes verifyClaim would roll back on a later row count, and its
\* event would be stuck until the lease ends (workflow.go 159-375).
ClaimHolderOwnsEvent ==
  \A s \in Scopes, r \in Runs : claims[s].run = r =>
    /\ runs[r].status = "running"
    /\ runs[r].event \in {s} \X Keys
    /\ runs[r].fence = claims[s].fence
    /\ dedupe[runs[r].event].state = "in_flight"
    /\ dedupe[runs[r].event].run   = r
    /\ dedupe[runs[r].event].lease = claims[s].lease

\* An event is completed exactly when one run succeeded for it, and that is the
\* run its dedupe row names: no interleaving of attempts, retries and evictions
\* gives an event two successful runs (ClaimWorkflow, completeDedupeAndCursor).
CompletedByOneRun ==
  \A e \in Events :
    /\ dedupe[e].state = "completed" => dedupe[e].run \in Runs
    /\ \A r \in Runs :
         runs[r].event = e /\ runs[r].status \in Succeeded
           <=> dedupe[e].state = "completed" /\ dedupe[e].run = r

\* The approval of an event awaits a decision exactly when the run that completed
\* the event staged it; approval, run and dedupe row name one another, whichever
\* attempt persisted the intent (PersistApprovalIntent, CompleteAwaitingApproval).
StagedTogether ==
  \A e \in Events :
    /\ approvals[e].status = "awaiting_approval" <=>
         /\ dedupe[e].state = "completed"
         /\ runs[dedupe[e].run].status = "awaiting_approval"
    /\ approvals[e].status = "awaiting_approval" =>
         /\ approvals[e].run = dedupe[e].run
         /\ runs[dedupe[e].run].approval = e
         /\ approvals[e].issue # NoIssue

\* The lease of an event left in flight by a run that is no longer running is over:
\* it never keeps the event busy for nobody (the lease-expiry branch of ClaimWorkflow
\* cancels the run but does not touch its dedupe row). Whether a claim succeeds now is
\* up to the scope: another event's run may hold it.
AbandonedEventClaimable ==
  \A e \in Events :
    dedupe[e].state = "in_flight" /\ runs[dedupe[e].run].status # "running"
      => dedupe[e].lease <= now

\* The attempts of an event are numbered 1, 2, ... without a gap, all read the
\* same release, and an attempt that a later one has replaced never succeeds
\* (docs/database.md, claim rules; COUNT(*)+1 and the input hash in ClaimWorkflow).
AttemptsInOrder ==
  \A q, r \in Runs :
    /\ runs[q].event = runs[r].event /\ runs[q].event # NoEvent
    /\ q # r
    => /\ runs[q].input = runs[r].input
       /\ runs[q].attempt # runs[r].attempt
       /\ runs[q].attempt \in 1..Attempts(runs[q].event)
       /\ runs[q].attempt < runs[r].attempt => runs[q].status \notin Succeeded

\* With allow_overlap off, the definition the program ships, every running run
\* holds its scope's claim, so two runs of a workflow are never both running and
\* a run whose process died is found by the next claim (docs/security.md line 89).
RunningHoldsClaim ==
  \A r \in Runs : runs[r].status = "running" => claims[ScopeOf(r)].run = r

\* What the audit trail and the error rows say of a run is what happened to it:
\* one claim, at most one intent, one ending, and one error row for each
\* claimed run that ended without success (insertAudit and every finalizer).
AuditTellsTheRun ==
  \A r \in Runs :
    LET status == runs[r].status
        intent == Cardinality({a \in DOMAIN assets : assets[a].run = r})
        opening == IF runs[r].event = NoEvent THEN <<>> ELSE <<"claimed">>
        ending  == IF status \in Terminal THEN <<status>> ELSE <<>>
    IN
    /\ audit[r] \in {opening \o ending, opening \o <<"intent_created">> \o ending}
    /\ (intent > 0 \/ \E e \in Events : approvals[e].status = "creating" /\ approvals[e].run = r)
         => audit[r] = opening \o <<"intent_created">> \o ending
    /\ Len(errors[r]) = IF runs[r].event # NoEvent /\ status \in Unsuccessful THEN 1 ELSE 0

\* A run that has ended is never written again, by no operation and under no
\* claim, its own included (the status and fence conditions of every UPDATE).
EndedRunsAreFinal ==
  [][\A r \in Runs : runs[r].status \in Terminal => runs'[r] = runs[r]]_runs

\* A claim that replaces another one in place carries a higher fence, so no stale claim
\* equals a later one, and unless the definition in force allows overlap a live lease
\* is never taken from its holder (docs/troubleshooting.md line 127).
LeaseIsExclusive ==
  [][\A s \in Scopes :
       claims[s].run # NoRun /\ claims'[s].run \notin {claims[s].run, NoRun} =>
         /\ claims'[s].fence > claims[s].fence
         /\ ~workflows[s].overlap => claims[s].lease <= now]_claims

\* What the rows of the three tables owe each other in between: the part of the
\* inductive invariant that no property above states.
RowsAgree ==
  /\ \A e \in Events : dedupe[e].state # "absent" =>
       dedupe[e].run \in Runs /\ runs[dedupe[e].run].event = e
  /\ \A r \in Runs :
       /\ runs[r].status = "absent" => runs[r].event = NoEvent
       /\ runs[r].status = "running" \/ runs[r].status \in Succeeded => runs[r].event \in Events

\* The inductive invariant behind the theorems of WorkflowStoreProofs.
IInv ==
  /\ TypeOK
  /\ RowsAgree
  /\ ClaimHolderOwnsEvent
  /\ CompletedByOneRun
  /\ StagedTogether
  /\ AbandonedEventClaimable

\* The store implements the ledger of events.
Ledger == INSTANCE EventLedger WITH
  holder  <- [s \in Scopes |-> claims[s].run],
  task    <- [r \in Runs |-> runs[r].event],
  outcome <- [e \in Events |-> IF dedupe[e].state = "completed"
                               THEN runs[dedupe[e].run].status ELSE "open"]

\* Every behaviour of the tables is a behaviour of the abstract ledger.
ImplementsLedger == Ledger!Spec
=============================================================================

-------------------------- MODULE ReleaseWorkflow --------------------------
(***************************************************************************)
(* ReleaseWorkflow.Run (internal/workflows/release.go) over the store of   *)
(* WorkflowStore and GitHub's issue API.  Several workers run it at once:  *)
(* cron callbacks of one daemon, a second daemon, manual commands.  A      *)
(* worker's steps are its calls to the store, the model, the workspace and *)
(* GitHub; between two of them anything may happen, a crash included.      *)
(***************************************************************************)
EXTENDS WorkflowStore

CONSTANTS
  Workers,     \* concurrent invocations of Run
  LateAccept,  \* may GitHub apply a POST after its client stopped waiting?
  MaxFaults    \* bound on crashes, errors and lost replies together

ASSUME WorkflowAssumption ==
  /\ LateAccept \in BOOLEAN
  /\ MaxFaults \in Nat
  /\ Requests = Runs     \* an issue body names the run that rendered it
  /\ Issues \subseteq Nat \* GitHub numbers issues in order

VARIABLES
  job,       \* the local variables of each worker
  released,  \* the releases published in each repository
  latest,    \* the one the release list shows first
  content,   \* the hash of what each release reads as at the moment
  remote,    \* the approval repository: the event marked in each issue
  stray,     \* events with a POST that GitHub may still apply
  mirrored,  \* events whose approval files are in the workspace
  faults     \* how much has gone wrong

external == <<released, latest, content, remote, stray>>
store    == vars
allVars  == <<vars, job, released, latest, content, remote, stray, mirrored, faults>>

\* pc is the next call of the worker; the other fields are locals of Run.
Claimed == {"lookup", "generate", "no_action", "intend", "mirror", "find", "post",
            "posting", "posted", "refind", "complete", "failed", "cancelled"}
Steps   == {"idle", "claim", "refused"} \cup Claimed

Jobs == [pc : Steps, event : Events \cup {NoEvent}, input : Inputs \cup {NoInput},
         run : Runs \cup {NoRun}, deadline : Nat, lease : Nat,
         meta : Metas \cup {NoMeta}, issue : Issues \cup {NoIssue}]

Idle == [pc |-> "idle", event |-> NoEvent, input |-> NoInput, run |-> NoRun, deadline |-> 0,
         lease |-> 0, meta |-> NoMeta, issue |-> NoIssue]

WorkflowInit ==
  /\ Init
  /\ job      = [w \in Workers |-> Idle]
  /\ released = [s \in Scopes |-> {}]
  /\ latest   = [s \in Scopes |-> NoKey]
  /\ content  \in [Events -> Inputs]
  /\ remote   = [g \in Issues |-> NoEvent]
  /\ stray    = {}
  /\ mirrored = {}
  /\ faults   = 0
-----------------------------------------------------------------------------
At(w, step)  == job[w].pc = step
Goto(w, step) == job' = [job EXCEPT ![w].pc = step]
Return(w)    == job' = [job EXCEPT ![w] = Idle]

\* The run's context: WithTimeout(definition.Timeout), started before the claim.
Alive(w)   == now < job[w].deadline
Healthy    == UNCHANGED faults
Fault      == faults < MaxFaults /\ faults' = faults + 1

\* The issues of the approval repository that carry the event's marker.
Marked(e)  == {g \in Issues : remote[g] = e}

\* GitHub gives a new issue the next id.
NextIssue(g) ==
  /\ remote[g] = NoEvent
  /\ \A h \in Issues : h < g => remote[h] # NoEvent
-----------------------------------------------------------------------------
(* Before the claim.                                                       *)

\* Faulty variants stand before the definition they break.  Here the context
\* outlives the lease.
BeginUnbounded(w, e, timeout) ==
  /\ At(w, "idle")
  /\ workflows[e[1]].enabled
  /\ e[2] \in released[e[1]]
  /\ job' = [job EXCEPT ![w] = [Idle EXCEPT !.pc = "claim", !.event = e, !.input = content[e],
                                            !.deadline = now + 2 * timeout, !.lease = timeout]]
  /\ Healthy
  /\ UNCHANGED <<store, external, mirrored>>

\* Preflight and the release read succeeded: the latest release, or the one
\* that workflow run --release-id names.
Begin(w, e, timeout) ==
  /\ At(w, "idle")
  /\ workflows[e[1]].enabled
  /\ e[2] \in released[e[1]]
  /\ job' = [job EXCEPT ![w] = [Idle EXCEPT !.pc = "claim", !.event = e, !.input = content[e],
                                            !.deadline = now + timeout, !.lease = timeout]]
  /\ Healthy
  /\ UNCHANGED <<store, external, mirrored>>

\* Preflight failed, on a disabled workflow for one, and a blocked run is recorded
\* under the cleanup context.
Blocked(w, s, r) ==
  /\ At(w, "idle")
  /\ Fault
  /\ RecordTerminalRun(r, "blocked")
  /\ UNCHANGED <<job, external, mirrored>>

ClaimEvent(w, r) ==
  /\ At(w, "claim")
  /\ Alive(w)
  /\ ClaimWorkflow(r, job[w].event, job[w].input, job[w].lease)
  /\ job' = [job EXCEPT ![w].pc = "lookup", ![w].run = r]
  /\ Healthy
  /\ UNCHANGED <<external, mirrored>>

\* A duplicate: Run returns no error.
ClaimIsDuplicate(w) ==
  /\ At(w, "claim")
  /\ Alive(w)
  /\ ClaimDuplicate(job[w].event, job[w].input)
  /\ Return(w)
  /\ Healthy
  /\ UNCHANGED <<store, external, mirrored>>

\* Any other refusal, or an expired context: Run returns the error, no row is
\* written and the caller may try again.
ClaimIsRefused(w) ==
  /\ At(w, "claim")
  /\ \/ ~Alive(w)
     \/ ~ClaimGranted(job[w].event, job[w].input) /\ ~ClaimDuplicate(job[w].event, job[w].input)
  /\ Goto(w, "refused")
  /\ Healthy
  /\ UNCHANGED <<store, external, mirrored>>

GiveUp(w) ==
  /\ At(w, "refused")
  /\ Return(w)
  /\ Healthy
  /\ UNCHANGED <<store, external, mirrored>>
-----------------------------------------------------------------------------
(* From the claim to a durable intent.                                     *)

\* Faulty: an earlier intent is ignored; its run's metadata is.
LookupNothing(w) ==
  /\ At(w, "lookup")
  /\ Alive(w)
  /\ Goto(w, "generate")
  /\ Healthy
  /\ UNCHANGED <<store, external, mirrored>>

LookupIntentOnly(w) ==
  /\ At(w, "lookup")
  /\ Alive(w)
  /\ IF approvals[job[w].event].status = "absent" THEN Goto(w, "generate") ELSE Goto(w, "mirror")
  /\ Healthy
  /\ UNCHANGED <<store, external, mirrored>>

\* ApprovalByDedupe, in a read of its own.  An earlier attempt's intent is
\* recovered with the metadata of the run that persisted it; any other approval
\* of the event is an error.
Lookup(w) ==
  LET approval == approvals[job[w].event] IN
  /\ At(w, "lookup")
  /\ Alive(w)
  /\ CASE approval.status = "absent"   -> Goto(w, "generate")
       [] approval.status = "creating" ->
            job' = [job EXCEPT ![w].pc = "mirror", ![w].meta = runs[approval.run].meta]
       [] OTHER                        -> Goto(w, "failed")
  /\ Healthy
  /\ UNCHANGED <<store, external, mirrored>>

\* Evidence, prompt, model, cost check, self-check and the marketability
\* threshold: either nothing is worth staging or there are drafts.
Generate(w, decision, meta) ==
  /\ At(w, "generate")
  /\ Alive(w)
  /\ decision \in {"no_action", "intend"}
  /\ job' = [job EXCEPT ![w].pc = decision, ![w].meta = meta]
  /\ Healthy
  /\ UNCHANGED <<store, external, mirrored>>

\* A transaction that does not commit leaves the run to fail.
Aborted(w) == Goto(w, "failed") /\ UNCHANGED store

SettleNoAction(w) ==
  /\ At(w, "no_action")
  /\ Alive(w)
  /\ IF ClaimHeld(job[w].run)
     THEN CompleteNoAction(job[w].run, job[w].meta) /\ Return(w)
     ELSE Aborted(w)
  /\ Healthy
  /\ UNCHANGED <<external, mirrored>>

\* A request hash is that of the run that rendered it, so an intent that is
\* already stored is always a different one.
Stageable(w, c) ==
  /\ ClaimHeld(job[w].run)
  /\ approvals[job[w].event].status = "absent"
  /\ AssetsFree(job[w].event[1], {c})

\* Faulty: the issue is created before the files are written.
PersistUnmirrored(w, c) ==
  /\ At(w, "intend")
  /\ Alive(w)
  /\ IF Stageable(w, c)
     THEN PersistApprovalIntent(job[w].run, job[w].run, {c}, job[w].meta) /\ Goto(w, "find")
     ELSE Aborted(w)
  /\ Healthy
  /\ UNCHANGED <<external, mirrored>>

PersistIntent(w, c) ==
  /\ At(w, "intend")
  /\ Alive(w)
  /\ IF Stageable(w, c)
     THEN PersistApprovalIntent(job[w].run, job[w].run, {c}, job[w].meta) /\ Goto(w, "mirror")
     ELSE Aborted(w)
  /\ Healthy
  /\ UNCHANGED <<external, mirrored>>

\* mirrorApproval: the approval and asset files, each replaced atomically.
Mirror(w) ==
  /\ At(w, "mirror")
  /\ mirrored' = mirrored \cup {job[w].event}
  /\ Goto(w, "find")
  /\ Healthy
  /\ UNCHANGED <<store, external>>
-----------------------------------------------------------------------------
(* createOrRecoverIssue.                                                   *)

\* Faulty: nobody looks for an earlier issue first.
FindNoIssue(w) ==
  /\ Alive(w)
  /\ \/ At(w, "find")   /\ Goto(w, "post")
     \/ At(w, "refind") /\ Goto(w, "failed")
  /\ Healthy
  /\ UNCHANGED <<store, external, mirrored>>

FindIssue(w) ==
  /\ Alive(w)
  /\ \/ /\ At(w, "find") \/ At(w, "refind")
        /\ \E g \in Marked(job[w].event) :
             job' = [job EXCEPT ![w].pc = "complete", ![w].issue = g]
     \/ /\ At(w, "find")
        /\ Marked(job[w].event) = {}
        /\ Goto(w, "post")
     \/ /\ At(w, "refind")
        /\ Marked(job[w].event) = {}
        /\ Goto(w, "failed")
  /\ Healthy
  /\ UNCHANGED <<store, external, mirrored>>

PostIssue(w) ==
  /\ At(w, "post")
  /\ Alive(w)
  /\ Goto(w, "posting")
  /\ Healthy
  /\ UNCHANGED <<store, external, mirrored>>

\* GitHub creates the issue while its client waits; its reply is under way.
AcceptIssue(w, g) ==
  /\ At(w, "posting")
  /\ Alive(w)
  /\ NextIssue(g)
  /\ remote' = [remote EXCEPT ![g] = job[w].event]
  /\ job' = [job EXCEPT ![w].pc = "posted", ![w].issue = g]
  /\ Healthy
  /\ UNCHANGED <<store, released, latest, content, stray, mirrored>>

ReceiveIssue(w) ==
  /\ At(w, "posted")
  /\ Alive(w)
  /\ Goto(w, "complete")
  /\ Healthy
  /\ UNCHANGED <<store, external, mirrored>>

\* The client stops waiting for a POST that GitHub has not applied.
Abandoned(w) == IF LateAccept /\ At(w, "posting") THEN stray \cup {job[w].event} ELSE stray

\* CreateIssue returns ErrAmbiguousWrite: the connection broke, the reply was
\* an error, or the context ended while the call was under way.
AmbiguousWrite(w) ==
  /\ At(w, "posting") \/ At(w, "posted")
  /\ job' = [job EXCEPT ![w].pc = "refind", ![w].issue = NoIssue]
  /\ stray' = Abandoned(w)
  /\ UNCHANGED <<store, released, latest, content, remote, mirrored>>

LoseReply(w) == AmbiguousWrite(w) /\ Alive(w) /\ Fault

Finalizable(w) ==
  /\ ClaimHeld(job[w].run)
  /\ approvals[job[w].event].status = "creating"
  /\ IssueFree(job[w].issue)

Finalize(w) ==
  /\ At(w, "complete")
  /\ Alive(w)
  /\ IF Finalizable(w)
     THEN /\ CompleteAwaitingApproval(job[w].run, job[w].event, job[w].issue, job[w].meta)
          /\ Return(w)
     ELSE Aborted(w)
  /\ Healthy
  /\ UNCHANGED <<external, mirrored>>
-----------------------------------------------------------------------------
(* fail, crashes, and what GitHub and the operators do on their own.       *)

\* The calls that take the context and whose error goes straight to fail.
Cancellable == {"lookup", "generate", "no_action", "intend", "find", "complete"}

\* The context has ended: cancelled, except around the POST, whose error hides the
\* context's; CreateIssue wraps it and fail is handed that one.
Expire(w) ==
  /\ ~Alive(w)
  /\ Healthy
  /\ \/ AmbiguousWrite(w)
     \/ /\ \/ job[w].pc \in Cancellable /\ Goto(w, "cancelled")
           \/ At(w, "post")   /\ Goto(w, "refind")
           \/ At(w, "refind") /\ Goto(w, "failed")
        /\ UNCHANGED <<store, external, mirrored>>

\* SIGINT, SIGTERM or the end of the scheduler cancels the context early.
Interrupt(w) ==
  /\ job[w].pc \notin {"idle", "refused"} \cup Unsuccessful
  /\ Alive(w)
  /\ Fault
  /\ job' = [job EXCEPT ![w].deadline = now]
  /\ UNCHANGED <<store, external, mirrored>>

\* A call returns an error of its own.
CallFails(w) ==
  /\ job[w].pc \in Cancellable \cup {"mirror", "refind"}
  /\ Fault
  /\ Goto(w, "failed")
  /\ UNCHANGED <<store, external, mirrored>>

\* fail, under a five-second context that survives the run's own: the run ends
\* unless its claim is stale by now, or the store cannot be written.
Cleanup(w) ==
  /\ job[w].pc \in Unsuccessful
  /\ \/ FinishUnsuccessfulRun(job[w].run, job[w].pc) /\ Healthy
     \/ ~ClaimHeld(job[w].run) /\ UNCHANGED store /\ Healthy
     \/ ClaimHeld(job[w].run) /\ UNCHANGED store /\ Fault
  /\ Return(w)
  /\ UNCHANGED <<external, mirrored>>

Crash(w) ==
  /\ ~At(w, "idle")
  /\ Fault
  /\ Return(w)
  /\ stray' = Abandoned(w)
  /\ UNCHANGED <<store, released, latest, content, remote, mirrored>>

LateIssue(e, g) ==
  /\ e \in stray
  /\ NextIssue(g)
  /\ remote' = [remote EXCEPT ![g] = e]
  /\ stray' = stray \ {e}
  /\ Healthy
  /\ UNCHANGED <<store, job, released, latest, content, mirrored>>

Publish(s, k) ==
  /\ k \notin released[s]
  /\ released' = [released EXCEPT ![s] = @ \cup {k}]
  /\ latest' = [latest EXCEPT ![s] = k]
  /\ Healthy
  /\ UNCHANGED <<store, job, content, remote, stray, mirrored>>

EditRelease(e, i) ==
  /\ content[e] # i
  /\ Fault
  /\ content' = [content EXCEPT ![e] = i]
  /\ UNCHANGED <<store, job, released, latest, remote, stray, mirrored>>

Toggle(s, enabled) ==
  /\ SetWorkflowEnabled(s, enabled)
  /\ IF enabled THEN Healthy ELSE Fault
  /\ UNCHANGED <<job, external, mirrored>>

\* Time passes during a run at most MaxTime times; when nobody works under a
\* claim it passes as long as some lease is still live.
TimePasses ==
  /\ \/ Tick
     \/ /\ now >= MaxTime
        /\ \A w \in Workers : job[w].pc \notin Claimed
        /\ \E s \in Scopes : claims[s].lease > now
        /\ now' = now + 1
        /\ UNCHANGED <<workflows, runs, claims, dedupe, approvals, assets, cursors, errors, audit>>
  /\ Healthy
  /\ UNCHANGED <<job, external, mirrored>>
-----------------------------------------------------------------------------
\* What a worker's goroutine does when nothing goes wrong.
Work(w) ==
  \/ \E r \in Runs : ClaimEvent(w, r)
  \/ ClaimIsDuplicate(w) \/ ClaimIsRefused(w) \/ GiveUp(w)
  \/ Lookup(w)
  \/ \E decision \in {"no_action", "intend"}, meta \in Metas : Generate(w, decision, meta)
  \/ SettleNoAction(w)
  \/ \E c \in Contents : PersistIntent(w, c)
  \/ Mirror(w) \/ FindIssue(w) \/ PostIssue(w)
  \/ \E g \in Issues : AcceptIssue(w, g)
  \/ ReceiveIssue(w) \/ Finalize(w) \/ Expire(w) \/ Cleanup(w)

\* The cron callback reads the release list; a command may name a release.
Poll(w)   == \E e \in Events, d \in Leases : e[2] = latest[e[1]] /\ Begin(w, e, d)
Manual(w) == \E e \in Events, d \in Leases : Begin(w, e, d)

Trouble(w) ==
  \/ \E s \in Scopes, r \in Runs : Blocked(w, s, r)
  \/ LoseReply(w) \/ CallFails(w) \/ Interrupt(w) \/ Crash(w)

World ==
  \/ \E e \in Events, g \in Issues : LateIssue(e, g)
  \/ \E s \in Scopes, k \in Keys : Publish(s, k)
  \/ \E e \in Events, i \in Inputs : EditRelease(e, i)
  \/ \E s \in Scopes, enabled \in BOOLEAN : Toggle(s, enabled)
  \/ TimePasses

WorkflowNext == (\E w \in Workers : Work(w) \/ Manual(w) \/ Trouble(w)) \/ World

WorkflowSpec == WorkflowInit /\ [][WorkflowNext]_allVars

\* The runtime schedules every goroutine, the callback of some daemon comes around
\* again and again between other invocations, and the clock does not stop.
Fairness ==
  /\ \A w \in Workers : WF_allVars(Work(w))
  /\ SF_allVars(\E w \in Workers : Poll(w))
  /\ WF_allVars(TimePasses)

FairWorkflowSpec == WorkflowSpec /\ Fairness
-----------------------------------------------------------------------------
\* A worker whose context has not expired still holds its claim: the context
\* starts before the lease and both last definition.Timeout, so no live worker is
\* ever evicted, and two live workers never work in the same scope (release.go 88,
\* 163).
LiveWorkerHoldsClaim ==
  \A w \in Workers : job[w].pc \in Claimed /\ Alive(w) => ClaimHeld(job[w].run)

\* At most one issue of an event is ever created, through crashes, lost replies,
\* expired contexts and recoveries by other workers (docs/architecture.md 122).
OneIssuePerEvent == \A e \in Events : Cardinality(Marked(e)) <= 1

\* The issue that an approval names exists and carries that approval's marker,
\* and no issue exists for an event without a stored intent and mirrored files.
IssueBacksApproval ==
  /\ \A e \in Events :
       approvals[e].status = "awaiting_approval" => approvals[e].issue \in Marked(e)
  /\ \A g \in Issues : remote[g] # NoEvent =>
       approvals[remote[g]].status # "absent" /\ remote[g] \in mirrored

\* The run that stages an approval, however many recoveries later, carries the
\* metadata of the run that generated its drafts.
RecoveryKeepsMetadata ==
  \A e \in Events : approvals[e].status = "awaiting_approval" =>
    \A a \in DOMAIN assets : assets[a].approval = e =>
      runs[approvals[e].run].meta = runs[assets[a].run].meta

\* Once the drafts of an event are stored no attempt generates it again.
DraftsGeneratedOnce ==
  [][\A w \in Workers :
       At(w, "generate") /\ job'[w].pc \in {"no_action", "intend"} =>
         approvals[job[w].event].status = "absent"]_job

\* The two answers of ClaimWorkflow that no retry changes, given before it looks at
\* the scope's claim: completed, or read otherwise than when it was first claimed.
Settled(e) == dedupe[e].state = "completed" \/ InputChanged(e, content[e])

PollsAreRefused(s) == latest[s] = NoKey \/ Settled(<<s, latest[s]>>)

\* Work on the release that stays the latest ends: when its workflow stays enabled and
\* faults and edits stop, the event is completed, unless the release was edited after
\* its first claim, which every later poll is refused for (workflow.go 186). Attempts
\* that fail, crash or expire, and manual runs of other releases, do not prevent it.
LatestReleaseSettles ==
  \A s \in Scopes, k \in Keys :
    <>[](workflows[s].enabled /\ latest[s] = k) => <>[]Settled(<<s, k>>)

\* While its workflow stays enabled a claimed run ends, a crashed one when the next
\* claim evicts it. The one exception: it goes on holding the claim and every poll is
\* answered before the eviction (workflow.go 186 and 189, before 214), as after the
\* crash of a manual run of an older release, or an edit of the latest one.
ClaimedRunEnds ==
  \A s \in Scopes, r \in Runs :
    <>[](workflows[s].enabled) =>
      (runs[r].status = "running" /\ runs[r].event[1] = s
         ~> runs[r].status # "running" \/ [](claims[s].run = r /\ PollsAreRefused(s)))

\* docs/database.md 58: a claim for a completed event is rejected as a duplicate.
\* ClaimWorkflow compares the input hash first (workflow.go 186 and 189).
CompletedEventIsDuplicate ==
  [][\A w \in Workers :
       At(w, "claim") /\ Alive(w) /\ dedupe[job[w].event].state = "completed"
         /\ workflows[job[w].event[1]].enabled
       => job'[w].pc # "refused"]_job
=============================================================================

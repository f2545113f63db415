------------------------------ MODULE Scheduler ------------------------------
(***************************************************************************)
(* The daemon of `scheduler start` (internal/scheduler/scheduler.go): it   *)
(* reconciles cron entries with the enabled definitions, runs callbacks    *)
(* with retries under the durable kill switch, and shuts down.  What a     *)
(* callback runs is ReleaseWorkflow; here a run ends well or in an error.  *)
(* Time is abstract: a timer may fire as soon as it is set.                *)
(***************************************************************************)
EXTENDS Naturals

CONSTANTS
  Workflows,    \* definitions, numbered in the order of product_id and id
  Cadences,     \* what a fingerprint tells apart: cron expression and timeout
  BadCadences,  \* those that cron cannot parse; UpsertWorkflow stores them
  Callbacks,    \* goroutines of the cron library
  MaxRetries,   \* retries of a failed attempt
  ConfigKill,   \* safety.global_kill_switch of the configuration
  MaxFaults,    \* bound on crashes and errors of the store
  NoWorkflow, NoCadence

ASSUME SchedulerAssumption ==
  /\ Workflows \subseteq Nat
  /\ BadCadences \subseteq Cadences
  /\ MaxRetries \in Nat
  /\ MaxFaults \in Nat
  /\ ConfigKill \in BOOLEAN
  /\ NoWorkflow \notin Workflows
  /\ NoCadence \notin Cadences

VARIABLES
  definitions,  \* the rows of workflows: enabled and cadence
  killed,       \* the row of scheduler_state
  phase,        \* where Start is
  started,      \* clock.Start has been called
  cancelled,    \* the context of the command has ended
  outcome,      \* what Start returned
  wanted,       \* the definitions that the last list returned
  todo,         \* those that this reconcile has not looked at yet
  registered,   \* the fingerprint that the map registered holds
  entries,      \* the entries of the cron clock
  job,          \* the callbacks under way
  faults        \* how much has gone wrong

database == <<definitions, killed>>
daemon   == <<phase, started, cancelled, outcome, wanted, todo, registered, entries>>
vars     == <<database, daemon, job, faults>>
-----------------------------------------------------------------------------
IdleJob == [pc |-> "idle", workflow |-> NoWorkflow, attempt |-> 0]
Jobs    == [pc : {"idle", "top", "check", "record", "run", "wait"},
            workflow : Workflows \cup {NoWorkflow}, attempt : 0..MaxRetries]

AllIdle == \A b \in Callbacks : job[b] = IdleJob
Healthy == UNCHANGED faults
Fault   == faults < MaxFaults /\ faults' = faults + 1

Nothing == [w \in Workflows |-> NoCadence]
NoJobs  == [b \in Callbacks |-> IdleJob]

Init ==
  /\ definitions \in [Workflows -> [enabled : {FALSE}, cadence : Cadences]]
  /\ killed     = FALSE
  /\ phase      = "down"
  /\ started    = FALSE
  /\ cancelled  = FALSE
  /\ outcome    = "none"
  /\ wanted     = Nothing
  /\ todo       = {}
  /\ registered = Nothing
  /\ entries    = {}
  /\ job        = NoJobs
  /\ faults     = 0
-----------------------------------------------------------------------------
(* Operators, by commands of their own.  Each opens a runtime, which sets  *)
(* the switch when the configuration says so.                              *)

Define(w, enabled, cadence) ==
  /\ definitions' = [definitions EXCEPT ![w] = [enabled |-> enabled, cadence |-> cadence]]
  /\ Healthy
  /\ UNCHANGED <<killed, daemon, job>>

Toggle(w, enabled) ==
  /\ definitions' = [definitions EXCEPT ![w].enabled = enabled]
  /\ Healthy
  /\ UNCHANGED <<killed, daemon, job>>

OpenRuntime ==
  /\ ConfigKill
  /\ killed' = TRUE
  /\ Healthy
  /\ UNCHANGED <<definitions, daemon, job>>

SetKillSwitch(on) ==
  /\ killed' = on
  /\ Healthy
  /\ UNCHANGED <<definitions, daemon, job>>
-----------------------------------------------------------------------------
(* Start.  "list" and "register" are reconcile, "select" its main loop.    *)

StartDaemon ==
  /\ phase = "down"
  /\ phase'   = "list"
  /\ outcome' = "none"
  /\ killed'  = (killed \/ ConfigKill)
  /\ Healthy
  /\ UNCHANGED <<definitions, started, cancelled, wanted, todo, registered, entries, job>>

List ==
  /\ phase = "list"
  /\ ~cancelled
  /\ wanted' = [w \in Workflows |->
                  IF definitions[w].enabled THEN definitions[w].cadence ELSE NoCadence]
  /\ todo'   = {w \in Workflows : definitions[w].enabled}
  /\ phase'  = "register"
  /\ Healthy
  /\ UNCHANGED <<database, started, cancelled, outcome, registered, entries, job>>

\* reconcile returns an error: logged in the main loop, fatal before clock.Start.
Abort ==
  /\ phase'   = IF started THEN "select" ELSE "returned"
  /\ outcome' = IF started THEN outcome ELSE "error"

ListFails ==
  /\ phase = "list"
  /\ Abort
  /\ IF cancelled THEN Healthy ELSE Fault
  /\ UNCHANGED <<database, started, cancelled, wanted, todo, registered, entries, job>>

\* The rows come ordered.
Current(w) == w \in todo /\ \A v \in todo : w <= v

\* Faulty: any registration will do.
AnyRegistration(w) == registered[w] # NoCadence

Registered(w) == registered[w] = wanted[w]

KeepEntry(w) ==
  /\ phase = "register"
  /\ Current(w)
  /\ Registered(w)
  /\ todo' = todo \ {w}
  /\ Healthy
  /\ UNCHANGED <<database, phase, started, cancelled, outcome, wanted, registered, entries, job>>

\* clock.Remove of the registered entry, if there is one.
EntriesWithout(w) == entries \ {<<w, registered[w]>>}

AddEntry(w) ==
  /\ phase = "register"
  /\ Current(w)
  /\ ~Registered(w)
  /\ wanted[w] \notin BadCadences
  /\ entries'    = EntriesWithout(w) \cup {<<w, wanted[w]>>}
  /\ registered' = [registered EXCEPT ![w] = wanted[w]]
  /\ todo'       = todo \ {w}
  /\ Healthy
  /\ UNCHANGED <<database, phase, started, cancelled, outcome, wanted, job>>

\* AddFunc refuses the cadence: the old entry is gone, its registration is not, and
\* neither the definitions after it nor the removals are looked at.
RejectEntry(w) ==
  /\ phase = "register"
  /\ Current(w)
  /\ ~Registered(w)
  /\ wanted[w] \in BadCadences
  /\ entries' = EntriesWithout(w)
  /\ Abort
  /\ Healthy
  /\ UNCHANGED <<database, started, cancelled, wanted, todo, registered, job>>

\* The second loop of reconcile, and clock.Start after the first reconcile.
RemoveUnwanted ==
  /\ phase = "register"
  /\ todo = {}
  /\ entries' = {entry \in entries : wanted[entry[1]] # NoCadence}
  /\ registered' = [w \in Workflows |->
                      IF wanted[w] = NoCadence THEN NoCadence ELSE registered[w]]
  /\ phase'   = "select"
  /\ started' = TRUE
  /\ Healthy
  /\ UNCHANGED <<database, cancelled, outcome, wanted, todo, job>>

Refresh ==
  /\ phase = "select"
  /\ phase' = "list"
  /\ Healthy
  /\ UNCHANGED <<database, started, cancelled, outcome, wanted, todo, registered, entries, job>>

\* Faulty: the clock stops when the callbacks have ended, not before.
StopIdleClock ==
  /\ phase = "select"
  /\ cancelled
  /\ AllIdle
  /\ phase' = "stopping"
  /\ Healthy
  /\ UNCHANGED <<database, started, cancelled, outcome, wanted, todo, registered, entries, job>>

StopClock ==
  /\ phase = "select"
  /\ cancelled
  /\ phase' = "stopping"
  /\ Healthy
  /\ UNCHANGED <<database, started, cancelled, outcome, wanted, todo, registered, entries, job>>

\* Faulty: nobody waits for the callbacks.
ReturnAtOnce ==
  /\ phase = "stopping"
  /\ phase'   = "returned"
  /\ outcome' = "nil"
  /\ Healthy
  /\ UNCHANGED <<database, started, cancelled, wanted, todo, registered, entries, job>>

ReturnStopped ==
  /\ phase = "stopping"
  /\ AllIdle
  /\ phase'   = "returned"
  /\ outcome' = "nil"
  /\ Healthy
  /\ UNCHANGED <<database, started, cancelled, wanted, todo, registered, entries, job>>

\* Ten seconds passed before the last callback ended.
ReturnTimedOut ==
  /\ phase = "stopping"
  /\ ~AllIdle
  /\ phase'   = "returned"
  /\ outcome' = "error"
  /\ Healthy
  /\ UNCHANGED <<database, started, cancelled, wanted, todo, registered, entries, job>>

\* What the process kept is gone with it.
EndProcess ==
  /\ phase'      = "down"
  /\ started'    = FALSE
  /\ cancelled'  = FALSE
  /\ outcome'    = "none"
  /\ wanted'     = Nothing
  /\ todo'       = {}
  /\ registered' = Nothing
  /\ entries'    = {}
  /\ job'        = NoJobs
  /\ UNCHANGED database

\* The store is closed when Start returns; then the process ends.
Exit == phase = "returned" /\ EndProcess /\ Healthy

Cancel ==
  /\ phase \notin {"down", "returned"}
  /\ cancelled' = TRUE
  /\ Healthy
  /\ UNCHANGED <<database, phase, started, outcome, wanted, todo, registered, entries, job>>

Crash == phase # "down" /\ EndProcess /\ Fault
-----------------------------------------------------------------------------
(* executeWithRetry and RunOnce, in a goroutine of the cron clock.         *)

Goto(b, step) == job' = [job EXCEPT ![b].pc = step]
Return(b)     == job' = [job EXCEPT ![b] = IdleJob]

Fire(b, w) ==
  /\ started
  /\ phase \in {"list", "register", "select"}
  /\ job[b] = IdleJob
  /\ \E c \in Cadences : <<w, c>> \in entries
  /\ job' = [job EXCEPT ![b] = [pc |-> "top", workflow |-> w, attempt |-> 0]]
  /\ Healthy
  /\ UNCHANGED <<database, daemon>>

BeginAttempt(b) ==
  /\ job[b].pc = "top"
  /\ IF cancelled THEN Return(b) ELSE Goto(b, "check")
  /\ Healthy
  /\ UNCHANGED <<database, daemon>>

\* Faulty: one retry too many.
FailAgain(b) == IF job[b].attempt > MaxRetries THEN Return(b) ELSE Goto(b, "wait")

FailAttempt(b) == IF job[b].attempt = MaxRetries THEN Return(b) ELSE Goto(b, "wait")

\* RunOnce reads the switch before every attempt.
CheckKillSwitch(b) ==
  /\ job[b].pc = "check"
  /\ ~cancelled
  /\ IF killed THEN Goto(b, "record") ELSE Goto(b, "run")
  /\ Healthy
  /\ UNCHANGED <<database, daemon>>

CheckFails(b) ==
  /\ job[b].pc = "check"
  /\ IF cancelled THEN Healthy ELSE Fault
  /\ FailAttempt(b)
  /\ UNCHANGED <<database, daemon>>

\* Faulty: a run refused by the switch is an error like any other.
RecordAndRetry(b) ==
  /\ job[b].pc = "record"
  /\ FailAttempt(b)
  /\ Healthy
  /\ UNCHANGED <<database, daemon>>

\* RecordTerminalRun, whose error is only logged; ErrKilled ends the callback.
RecordKilled(b) ==
  /\ job[b].pc = "record"
  /\ Return(b)
  /\ Healthy
  /\ UNCHANGED <<database, daemon>>

\* Run returns no error, for a duplicate too, or an error.
EndRun(b) ==
  /\ job[b].pc = "run"
  /\ Return(b) \/ FailAttempt(b)
  /\ Healthy
  /\ UNCHANGED <<database, daemon>>

RetryLater(b) ==
  /\ job[b].pc = "wait"
  /\ job' = [job EXCEPT ![b].pc = "top", ![b].attempt = @ + 1]
  /\ Healthy
  /\ UNCHANGED <<database, daemon>>

StopRetrying(b) ==
  /\ job[b].pc = "wait"
  /\ cancelled
  /\ Return(b)
  /\ Healthy
  /\ UNCHANGED <<database, daemon>>
-----------------------------------------------------------------------------
Reconcile == List \/ (\E w \in Workflows : KeepEntry(w) \/ AddEntry(w) \/ RejectEntry(w))
             \/ RemoveUnwanted

\* The goroutine of Start, and one callback, while the store answers.
Daemon == Reconcile \/ Refresh \/ StopClock \/ ReturnStopped \/ ReturnTimedOut \/ Exit
          \/ (cancelled /\ ListFails)

Callback(b) ==
  \/ BeginAttempt(b) \/ CheckKillSwitch(b) \/ RecordKilled(b) \/ EndRun(b)
  \/ RetryLater(b) \/ StopRetrying(b) \/ (cancelled /\ CheckFails(b))

Operator ==
  \/ \E w \in Workflows, enabled \in BOOLEAN :
       Toggle(w, enabled) \/ \E c \in Cadences : Define(w, enabled, c)
  \/ \E on \in BOOLEAN : SetKillSwitch(on)
  \/ OpenRuntime \/ StartDaemon \/ Cancel

Trouble == Crash \/ (~cancelled /\ (ListFails \/ \E b \in Callbacks : CheckFails(b)))

Next ==
  \/ Daemon \/ Operator \/ Trouble
  \/ \E b \in Callbacks : Callback(b) \/ \E w \in Workflows : Fire(b, w)

Spec == Init /\ [][Next]_vars

\* The runtime schedules the goroutines, and the select of Start picks at random
\* among its ready cases.
Fairness ==
  /\ WF_vars(Daemon)
  /\ SF_vars(StopClock)
  /\ \A b \in Callbacks : WF_vars(Callback(b))

FairSpec == Spec /\ Fairness
-----------------------------------------------------------------------------
Phases == {"down", "list", "register", "select", "stopping", "returned"}

TypeOK ==
  /\ definitions \in [Workflows -> [enabled : BOOLEAN, cadence : Cadences]]
  /\ killed \in BOOLEAN
  /\ phase \in Phases
  /\ started \in BOOLEAN
  /\ cancelled \in BOOLEAN
  /\ outcome \in {"none", "nil", "error"}
  /\ wanted \in [Workflows -> Cadences \cup {NoCadence}]
  /\ todo \in SUBSET Workflows
  /\ registered \in [Workflows -> Cadences \cup {NoCadence}]
  /\ entries \in SUBSET (Workflows \X Cadences)
  /\ job \in [Callbacks -> Jobs]
  /\ faults \in 0..MaxFaults

\* Every entry of the clock is the one its workflow is registered with, at every step
\* of a reconcile and after every error in one: no workflow is polled by two entries
\* and no entry is beyond the reach of a later removal (scheduler.go 86-110).
EntriesAreRegistered ==
  \A w \in Workflows, c \in Cadences : <<w, c>> \in entries => registered[w] = c

\* When Start has returned nil, and with it the store is closed, no callback is still
\* at work, whenever the signal came and whatever retries were pending
\* (docs/cli.md 118: waits for active jobs during graceful shutdown).
NothingRunsAfterReturn == phase = "returned" /\ outcome = "nil" => AllIdle

\* A reconcile that looked at every definition leaves the clock with exactly the
\* definitions it listed, however they changed since the one before.
ReconcileIsExact ==
  [][phase = "register" /\ todo = {} /\ phase' = "select" =>
       entries' = {entry \in Workflows \X Cadences : wanted[entry[1]] = entry[2]}]_<<phase, entries>>

Up == phase \in {"list", "register", "select"} /\ ~cancelled

\* A running daemon's clock follows the table (docs/cli.md 118, configuration.md 127):
\* what stays enabled with one cadence that cron can parse comes to be in it and stays,
\* and what stays disabled leaves it.
ClockFollowsDefinitions ==
  \A w \in Workflows, c \in Cadences \ BadCadences :
    /\ <>[](Up /\ definitions[w] = [enabled |-> TRUE, cadence |-> c]) => <>[](<<w, c>> \in entries)
    /\ <>[](Up /\ ~definitions[w].enabled) => <>[](<<w, c>> \notin entries)

\* While the switch stays on, the runs and retries already under way come to an end
\* and no scheduled run is started or waited for again: a run that the switch stops
\* is not retried (docs/architecture.md 151).
KillSwitchQuiets ==
  <>[](killed /\ ~cancelled) => <>[](\A b \in Callbacks : job[b].pc \notin {"run", "wait"})

\* A daemon whose context has ended stops, though its clock fires and its callbacks
\* retry in the meantime.
ShutdownEnds == cancelled ~> ~cancelled
=============================================================================

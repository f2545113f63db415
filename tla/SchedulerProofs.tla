--------------------------- MODULE SchedulerProofs ---------------------------
(***************************************************************************)
(* Theorems about Scheduler for any number of workflows, cadences and      *)
(* callbacks: its types, that no cron entry is ever beyond the reach of a  *)
(* removal, that a graceful shutdown leaves nothing at work, and that      *)
(* without bad cadences a reconcile leaves exactly what it listed.         *)
(***************************************************************************)
EXTENDS Scheduler, TLAPS

\* What is still to be looked at has a cadence: it was listed as enabled.
TodoIsWanted == \A w \in todo : wanted[w] \in Cadences

\* A callback that waits has a retry left.
WaitsHaveRetries == \A b \in Callbacks : job[b].pc = "wait" => job[b].attempt < MaxRetries

SInv ==
  /\ TypeOK
  /\ TodoIsWanted
  /\ WaitsHaveRetries
  /\ EntriesAreRegistered
  /\ NothingRunsAfterReturn

\* The idle job, and the jobs of a process that is gone, have their types.
LEMMA IdleJobType == IdleJob \in Jobs /\ NoJobs \in [Callbacks -> Jobs]
BY SchedulerAssumption DEF IdleJob, Jobs, NoJobs

\* The invariant holds of a machine without a daemon.
LEMMA SInit == Init => SInv
<1> SUFFICES ASSUME Init PROVE SInv
  OBVIOUS
<1>1. TypeOK
  <2>1. definitions \in [Workflows -> [enabled : BOOLEAN, cadence : Cadences]]
    BY DEF Init
  <2>2. job \in [Callbacks -> Jobs] /\ faults \in 0..MaxFaults
    BY IdleJobType, SchedulerAssumption DEF Init
  <2>3. /\ wanted \in [Workflows -> Cadences \cup {NoCadence}]
        /\ registered \in [Workflows -> Cadences \cup {NoCadence}]
    BY DEF Init, Nothing
  <2> QED
    BY <2>1, <2>2, <2>3 DEF Init, TypeOK, Phases
<1>2. TodoIsWanted /\ EntriesAreRegistered /\ NothingRunsAfterReturn
  BY DEF Init, TodoIsWanted, EntriesAreRegistered, NothingRunsAfterReturn
<1>3. WaitsHaveRetries
  BY DEF Init, WaitsHaveRetries, NoJobs, IdleJob
<1> QED
  BY <1>1, <1>2, <1>3 DEF SInv

\* A job that changes its step, or starts its next attempt, keeps its type.
LEMMA JobStep ==
  ASSUME job \in [Callbacks -> Jobs], WaitsHaveRetries, NEW b \in Callbacks,
         NEW pc \in {"top", "check", "record", "run", "wait"},
         NEW n \in 0..MaxRetries, NEW w \in Workflows \cup {NoWorkflow},
         pc = "wait" => n < MaxRetries,
         job' = [job EXCEPT ![b] = [pc |-> pc, workflow |-> w, attempt |-> n]]
  PROVE  job' \in [Callbacks -> Jobs] /\ WaitsHaveRetries'
BY DEF Jobs, WaitsHaveRetries

\* Ending a job keeps the types, too.
LEMMA JobEnd ==
  ASSUME job \in [Callbacks -> Jobs], WaitsHaveRetries, NEW b \in Callbacks, Return(b)
  PROVE  job' \in [Callbacks -> Jobs] /\ WaitsHaveRetries'
BY IdleJobType DEF Return, IdleJob, Jobs, WaitsHaveRetries

\* A callback that moves to a step it need not wait in keeps the types.
LEMMA JobMove ==
  ASSUME job \in [Callbacks -> Jobs], WaitsHaveRetries, NEW b \in Callbacks,
         NEW pc \in {"check", "record", "run", "wait"},
         pc = "wait" => job[b].attempt < MaxRetries, Goto(b, pc)
  PROVE  job' \in [Callbacks -> Jobs] /\ WaitsHaveRetries'
<1>1. /\ job[b] \in Jobs
      /\ job' = [job EXCEPT ![b] = [pc |-> pc, workflow |-> job[b].workflow,
                                    attempt |-> job[b].attempt]]
  <2>1. job[b] \in Jobs
    OBVIOUS
  <2>2. job[b] = [pc |-> job[b].pc, workflow |-> job[b].workflow, attempt |-> job[b].attempt]
    BY <2>1 DEF Jobs
  <2>3. [job[b] EXCEPT !.pc = pc] = [pc |-> pc, workflow |-> job[b].workflow,
                                     attempt |-> job[b].attempt]
    BY <2>2
  <2>4. job' = [job EXCEPT ![b] = [job[b] EXCEPT !.pc = pc]]
    BY DEF Goto
  <2> QED
    BY <2>1, <2>3, <2>4
<1>2. job[b].attempt \in 0..MaxRetries /\ job[b].workflow \in Workflows \cup {NoWorkflow}
  BY <1>1 DEF Jobs
<1> QED
  BY <1>1, <1>2, JobStep

\* A failed attempt waits only when a retry is left.
LEMMA JobFailure ==
  ASSUME job \in [Callbacks -> Jobs], WaitsHaveRetries, NEW b \in Callbacks, FailAttempt(b)
  PROVE  job' \in [Callbacks -> Jobs] /\ WaitsHaveRetries'
<1>1. CASE job[b].attempt = MaxRetries
  BY <1>1, JobEnd DEF FailAttempt
<1>2. CASE job[b].attempt # MaxRetries
  <2>1. job[b].attempt < MaxRetries
    BY <1>2, SchedulerAssumption DEF Jobs
  <2> QED
    BY <1>2, <2>1, JobMove DEF FailAttempt
<1> QED
  BY <1>1, <1>2

\* A step of a callback keeps the types and changes nothing but its job, which was not
\* idle.
LEMMA CallbackStep ==
  ASSUME SInv, NEW b \in Callbacks, Callback(b) \/ CheckFails(b)
  PROVE  /\ job' \in [Callbacks -> Jobs]
         /\ WaitsHaveRetries'
         /\ faults' \in 0..MaxFaults
         /\ job[b] # IdleJob
         /\ UNCHANGED <<database, daemon>>
<1>1. job \in [Callbacks -> Jobs] /\ WaitsHaveRetries /\ faults \in 0..MaxFaults
  BY DEF SInv, TypeOK
<1>2. Healthy \/ Fault => faults' \in 0..MaxFaults
  BY <1>1, SchedulerAssumption DEF Healthy, Fault
<1>3. CASE BeginAttempt(b)
  BY <1>1, <1>2, <1>3, JobEnd, JobMove DEF BeginAttempt, IdleJob
<1>4. CASE CheckKillSwitch(b)
  BY <1>1, <1>2, <1>4, JobMove DEF CheckKillSwitch, IdleJob
<1>5. CASE CheckFails(b)
  BY <1>1, <1>2, <1>5, JobFailure DEF CheckFails, IdleJob
<1>6. CASE RecordKilled(b)
  BY <1>1, <1>2, <1>6, JobEnd DEF RecordKilled, IdleJob
<1>7. CASE EndRun(b)
  BY <1>1, <1>2, <1>7, JobEnd, JobFailure DEF EndRun, IdleJob
<1>8. CASE StopRetrying(b)
  BY <1>1, <1>2, <1>8, JobEnd DEF StopRetrying, IdleJob
<1>9. CASE RetryLater(b)
  <2>1. job[b].attempt + 1 \in 0..MaxRetries /\ job[b].workflow \in Workflows \cup {NoWorkflow}
    BY <1>1, <1>9, SchedulerAssumption DEF RetryLater, WaitsHaveRetries, Jobs
  <2>2. job' = [job EXCEPT ![b] = [pc |-> "top", workflow |-> job[b].workflow,
                                   attempt |-> job[b].attempt + 1]]
    BY <1>1, <1>9 DEF RetryLater, Jobs
  <2>3. job' \in [Callbacks -> Jobs] /\ WaitsHaveRetries'
    BY <1>1, <2>1, <2>2, JobStep
  <2> QED
    BY <1>2, <1>9, <2>3 DEF RetryLater, IdleJob
<1> QED
  BY <1>3, <1>4, <1>5, <1>6, <1>7, <1>8, <1>9 DEF Callback

\* The cron clock starts an idle callback, while Start is in its loop.
LEMMA FireStep ==
  ASSUME SInv, NEW b \in Callbacks, NEW w \in Workflows, Fire(b, w)
  PROVE  /\ job' \in [Callbacks -> Jobs]
         /\ WaitsHaveRetries'
         /\ phase # "returned"
         /\ UNCHANGED <<database, daemon, faults>>
<1>1. job \in [Callbacks -> Jobs] /\ WaitsHaveRetries
  BY DEF SInv, TypeOK
<1>2. job' = [job EXCEPT ![b] = [pc |-> "top", workflow |-> w, attempt |-> 0]]
  BY DEF Fire
<1>3. 0 \in 0..MaxRetries
  BY SchedulerAssumption
<1>4. job' \in [Callbacks -> Jobs] /\ WaitsHaveRetries'
  BY <1>1, <1>2, <1>3, JobStep
<1> QED
  BY <1>4 DEF Fire, Healthy

\* What a step that leaves the jobs, the clock and the return alone must still show.
LEMMA QuietStep ==
  ASSUME SInv, TypeOK', TodoIsWanted', UNCHANGED <<registered, entries, job>>,
         phase' # "returned" \/ UNCHANGED <<phase, outcome>>
  PROVE  SInv'
BY DEF SInv, WaitsHaveRetries, EntriesAreRegistered, NothingRunsAfterReturn, AllIdle

\* The commands of operators.
LEMMA OperatorStep == SInv /\ Operator => SInv'
<1> SUFFICES ASSUME SInv, Operator PROVE SInv'
  OBVIOUS
<1> USE DEF SInv, TypeOK, Healthy, daemon, database
<1>1. ASSUME NEW w \in Workflows, NEW enabled \in BOOLEAN,
             Toggle(w, enabled) \/ \E c \in Cadences : Define(w, enabled, c)
      PROVE  SInv'
  <2>1. definitions' \in [Workflows -> [enabled : BOOLEAN, cadence : Cadences]]
    BY <1>1 DEF Toggle, Define
  <2>2. UNCHANGED <<killed, daemon, job, faults>>
    BY <1>1 DEF Toggle, Define
  <2> QED
    BY <2>1, <2>2, QuietStep DEF TodoIsWanted, Phases
<1>2. ASSUME NEW on \in BOOLEAN, SetKillSwitch(on) \/ OpenRuntime PROVE SInv'
  BY <1>2, QuietStep DEF SetKillSwitch, OpenRuntime, TodoIsWanted, Phases
<1>3. CASE StartDaemon
  <2>1. TypeOK' /\ TodoIsWanted'
    BY <1>3, SchedulerAssumption DEF StartDaemon, TodoIsWanted, Phases
  <2> QED
    BY <1>3, <2>1, QuietStep DEF StartDaemon
<1>4. CASE Cancel
  <2>1. TypeOK' /\ TodoIsWanted'
    BY <1>4 DEF Cancel, TodoIsWanted, Phases
  <2> QED
    BY <1>4, <2>1, QuietStep DEF Cancel
<1> QED
  BY <1>1, <1>2, <1>3, <1>4 DEF Operator

\* One definition of a reconcile.
LEMMA RegisterStep ==
  ASSUME SInv, NEW w \in Workflows, KeepEntry(w) \/ AddEntry(w) \/ RejectEntry(w)
  PROVE  SInv'
<1> USE DEF SInv, TypeOK, Healthy, daemon, database
<1>1. w \in todo /\ wanted[w] \in Cadences /\ phase = "register"
  BY DEF KeepEntry, AddEntry, RejectEntry, Current, TodoIsWanted
<1>2. CASE KeepEntry(w)
  <2>1. TypeOK' /\ TodoIsWanted'
    BY <1>2 DEF KeepEntry, TodoIsWanted, Phases
  <2> QED
    BY <1>2, <2>1, QuietStep DEF KeepEntry
<1>3. CASE AddEntry(w)
  <2>1. entries' \in SUBSET (Workflows \X Cadences)
    BY <1>1, <1>3 DEF AddEntry, EntriesWithout
  <2>2. TypeOK' /\ TodoIsWanted'
    BY <1>1, <1>3, <2>1 DEF AddEntry, TodoIsWanted, Phases
  <2>3. EntriesAreRegistered'
    <3> SUFFICES ASSUME NEW v \in Workflows, NEW c \in Cadences, <<v, c>> \in entries'
                 PROVE  registered'[v] = c
      BY DEF EntriesAreRegistered
    <3>1. CASE v = w
      <4>1. <<v, c>> \in entries => registered[w] = c
        BY <3>1 DEF EntriesAreRegistered
      <4>2. c = wanted[w]
        BY <1>3, <3>1, <4>1 DEF AddEntry, EntriesWithout
      <4> QED
        BY <1>3, <3>1, <4>2 DEF AddEntry
    <3>2. CASE v # w
      <4>1. <<v, c>> \in entries
        BY <1>3, <3>2 DEF AddEntry, EntriesWithout
      <4> QED
        BY <1>3, <3>2, <4>1 DEF AddEntry, EntriesAreRegistered
    <3> QED
      BY <3>1, <3>2
  <2> QED
    BY <1>1, <1>3, <2>2, <2>3 DEF AddEntry, WaitsHaveRetries, NothingRunsAfterReturn
<1>4. CASE RejectEntry(w)
  <2>1. TypeOK' /\ TodoIsWanted'
    BY <1>4 DEF RejectEntry, Abort, EntriesWithout, TodoIsWanted, Phases
  <2>2. EntriesAreRegistered'
    BY <1>4 DEF RejectEntry, EntriesWithout, EntriesAreRegistered
  <2> QED
    BY <1>1, <1>4, <2>1, <2>2
    DEF RejectEntry, Abort, WaitsHaveRetries, NothingRunsAfterReturn, AllIdle
<1> QED
  BY <1>2, <1>3, <1>4

\* The rest of what the goroutine of Start does, and the end of its process.
LEMMA DaemonStep == SInv /\ (Daemon \/ ListFails \/ Crash) => SInv'
<1> SUFFICES ASSUME SInv, Daemon \/ ListFails \/ Crash PROVE SInv'
  OBVIOUS
<1> USE DEF SInv, TypeOK, Healthy, daemon, database
<1>1. CASE List
  <2>1. wanted' \in [Workflows -> Cadences \cup {NoCadence}]
    BY <1>1 DEF List
  <2>2. TypeOK'
    BY <1>1, <2>1 DEF List, Phases
  <2>3. TodoIsWanted'
    BY <1>1 DEF List, TodoIsWanted
  <2> QED
    BY <1>1, <2>2, <2>3, QuietStep DEF List
<1>2. CASE ListFails
  <2>1. TypeOK' /\ TodoIsWanted'
    BY <1>2, SchedulerAssumption DEF ListFails, Abort, Fault, TodoIsWanted, Phases
  <2>2. UNCHANGED <<registered, entries, job>> /\ phase = "list"
    BY <1>2 DEF ListFails
  <2>3. NothingRunsAfterReturn'
    BY <1>2, <2>2 DEF ListFails, Abort, NothingRunsAfterReturn
  <2> QED
    BY <2>1, <2>2, <2>3 DEF WaitsHaveRetries, EntriesAreRegistered
<1>3. CASE RemoveUnwanted
  <2>1. TypeOK' /\ TodoIsWanted'
    BY <1>3 DEF RemoveUnwanted, TodoIsWanted, Phases
  <2>2. EntriesAreRegistered'
    BY <1>3 DEF RemoveUnwanted, EntriesAreRegistered
  <2> QED
    BY <1>3, <2>1, <2>2 DEF RemoveUnwanted, WaitsHaveRetries, NothingRunsAfterReturn
<1>4. CASE Refresh \/ StopClock
  <2>1. TypeOK' /\ TodoIsWanted'
    BY <1>4 DEF Refresh, StopClock, TodoIsWanted, Phases
  <2> QED
    BY <1>4, <2>1, QuietStep DEF Refresh, StopClock
<1>5. CASE ReturnStopped \/ ReturnTimedOut
  <2>1. TypeOK' /\ TodoIsWanted'
    BY <1>5 DEF ReturnStopped, ReturnTimedOut, TodoIsWanted, Phases
  <2> QED
    BY <1>5, <2>1
    DEF ReturnStopped, ReturnTimedOut, WaitsHaveRetries, EntriesAreRegistered,
        NothingRunsAfterReturn, AllIdle
<1>6. CASE EndProcess /\ (Healthy \/ Fault)
  <2>1. TypeOK'
    <3>1. faults' \in 0..MaxFaults
      BY <1>6, SchedulerAssumption DEF Fault
    <3>2. job' \in [Callbacks -> Jobs]
      BY <1>6, IdleJobType DEF EndProcess
    <3> QED
      BY <1>6, <3>1, <3>2 DEF EndProcess, Nothing, Phases
  <2>2. WaitsHaveRetries'
    BY <1>6 DEF EndProcess, NoJobs, IdleJob, WaitsHaveRetries
  <2> QED
    BY <1>6, <2>1, <2>2
    DEF EndProcess, TodoIsWanted, EntriesAreRegistered, NothingRunsAfterReturn
<1> QED
  BY <1>1, <1>2, <1>3, <1>4, <1>5, <1>6, RegisterStep DEF Daemon, Reconcile, Exit, Crash

\* Every step preserves the invariant.
LEMMA SNext == SInv /\ [Next]_vars => SInv'
<1> SUFFICES ASSUME SInv, [Next]_vars PROVE SInv'
  OBVIOUS
<1>1. ASSUME NEW b \in Callbacks, Callback(b) \/ CheckFails(b) PROVE SInv'
  <2>1. TypeOK' /\ TodoIsWanted' /\ EntriesAreRegistered'
    BY <1>1, CallbackStep
    DEF SInv, TypeOK, TodoIsWanted, EntriesAreRegistered, daemon, database
  <2>2. NothingRunsAfterReturn'
    BY <1>1, CallbackStep DEF SInv, NothingRunsAfterReturn, AllIdle, daemon
  <2> QED
    BY <1>1, <2>1, <2>2, CallbackStep DEF SInv
<1>2. ASSUME NEW b \in Callbacks, NEW w \in Workflows, Fire(b, w) PROVE SInv'
  <2>1. TypeOK' /\ TodoIsWanted' /\ EntriesAreRegistered'
    BY <1>2, FireStep
    DEF SInv, TypeOK, TodoIsWanted, EntriesAreRegistered, daemon, database
  <2> QED
    BY <1>2, <2>1, FireStep DEF SInv, NothingRunsAfterReturn, daemon
<1>3. CASE Operator
  BY <1>3, OperatorStep
<1>4. CASE Daemon \/ ListFails \/ Crash
  BY <1>4, DaemonStep
<1>5. CASE UNCHANGED vars
  BY <1>5
  DEF vars, daemon, database, SInv, TypeOK, TodoIsWanted, WaitsHaveRetries,
      EntriesAreRegistered, NothingRunsAfterReturn, AllIdle
<1> QED
  BY <1>1, <1>2, <1>3, <1>4, <1>5 DEF Next, Trouble

\* The invariant of the daemon.
LEMMA SInvariance == Spec => []SInv
<1> QED
  BY SInit, SNext, PTL DEF Spec

\* Every variable keeps its type: no callback ever exceeds its retries.
THEOREM SchedulerTypes == Spec => []TypeOK
<1>1. SInv => TypeOK
  BY DEF SInv
<1> QED
  BY <1>1, SInvariance, PTL

\* The clock never holds an entry that reconcile does not know of: a workflow is never
\* polled by two entries, whatever errors AddFunc and the store return.
THEOREM NoStrayEntry == Spec => []EntriesAreRegistered
<1>1. SInv => EntriesAreRegistered
  BY DEF SInv
<1> QED
  BY <1>1, SInvariance, PTL

\* A graceful return of Start, after which the store is closed, finds every callback
\* ended.
THEOREM GracefulShutdown == Spec => []NothingRunsAfterReturn
<1>1. SInv => NothingRunsAfterReturn
  BY DEF SInv
<1> QED
  BY <1>1, SInvariance, PTL

\* Without bad cadences the map and the clock agree, and what a reconcile has looked at
\* is registered as it was listed.
RInv ==
  /\ \A w \in Workflows : registered[w] # NoCadence => <<w, registered[w]>> \in entries
  /\ phase = "register" =>
       \A w \in Workflows \ todo : wanted[w] # NoCadence => registered[w] = wanted[w]

\* A step that leaves the map, the clock and the reconcile alone keeps them in agreement.
LEMMA RFrame ==
  ASSUME RInv, UNCHANGED <<registered, entries>>,
         phase' # "register" \/ UNCHANGED <<phase, wanted, todo>>
  PROVE  RInv'
BY DEF RInv

\* The steps of a reconcile keep them in agreement.
LEMMA RReconcile ==
  ASSUME SInv, RInv, BadCadences = {}, Reconcile
  PROVE  RInv'
<1> USE DEF SInv, TypeOK
<1>1. CASE List
  <2>1. \A w \in Workflows \ todo' : wanted'[w] = NoCadence
    BY <1>1 DEF List
  <2> QED
    BY <1>1, <2>1 DEF List, RInv
<1>2. ASSUME NEW w \in Workflows, KeepEntry(w) PROVE RInv'
  BY <1>2 DEF KeepEntry, Registered, RInv
<1>3. ASSUME NEW w \in Workflows, AddEntry(w) PROVE RInv'
  <2>1. registered'[w] = wanted[w] /\ <<w, wanted[w]>> \in entries'
    BY <1>3 DEF AddEntry
  <2>2. \A v \in Workflows \ {w} : registered'[v] = registered[v]
    BY <1>3 DEF AddEntry
  <2>3. \A v \in Workflows \ {w}, c \in Cadences : <<v, c>> \in entries => <<v, c>> \in entries'
    BY <1>3 DEF AddEntry, EntriesWithout
  <2>4. \A v \in Workflows \ {w} : registered[v] # NoCadence => <<v, registered[v]>> \in entries'
    BY <2>3 DEF RInv
  <2>5. phase = "register" /\ wanted' = wanted /\ todo' = todo \ {w}
    BY <1>3 DEF AddEntry
  <2> QED
    BY <2>1, <2>2, <2>4, <2>5 DEF RInv
<1>4. ASSUME NEW w \in Workflows, RejectEntry(w) PROVE RInv'
  BY <1>4 DEF RejectEntry
<1>5. CASE RemoveUnwanted
  <2>1. \A w \in Workflows : registered'[w] # NoCadence =>
          registered'[w] = registered[w] /\ wanted[w] # NoCadence
    BY <1>5 DEF RemoveUnwanted
  <2>2. \A w \in Workflows : registered'[w] # NoCadence => <<w, registered'[w]>> \in entries'
    BY <1>5, <2>1 DEF RemoveUnwanted, RInv
  <2> QED
    BY <1>5, <2>2 DEF RemoveUnwanted, RInv
<1> QED
  BY <1>1, <1>2, <1>3, <1>4, <1>5 DEF Reconcile

\* Every step does.
LEMMA RNext == BadCadences = {} /\ SInv /\ RInv /\ [Next]_vars => RInv'
<1> SUFFICES ASSUME BadCadences = {}, SInv, RInv, [Next]_vars PROVE RInv'
  OBVIOUS
<1> USE DEF daemon, database
<1>1. ASSUME NEW b \in Callbacks, Callback(b) \/ CheckFails(b) PROVE RInv'
  BY <1>1, CallbackStep, RFrame
<1>2. ASSUME NEW b \in Callbacks, NEW w \in Workflows, Fire(b, w) PROVE RInv'
  BY <1>2, FireStep, RFrame
<1>3. CASE Operator
  BY <1>3, RFrame DEF Operator, Toggle, Define, SetKillSwitch, OpenRuntime, StartDaemon, Cancel
<1>4. CASE Reconcile
  BY <1>4, RReconcile
<1>5. CASE Refresh \/ StopClock \/ ReturnStopped \/ ReturnTimedOut \/ ListFails
  BY <1>5, RFrame DEF Refresh, StopClock, ReturnStopped, ReturnTimedOut, ListFails, Abort
<1>6. CASE EndProcess
  BY <1>6 DEF EndProcess, Nothing, RInv
<1>7. CASE UNCHANGED vars
  BY <1>7, RFrame DEF vars
<1> QED
  BY <1>1, <1>2, <1>3, <1>4, <1>5, <1>6, <1>7 DEF Next, Daemon, Trouble, Exit, Crash

\* The step that ends a reconcile leaves the clock with what was listed.
LEMMA ExactStep ==
  ASSUME BadCadences = {}, SInv, RInv, [Next]_vars,
         phase = "register", todo = {}, phase' = "select"
  PROVE  entries' = {entry \in Workflows \X Cadences : wanted[entry[1]] = entry[2]}
<1>1. RemoveUnwanted
  <2>1. ~ UNCHANGED phase
    OBVIOUS
  <2>2. \A b \in Callbacks : ~Callback(b) /\ ~CheckFails(b) /\ \A w \in Workflows : ~Fire(b, w)
    BY <2>1, CallbackStep, FireStep DEF daemon
  <2>3. ~Operator
    BY <2>1 DEF Operator, Toggle, Define, SetKillSwitch, OpenRuntime, StartDaemon, Cancel, daemon
  <2>4. ~List /\ ~Refresh /\ ~StopClock /\ ~ReturnStopped /\ ~ReturnTimedOut /\ ~ListFails
    BY DEF List, Refresh, StopClock, ReturnStopped, ReturnTimedOut, ListFails
  <2>5. ~EndProcess
    BY DEF EndProcess
  <2>6. \A w \in Workflows : ~KeepEntry(w) /\ ~AddEntry(w) /\ ~RejectEntry(w)
    BY DEF KeepEntry, AddEntry, RejectEntry, Current
  <2>7. ~UNCHANGED vars
    BY <2>1 DEF vars, daemon
  <2> QED
    BY <2>2, <2>3, <2>4, <2>5, <2>6, <2>7
    DEF Next, Daemon, Reconcile, Trouble, Exit, Crash
<1>2. entries' = {entry \in entries : wanted[entry[1]] # NoCadence}
  BY <1>1 DEF RemoveUnwanted
<1>3. \A w \in Workflows, c \in Cadences :
        <<w, c>> \in entries /\ wanted[w] # NoCadence <=> wanted[w] = c
  BY SchedulerAssumption DEF SInv, TypeOK, EntriesAreRegistered, RInv
<1>4. entries \subseteq Workflows \X Cadences
  BY DEF SInv, TypeOK
<1> QED
  BY <1>2, <1>3, <1>4

\* When every cadence parses, each reconcile leaves the clock with exactly the
\* definitions it listed, whatever changed before, between and meanwhile.
THEOREM ReconcileExact == BadCadences = {} => (Spec => ReconcileIsExact)
<1> SUFFICES ASSUME BadCadences = {} PROVE Spec => ReconcileIsExact
  OBVIOUS
<1>1. Init => RInv
  BY DEF Init, RInv, Nothing
<1>2. SInv /\ RInv /\ [Next]_vars => RInv'
  BY RNext
<1>3. SInv /\ RInv /\ [Next]_vars =>
        [phase = "register" /\ todo = {} /\ phase' = "select" =>
           entries' = {entry \in Workflows \X Cadences : wanted[entry[1]] = entry[2]}]_<<phase, entries>>
  BY ExactStep
<1> QED
  BY <1>1, <1>2, <1>3, SInvariance, PTL DEF Spec, ReconcileIsExact
=============================================================================

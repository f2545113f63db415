# Verification of marketing-os

TLA+ modules that model the stateful parts of marketing-os, TLC configurations
that check them on small instances, and theorems that TLAPS proves for every
value of the constants. Sources are named relative to `src/`.

The program turns a published GitHub release of a product into an issue that
asks for the approval of marketing drafts. Its state is a SQLite database, one
directory of files per product, and the issues on GitHub. Several processes
may work on the same database at once: the daemon of `scheduler start`, and any
number of commands.

## 1. Inventory

| Part | State | Operations | What is hard |
|---|---|---|---|
| workflow store (`internal/state/workflow.go`, `approval.go`, `terminal_run.go`) | definitions, runs, claims (leases with fences), dedupe keys, approvals, assets, cursors, errors, audit events | claim, three finalizers, two failures, persist an intent, record a run that never claimed, enable/disable | eviction of a run whose lease has ended while its worker still runs; `allow_overlap`; four tables that must agree |
| release workflow (`internal/workflows/release.go`) | none of its own: a goroutine's locals | preflight, claim, generate, persist the intent, mirror it, search or create the issue, finalize, clean up | crashes between any two steps, lost replies, an ending context, recovery by a later attempt, releases that are edited |
| GitHub client (`internal/github/client.go`) | none | reads with retries, search for a marker by pages, create an issue | a list that changes while it is read; a POST whose outcome is unknown |
| model client, generation (`internal/llm`, `internal/skillruntime`) | cost and usage of one generation | request with retries, repair of invalid output, cost limits | nested retries; what a limit is compared with |
| scheduler (`internal/scheduler`, `internal/state/scheduler.go`) | cron entries, the map of registrations, callbacks, the kill switch (a row) | reconcile, fire, retry, shut down | rows that change during a reconcile, callbacks at shutdown, the switch between two attempts |
| product contexts (`internal/productcontext`, `internal/state/store.go`) | versions of a context, draft files, the approved mirror, its changelog | `product add`, `context draft`, `context approve` | a transaction followed by files; two approvals or two drafts at once |
| evidence store (`internal/state/evidence.go`) | immutable evidence rows | save, read | a lookup and an insert without a transaction; ids shared by the products of a repository |
| workspace (`internal/products`) | files | atomic replacement, append | crash between two files |
| skill snapshots (`internal/skills`, `internal/state/skills.go`) | immutable records of the vendored skills | read the lock, capture the tree, verify, load, record | lock and tree change while they are read; records written by several processes |
| database opening, migrations (`internal/state/store.go`) | `schema_migrations` and the schema itself | open, look a migration up, apply it, record it | processes that migrate at once, some of an older release; an end between two statements |
| configuration, CLI output, issue rendering | none | parse, print | nothing that state exploration would help with |

How they interact: the scheduler's callbacks and `workflow run` call the release
workflow, which goes through the store for every decision, through the workspace
for mirrors and through the two clients for everything remote. The store is
the only thing two processes share, with the vendored skills and their lock;
each of its methods is one SQLite transaction unless said otherwise below.
A release run first reads product, context, skills and release, then claims, then
captures evidence, and only then asks the model; the row of the run says what the
model was given. The kill switch is a row that is read before every scheduled attempt.

What makes each part correct:

* store: at most one holder of a product/workflow's claim; only the holder
  decides about its event; an event is completed by exactly one run; what was
  interrupted can be claimed again; ended runs never change.
* release workflow: one issue per event, whatever fails; the intent exists before
  the issue; drafts are generated once per event; the release that stays the latest
  is completed or, if it was edited, refused; a claimed run ends unless no poll gets as
  far as evicting it.
* clients: a search that says "absent" is right; the creation is asked for once;
  retries and repairs bound what an attempt can be charged.
* scheduler: the clock has exactly the enabled definitions; the switch quiets it;
  a graceful shutdown leaves nobody at work.
* contexts: one canonical version, never none once there was one; files have
  approved content only and can be repaired by repeating a command.
* skills and evidence: what is loaded is what one lock describes, and a completed
  run tells what its model was given, though every input may change meanwhile.
* opening: the schema is always that of some release, and a lost race or a crash
  costs a process at most a retry.

## 2. Modules

| Module | Models | Composition |
|---|---|---|
| `EventLedger` | abstract specification: who may decide about an event, and that it is decided once | |
| `WorkflowStore` | all tables of `migrations/003_workflows.sql` and every method that writes them | implements `EventLedger` (`ImplementsLedger`) |
| `ReleaseWorkflow` | `ReleaseWorkflow.Run` by several workers, GitHub and the operator | extends `WorkflowStore`: its steps are the store's actions |
| `RemoteCalls` | the calls of one attempt: `GenerateRelease` over `OpenAICompatible.Generate`, then `createOrRecoverIssue` over the GitHub client | refines two steps of `ReleaseWorkflow` in detail |
| `Scheduler` | `Scheduler.Start`, `RunOnce`, `executeWithRetry`, kill switch, daemon's life | a run of the release workflow is one step that ends well or not |
| `ProductContext` | `product add`, `context draft`, `context approve`, with tables and files | |
| `SkillSnapshots` | `RequirePinned`, loading from the snapshot, `SyncSkillSnapshot`, and the maintainer who replaces tree and lock | |
| `ReleaseProvenance` | the preparation in `ReleaseWorkflow.Run`, `SaveEvidence`, the prompt and the metadata of the run | extends `SkillSnapshots`: a run's worker is also a worker there |
| `StoreOpening` | `state.Open` and `Migrate`, statement by statement | |
| `MC*` | what TLC instantiates; symmetry sets where they are sound | extend the module they instantiate |
| `MCReleaseLiveness` | the instance of `ReleaseWorkflow` for liveness, in two scenes | extends `ReleaseWorkflow` |
| `WorkflowStoreProofs`, `WorkflowLedgerProofs`, `ReleaseWorkflowProofs`, `RemoteCallsProofs`, `SchedulerProofs`, `ProductContextProofs`, `ReleaseProvenanceProofs`, `StoreOpeningProofs` | theorems | extend the module they are about, `ReleaseWorkflowProofs` the theorems of the store as well; the theorems of `SkillSnapshots` are in `ReleaseProvenanceProofs` |

Definitions marked `Faulty:` are not part of any specification. Each is a
plausible mistake in the definition that follows it, and replacing the
definition by it violates the property that guards against the mistake;
`PROJECT.json` pairs them.

### WorkflowStore

A row is a record; a row that does not exist has the status or state `absent`.
An *event* is a pair of scope (product and workflow) and dedupe key. One action
is one method, from the first statement to the commit; a rollback is a guard that
fails. `ClaimWorkflow` follows the method's order: input hash of the dedupe row
(`InputChanged`), completed key (`ClaimDuplicate`), event in flight
(`EventInFlight`), lease still live (`LeaseActive`), then eviction of the expired
claim's run (`Evicted`), attempt number, run, in-flight row and claim.
`ClaimHeld` is `verifyClaim` and the `WHERE status='running' AND
fencing_token=?` of the finalizers. A claim value is determined by its run, so
finalizers take the run. `now` is the clock in units of which `Leases` are
multiples; `Tick` advances it. `allow_overlap` is a column that
`UpsertWorkflow` writes; `Overlaps` says which values it takes. The tables
`assets` and `approvals` keep the two unique constraints that can refuse an
insert (`AssetsFree`, `IssueFree`).

### ReleaseWorkflow

A worker is a goroutine in `Run`; `pc` names its next call. Its context ends when
`now` reaches the deadline it set at `Begin`, or when it is interrupted. Each
step is one call: a read, one store transaction, or one request. The POST that creates an
issue is three: sent (`PostIssue`), applied by GitHub (`AcceptIssue`), and
answered (`ReceiveIssue`) or not (`LoseReply`); `LateIssue` applies it after the
client has gone, if `LateAccept`. `FindIssue` is one step here: `RemoteCalls`
shows why that is sound. Everything that goes wrong (`Crash`, `CallFails`,
`LoseReply`, `Expire`...) is counted in `faults`, up to `MaxFaults`.

### RemoteCalls

One attempt, and the others at work in the approval repository. `listing` is the
repository's list of issues and pull requests, newest first, which is how GitHub
answers the request that the client makes; `ReadPage` evaluates one page at one moment.
`Retry` is the loop of both clients. Costs are small
numbers; `Estimates` are those of `Generate`'s check before it sends, and `Charges`
what the provider may charge for a request, which is also the cost computed from the usage
in a reply. `cost` is the sum the program keeps, over the replies it accepted. `charged` has
what it cannot know as well: a request that ended in a transport error, a timeout or a
server error and is retried, one whose answer is refused, and one that is abandoned when the context
ends may each have been charged or not. Deletions are allowed and remembered
in `shrunk`: they are the one way a page-by-page search can miss an issue.

### Scheduler

`phase` is where `Start` is: `list` and `register` are `reconcile`, one
definition at a time, so that rows change in between; `select` is the loop.
`registered` is the map, `entries` the clock of the cron library. A callback is a
goroutine of that library with its own `pc` and `attempt`. Time is
abstract: any timer may fire once set. `BadCadences` are expressions that
`UpsertWorkflow` stores (its validation asks for a non-blank one) and cron refuses.

### ProductContext

A command is a process with a `pc`; one step is one transaction or one
replaced file. `SaveEvidence` is two steps, as in the code. A text or a piece of
evidence is a model value, since identifiers are hashes of contents.
`approvedFile` is the version whose text `product-marketing.md` has. `Fail` ends a
command anywhere: an error, an interrupt, a crash.

### SkillSnapshots

`tree` and `lockFile` are the vendored directory and `skills.lock.yaml`, which the
maintainer edits one file at a time and as a whole. A worker's `pin` has
the locals of `RequirePinned`: the lock it read, the entries it has captured
(one per step, in any order), and the bundle it loaded. A manifest is a hash of a
tree and stands for it; a snapshot id is a commit and a tree. An entry replaced
while it is read, a limit that is exceeded and a front matter that does
not parse are errors, which end the worker (`Release`).

### ReleaseProvenance

`task` has the locals of `Run` up to the record of the run. Each read, each
statement of `SaveEvidence` and the claim are steps of their own; `Complete` is
the prompt, the answer and the completion, all of which work from locals. An
evidence row is its id, product and content; the id is the kind and the
repository, as `transientReleaseEvidence` builds it (one release per repository). The claim
is the abstract one of `EventLedger`, with the input hash: the leases are in
`WorkflowStore`. A record keeps the prompt beside what the row says of it, so that
`RecordTellsThePrompt` can compare them.

### StoreOpening

Migrations are numbered by the order of their names; `Known` is how many a
process's binary embeds. `schema` counts how often a migration took effect, and
what a transaction has done is visible at `Commit` only. `Plain` are those
whose `CREATE TABLE` fails where the table exists, as in
`004_skill_snapshots.sql`; the others may be repeated without an error and without notice.

## 3. Runs

Bounds are constants in the `.cfg` files. Runs of a store are drawn from a finite
set of uuids, so the set also bounds the number of attempts.

| Run | Instance | Shows |
|---|---|---|
| `store` | one scope, two events, three runs, `allow_overlap` written either way | the tables agree, leases are exclusive where overlap is off, attempts in order, an audit trail that tells each run's life, ended runs final, the store implements `EventLedger` |
| `release_safety` | two workers, three runs, one event whose release has two contents, two faults, two time units, late POSTs | drafts generated once, recovery keeps the first attempt's metadata, issues are backed by intents, a live worker and a running run hold their claim |
| `release_liveness` | two scenes of four runs, no late POSTs: two workers, one release, any one fault and then a crash; one worker after the other, two releases, one edit, one crash | the release that stays latest settles, claimed runs end but for the exception named there, one issue per event |
| `scheduler_reconcile` | two definitions, one failure or crash, cadences cron accepts | each reconcile exact; what stays enabled or disabled comes to be scheduled or not |
| `scheduler_shutdown` | one definition, a refused cadence, two callbacks with a retry, one fault, switch in the configuration | shutdown ends and is clean; the switch quiets; retries are bounded |
| `context_history` | one product, two versions, two texts, two commands at once, one fault | the properties of contexts and their files |
| `remote_calls` | pages of two, three pages, seven issues, two retries of a read and one of the model, one repair | searches by pages, single creation, bounded charges, bounded counters |
| `provenance_records` | two workers, two products of one repository, two files, four locks, two texts and changelogs, one edit, one fault | skills are what one lock describes; a completed run tells what its model was given |
| `store_opening` | two processes of this release and one of an earlier one, three migrations of which the last is plain, two faults | no migration twice, half or unrecorded; opened stores are complete; everybody gets a store |
| `release_late_post`, `release_edited`, `shared_repository` | see section 6 | disagreements between documents and code |

Why the bounds are enough. The claim's hazards need a holder, one that
replaces it and one that was evicted before: three runs; two workers, because a third
behaves like one of the two at any moment. Two faults are needed for a
recovery that is itself interrupted. For liveness, in addition,
the set of runs must not run out: an attempt is used
up by each fault, each lease that ends and each settled event, so
`Runs` is at least `MaxFaults + MaxTime + 1`. In `release_liveness` the two scenes keep
this small: what happens between workers, a recovery interrupted by a crash included, needs two of
them but only one release that nobody edits; what happens between releases (an event that is not polled any more, a manual run
of the older one, an edit before or after a claim, a crash with either) needs two releases and an edit
but only one worker at a time. Its runs, releases, contents and texts are numbers used in their order, since
symmetry is not sound for liveness; no draft reads like another's (`TextsDiffer`).
Without the exceptions that the two properties name, both are violated on this instance. `Issues` has as many ids as attempts can
POST. `MaxTime` 2 lets a lease of length 1 end while its worker lives, twice. In
`ProductContext` the bound `VersionLeft` keeps a draft from starting when no
version number is left, so a lack of numbers never looks like a refusal. In
`RemoteCalls` a list of seven exceeds what three pages of two can read, so a search meets
a short last page, a full last page and the limit. In `provenance_records` tree and
lock start in any state of an update, so that one edit (of a file, the lock, the
context, the release or its tag) is one between any two steps of a run after
an arbitrary history; with two edits (3.6 million states) the same properties
held. Of its four locks two name the trees, one a tree under another origin and one
a version its tree does not have. In `store_opening` two equal processes race
for the last migration while the third, which knows one migration only, opens and
closes the database between them.

## 4. Fairness

Liveness is checked with TLC only, under these assumptions.

* Goroutines and processes that can take a step do (weak fairness of `Work`,
  `Callback`, `Daemon`, `Step`): the Go scheduler and the operating system.
* Cron polls again and again, and time passes: `release_liveness` assumes strong
  fairness of a poll by some worker, since a poll is possible only while a worker is idle
  and manual runs may come between. Nothing is assumed of who polls.
* `Scheduler` assumes strong fairness of `StopClock`: its `select` picks at random among ready
  cases, so a context that has ended is noticed though the ticker keeps firing.
* `ReleaseProvenance` assumes strong fairness of `Begin` for each product, since cron
  comes back to every product and may find its worker busy.
* `StoreOpening` assumes that a process that failed is started again. Waiting for
  another writer may end in `TimeOut`, but not for ever: the writer takes its steps.
* Nothing is assumed of operators, of GitHub or of faults. Faults are bounded in
  number, so "eventually" means after the last one.

Two assumptions about GitHub are part of the models: a search sees every issue
that was applied before its page is read, and issues are listed newest first.

## 5. Proofs

All proofs are checked by TLAPS without assumptions other than the named ones on
constants (`ConstantsAssumption`, `NullsAssumption`, `WorkflowAssumption`,
`RemoteCallsAssumption`, `SchedulerAssumption`, `ProductContextAssumption`,
`SkillsAssumption`, `ProvenanceAssumption`, `OpeningAssumption`), which say that bounds
are naturals, that functions and sets among the constants have their types, and that each
`No...` value is not in the set it completes. Every safety property and every action
property that a passing run checks is the subject of a theorem.

**Store** (`WorkflowStoreProofs`). The safety properties are not inductive: that
a finalizer never fails half way depends on the dedupe row of the claim's run,
which depends on how claims replace each other. `IInv` is the conjunction of
`TypeOK`, the properties themselves and `RowsAgree`, which says that each dedupe row
names a run of its event and that a running or successful run has one.
`TablesAgree` proves `Spec => []IInv` by one lemma per operation; the
corollaries are `HolderOwnsItsEvent`, `EventCompletedOnce`, `StagingIsAtomic`,
`AbandonedEventsReopen`. `WorkflowLedgerProofs` uses the invariant for action
properties: `EndedRunsStayEnded`; `StoreImplementsLedger`, by showing that
each operation is a step of `EventLedger` or a stutter under the refinement mapping;
`LeasesAreExclusive` (a live lease is taken only where the definition in force allows
overlap, and a claim that replaces another has a higher fence); and, for an `allow_overlap`
that is never on, `ExclusiveRuns` (every running run holds its claim).

Two properties of the same tables speak of the past and need invariants of their own.
`AttemptsStayInOrder`: the numbers of an event's runs are exactly those from 1 to their
count, all read the input of the dedupe row, and a run that is not the last one was not
successful (`AttemptsNumbered`); it is a statement about `COUNT(*) + 1`, so its lemmas are
about the cardinality of the runs of an event before and after a claim.
`TrailsTellTheRun`: what the trail says of a run depends on whether an asset or an approval
still names it, which other runs' operations change. `TrailsAgree` gives each run
a witness (was an intent noted?) from which trail and error rows are determined, and
ties assets and approvals to it.

**Release workflow** (`ReleaseWorkflowProofs`). Between two steps of a worker the others
may evict it, recover its event and finish it, so each property rests on what a worker
may still rely on when it acts. `WInv` says it for every worker: its run is one of its
event (`Working`); as long as its context lives its claim is in force and lasts as long
(`Holding`); a live worker that generates has no stored intent, one that stages has its
intent, its files and its issue (`Informed`); a live worker posts only what no issue is marked
with (`Searching`). Two workers never share a run (`Apart`), and tables, files and issues
agree on their own (`IntentsBacked`, `IssuesBacked`, `IssuesSingle`). The proof is
compositional. Each operation of the store is shown to leave the live claims of other runs
alone and to undo nothing (`OthersKept`, `HistoryKept`: the lemmas `Store...`); any worker
that takes no part in such a step finds everything as before (`Bystander`); so each
step of `Run` owes only what it does to its own worker (the lemmas `...Keeps`).
That two live workers are never in one scope (`AloneInScope`) is what keeps a second issue
away. `LiveWorkersHoldClaims`, `IssuesBackApprovals`, `RecoveriesKeepMetadata` and the
action property `StoredDraftsStay` hold for every value of the constants, late POSTs included;
`EventGetsOneIssue` assumes `LateAccept = FALSE`, without which it is false (section 6).
`TablesStep` shows that every step of `Run` is an operation of the store, with arguments from the
store's sets, or leaves the tables alone: therefore `WorkflowImplementsLedger`, and
`RunningRunsHoldClaims` without the restriction on `Overlaps` that `ExclusiveRuns` needs, as
nothing in `Run` writes that column.

**Calls of an attempt** (`RemoteCallsProofs`). None of the three properties is inductive.
The search reads a list that shifts while it is read, so `SearchIsAhead` says where an
issue can still be: on a page that was not read. `NoneYet` says that before the
creation only an earlier attempt's request can be behind an issue. `SpentSoFar` says what
an attempt can have been charged by the counters it has reached: a full round for each
repair and one request for each retry, of which the reported cost lacks at most the requests
that were retried; `Rounds` has the arithmetic. `SearchesAreSound`,
`OneIssuePerAttempt`, `SpendingIsBounded` and `CallTypes` follow for any page size, number
of pages, retries and prices. A position on a page is a product of two
variables, for which the lemma `PageFacts` isolates the little arithmetic that is needed.

**Scheduler** (`SchedulerProofs`). `NoStrayEntry` (each entry is its workflow's
registration) is inductive with types. `GracefulShutdown` needs more: no callback
can be fired in phases after the clock stops, and a `nil` outcome exists only where all
were idle. `ReconcileExact` needs an invariant of the loop: what was
looked at is registered as wanted and has its entry; it assumes that cron
parses every cadence, without which it is false.

**Contexts** (`ProductContextProofs`). That the mirror holds approved content only is
not inductive: it depends on what a command that is about to write knows of the
tables, while other commands change them. `CInv` adds `JobsHaveTheirRows` (the
version whose files a command writes was approved, the row it drafted has its text)
and `DraftFileHasRow`. The lemmas split a step in two: what it does to the
rows (`HistoryStep`, which `DraftRows` and `ApproveRows` prove of the only two
transactions that change them), and what the other commands and the files still
have after rows that only went forward (`OthersKeepTheirRows`,
`FilesKeepTheirRows`). `CanonicalContextIsUnique`, `MirrorHoldsApproved`,
`DraftFilesMatchRows` and `HistoryIsFinal` follow, for any number of products,
versions and commands. It was checked with TLC that `CInv` holds on the instance of
`context_history` before it was proved.

**Skills** (`ReleaseProvenanceProofs`, first part). `SkillsAreLocked` is proved by `SkillsInv`, which adds to
the types and the property that a worker which has passed the verification works
from its own copy and, once it is ready, from a recorded snapshot. The lemmas
have one step per action and hold for the state functions alone, so that
the second part uses them for the steps it shares.

**Provenance** (`ReleaseProvenanceProofs`, second part). What a record says depends on rows that other
workers write while a run is at work. `ProvenanceInv` therefore has, besides `SkillsInv`, types
and the two properties, what each step of a run relies on: the claim and the input
are still its own, what it captured is in the table, and the release was captured first
(`TasksKeepTheirRows`); an id has one row (`EvidenceIsUnique`); a record's
rows are in the table (`RecordsKeepTheirRows`). `RecordsTellTheirPrompts`,
`EvidenceIsTheClaimedInput` and `PromptsAreLocked` follow for any number of products that
share repositories in any way, workers, edits and faults.

**Opening** (`StoreOpeningProofs`). `OpeningInv` adds `MigrationsInOrder`: what a process
has found or applied before the one it is at is recorded, and one that is about
to commit has found its own unrecorded inside the transaction, which is what makes the earlier
lookup harmless. `SchemaOfARelease` and `OpenStoresAreMigrated` follow for any
number of processes, releases and migrations.

Each of these invariants was checked with TLC on the instance of its run before it was proved.

**Only model-checked**: every liveness property (`LatestReleaseSettles`, `ClaimedRunEnds`,
`ClockFollowsDefinitions`, `KillSwitchQuiets`, `ShutdownEnds`, `RerunRestoresMirror`,
`StoreOpens`), since the prover does neither fairness nor `ENABLED`, and the three
disagreements of section 6, which are counterexamples. No module uses recursion, so nothing is
left to induction over data.

## 6. Where documents and code disagree

1. `release_late_post`. `docs/architecture.md` 122 says the intent and the
   search avoid duplicate issues. A POST that GitHub applies after the client gave up
   and after the next attempt's search gives an event two issues.
2. `release_edited`. `docs/database.md` 58 says a completed key is a duplicate;
   the input hash is compared first, so a completed release that was edited is
   refused as a conflict, at each poll.
3. `shared_repository`. `docs/database.md` 34 says evidence has a product-scoped
   id, and the CLI lets several products name one repository. The id of a release's
   evidence names the repository and the release only, and `SaveEvidence` refuses an id whose row belongs to
   another product: the product that comes second is refused at every attempt.
   With a repository per product the property holds.

Met while modelling, without a run: polls read the latest release only and nothing
scans approvals left in `creating`, so an intent that was interrupted stays there once a
newer release is out (`docs/architecture.md` 122 says the intent avoids lost actions); a run
that crashed stays `running`, and holds its claim, as long as every poll is answered before the
eviction: when the latest release is completed and the run was a manual one of an older
release, or when the latest release was edited since its first claim
(`internal/state/workflow.go` 186 and 189 come before 214); a release edited before it was
completed is refused at every later poll and never gets its issue; `max_cost_per_run_usd`
(`docs/configuration.md` 88 calls it a ceiling of the adapter) is applied per request, and
the definition's own limit to a sum that lacks the requests whose reply was lost; a
search ends in an error after a tenth full page, so nothing is ever created in a repository
with a thousand issues and pull requests (`docs/architecture.md` 115); `current_version` in `skills`
keeps the versions of the last new snapshot when an earlier distribution is used again
(`docs/database.md` 37 calls the table current); a lock corrected under the same commit and
manifest is refused as a conflict at every run; a changelog at a moved tag, or of blanks only, fails every
later attempt of its release; a cadence cron refuses makes `reconcile` stop
after it removed the old entry and before the other definitions and the removals
(reachable only by a row that `product add` did not write); an interrupted
`product add` leaves a product whose definition no command creates; a refused
second `product add` has replaced `product.yaml` already; `docs/cli.md` 44 names
`.agents/product-marketing-context.md`, the code writes
`.agents/product-marketing.md`; `docs/architecture.md` 185 speaks of bounds on tokens per run,
the client applies them per request, and a run may make three.

## 7. Not modelled

Text (drafts, rendering, redaction, how a prompt is laid out), the rules of output validation,
configuration, flags and output; dry runs, which write nothing; symbolic links,
size limits and front matter of skills, whose refusals are one outcome;
metadata and URLs of evidence; read-only list commands. `ReleaseProvenance` has one release
per repository and does not recover a stored intent: recovery, leases and several
attempts at once are in `ReleaseWorkflow`, whose preparation is one step in
turn. Context drafts take their skills and evidence as choices in `ProductContext`.
`PROJECT.json` lists each part with its reason.

## 8. Plan

In order:

1. `ReleaseProvenance` with the claim of `WorkflowStore` in place of the abstract one, so
   that an evicted worker captures evidence while its successor does.
2. A scheduler whose run is the release workflow, so that the switch, the
   retries and the claim meet in one module.
3. An abstract specification of a search (one look at the list) that
   `RemoteCalls` implements; `SearchIsAhead` is the invariant its refinement needs.
4. The lemmas of `ReleaseWorkflowProofs` for a workflow whose definition allows overlap:
   which of the properties survive without `NoOverlap`.

New questions join the runs above where an instance serves both, so that one run
per component stays the rule.

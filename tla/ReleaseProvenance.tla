-------------------------- MODULE ReleaseProvenance --------------------------
(***************************************************************************)
(* What a release run is made from and what it says it was made from: the  *)
(* preparation in ReleaseWorkflow.Run (internal/workflows/release.go)      *)
(* before the model is called, Store.SaveEvidence (internal/state/         *)
(* evidence.go), BuildReleasePrompt (internal/skillruntime/prompt.go) and  *)
(* the metadata that the run stores.  A run reads the approved context,    *)
(* the pinned skills (SkillSnapshots), the release and its changelog, one  *)
(* after the other, while each of them may change.                         *)
(*                                                                         *)
(* The claim is that of EventLedger: one worker at a time for a product.   *)
(* Recovery of a stored intent is in ReleaseWorkflow.                      *)
(***************************************************************************)
EXTENDS SkillSnapshots

CONSTANTS
  Products,
  Repositories,
  RepositoryOf,  \* the repository of each product; products may share one
  Texts,         \* what the latest release of a repository may read as
  Changelogs,    \* what CHANGELOG.md may hold at its tag
  MaxContexts,   \* bound on the approved versions of a context
  MaxFaults,     \* bound on errors, interrupts and crashes
  NoProduct, NoText, NoChangelog, BlankChangelog, NoWorker, NoRecord

ASSUME ProvenanceAssumption ==
  /\ RepositoryOf \in [Products -> Repositories]
  /\ MaxContexts \in Nat \ {0}
  /\ MaxFaults \in Nat
  /\ NoProduct \notin Products
  /\ NoText \notin Texts
  /\ NoChangelog \notin Changelogs \cup {BlankChangelog}
  /\ BlankChangelog \notin Changelogs
  /\ NoWorker \notin Workers

VARIABLES
  approved,   \* the version of each product's approved context; 0 is none
  release,    \* the latest release of each repository
  changelog,  \* CHANGELOG.md at its tag
  evidence,   \* the rows of evidence
  holder,     \* workflow_claims: the worker at work for each product
  inputs,     \* the input hash in the release's dedupe row of each product
  records,    \* the completed run of each product's release
  task,       \* the locals of Run
  faults      \* how much has gone wrong

world      == <<approved, release, changelog>>
tables     == <<evidence, holder, inputs, records>>
provenance == <<skillVars, world, tables, task, faults>>
-----------------------------------------------------------------------------
Kinds    == {"release", "changelog"}
Ids      == Kinds \X Repositories
Bodies   == Texts \cup Changelogs
Evidence == [id : Ids, product : Products, content : Bodies]

\* The prompt as the model sees it, and what the run's row says of it.
Prompts == [context : 1..MaxContexts, skills : Trees, evidence : SUBSET Evidence]
Records == [context : 1..MaxContexts, snapshot : SnapshotIds, evidence : SUBSET Ids, prompt : Prompts]

NoTask == [pc |-> "idle", product |-> NoProduct, context |-> 0, text |-> NoText,
           captured |-> {}, pending |-> {}]
Tasks  == [pc : {"idle", "pin", "read", "claim", "look_up", "insert", "capture", "generate"},
           product : Products \cup {NoProduct}, context : 0..MaxContexts,
           text : Texts \cup {NoText}, captured : SUBSET Evidence, pending : SUBSET Evidence]

ProvenanceInit ==
  /\ SkillsInit
  /\ approved  \in [Products -> 0..1]
  /\ release   \in [Repositories -> Texts]
  /\ changelog \in [Repositories -> Changelogs \cup {NoChangelog, BlankChangelog}]
  /\ evidence  = {}
  /\ holder    = [p \in Products |-> NoWorker]
  /\ inputs    = [p \in Products |-> NoText]
  /\ records   = [p \in Products |-> NoRecord]
  /\ task      = [w \in Workers |-> NoTask]
  /\ faults    = 0
-----------------------------------------------------------------------------
At(w, step)   == task[w].pc = step
Goto(w, step) == task' = [task EXCEPT ![w].pc = step]
Repository(w) == RepositoryOf[task[w].product]

\* Run returns: its locals are gone and its claim is released.
Leave(w) == task' = [task EXCEPT ![w] = NoTask] /\ Unpin(w)
Unclaim(w) ==
  holder' = [p \in Products |-> IF holder[p] = w THEN NoWorker ELSE holder[p]]

Prepares(w, p) ==
  /\ At(w, "idle")
  /\ task' = [task EXCEPT ![w] = [NoTask EXCEPT !.pc = "pin", !.product = p,
                                                !.context = approved[p]]]
  /\ StartPin(w)
  /\ UNCHANGED <<world, tables, faults>>

\* GetProduct, GetWorkflow and ApprovedContext, in reads of their own; without an
\* approved context the run is blocked.
Begin(w, p) ==
  IF approved[p] # 0 THEN Prepares(w, p) ELSE At(w, "idle") /\ UNCHANGED provenance

\* RequirePinned to SyncSkillSnapshot; where that fails the run is blocked.
Prepare(w) ==
  /\ At(w, "pin")
  /\ PinStep(w)
  /\ task' = CASE pin'[w].pc = "none"  -> [task EXCEPT ![w] = NoTask]
               [] pin'[w].pc = "ready" -> [task EXCEPT ![w].pc = "read"]
               [] OTHER                -> task
  /\ UNCHANGED <<world, tables, faults>>

\* Repository and LatestPublishedRelease.
ReadRelease(w) ==
  /\ At(w, "read")
  /\ task' = [task EXCEPT ![w].pc = "claim", ![w].text = release[Repository(w)]]
  /\ UNCHANGED <<skillVars, world, tables, faults>>

\* The next row to be saved; an id names a repository, not a product.
Pend(w, kind, body) ==
  task' = [task EXCEPT ![w].pc = "look_up", ![w].pending =
    {[id |-> <<kind, Repository(w)>>, product |-> task[w].product, content |-> body]}]

Claims(w) ==
  /\ holder' = [holder EXCEPT ![task[w].product] = w]
  /\ Pend(w, "release", task[w].text)
  /\ UNCHANGED pin

\* Faulty: an attempt works from the release as it reads now, under the first hash.
ClaimAnyInput(w) ==
  LET p == task[w].product IN
  /\ At(w, "claim")
  /\ IF holder[p] = NoWorker /\ records[p] = NoRecord
     THEN Claims(w) /\ inputs' = [inputs EXCEPT ![p] = IF @ = NoText THEN task[w].text ELSE @]
     ELSE Leave(w) /\ UNCHANGED <<holder, inputs>>
  /\ UNCHANGED <<tree, lockFile, snapshots, installed, edits, world, evidence, records, faults>>

\* ClaimWorkflow: not while another worker holds the claim, not twice, and not for
\* a release that reads differently than when it was first claimed.
ClaimRelease(w) ==
  LET p == task[w].product IN
  /\ At(w, "claim")
  /\ IF holder[p] = NoWorker /\ records[p] = NoRecord /\ inputs[p] \in {NoText, task[w].text}
     THEN Claims(w) /\ inputs' = [inputs EXCEPT ![p] = task[w].text]
     ELSE Leave(w) /\ UNCHANGED <<holder, inputs>>
  /\ UNCHANGED <<tree, lockFile, snapshots, installed, edits, world, evidence, records, faults>>
-----------------------------------------------------------------------------
(* captureReleaseEvidence: SaveEvidence for the release, then for the      *)
(* changelog if there is one.                                              *)

Abort(w) == Leave(w) /\ Unclaim(w)

\* A saved row is part of the result; the changelog is read after the release.
Captured(w, row) ==
  task' = [task EXCEPT ![w].captured = @ \cup {row}, ![w].pending = {},
                       ![w].pc = IF row.id[1] = "release" THEN "capture" ELSE "generate"]

\* evidenceByID: the row is there and equal, or is another one, or is not there.
LookUpEvidence(w) ==
  /\ At(w, "look_up")
  /\ \E row \in task[w].pending :
       LET same == {e \in evidence : e.id = row.id} IN
       CASE same = {}    -> Goto(w, "insert") /\ UNCHANGED <<pin, holder>>
         [] same = {row} -> Captured(w, row) /\ UNCHANGED <<pin, holder>>
         [] OTHER        -> Abort(w)
  /\ UNCHANGED <<tree, lockFile, snapshots, installed, edits, world, evidence, inputs, records, faults>>

\* The primary key refuses the row when another worker was faster.
InsertEvidence(w) ==
  /\ At(w, "insert")
  /\ \E row \in task[w].pending :
       IF \E e \in evidence : e.id = row.id
       THEN Abort(w) /\ UNCHANGED evidence
       ELSE Captured(w, row) /\ evidence' = evidence \cup {row} /\ UNCHANGED <<pin, holder>>
  /\ UNCHANGED <<tree, lockFile, snapshots, installed, edits, world, inputs, records, faults>>

\* ReadFile CHANGELOG.md: an error leaves the changelog out; one of nothing but
\* blanks is no content for SaveEvidence.
ReadChangelog(w, found) ==
  LET body == changelog[Repository(w)] IN
  /\ At(w, "capture")
  /\ CASE ~found \/ body = NoChangelog -> Goto(w, "generate") /\ UNCHANGED <<pin, holder>>
       [] found /\ body = BlankChangelog -> Abort(w)
       [] found /\ body \in Changelogs  -> Pend(w, "changelog", body) /\ UNCHANGED <<pin, holder>>
  /\ UNCHANGED <<tree, lockFile, snapshots, installed, edits, world, evidence, inputs, records, faults>>
-----------------------------------------------------------------------------
Prompt(w) ==
  [context |-> task[w].context, skills |-> pin[w].bundle, evidence |-> task[w].captured]

\* Faulty: reads the approved context and the lock again for the record.
MetadataReread(w) ==
  [context |-> approved[task[w].product], snapshot |-> <<lockFile.commit, lockFile.manifest>>,
   evidence |-> {e.id : e \in task[w].captured}, prompt |-> Prompt(w)]

\* RunMetadata.
RunMetadata(w) ==
  [context |-> task[w].context, snapshot |-> <<pin[w].lock.commit, pin[w].copy>>,
   evidence |-> {e.id : e \in task[w].captured}, prompt |-> Prompt(w)]

\* BuildReleasePrompt, which refuses a row of another product, the model's answer
\* and the completion of the run, whatever was decided: all of it from locals.
Complete(w) ==
  LET p == task[w].product IN
  /\ At(w, "generate")
  /\ records' = IF \A e \in task[w].captured : e.product = p
                THEN [records EXCEPT ![p] = RunMetadata(w)] ELSE records
  /\ Abort(w)
  /\ UNCHANGED <<tree, lockFile, snapshots, installed, edits, world, evidence, inputs, faults>>

\* An error (an entry of the tree replaced while it was read, a request that fails), an
\* interrupt, or a crash whose lease runs out.
Fail(w) ==
  /\ ~At(w, "idle")
  /\ faults < MaxFaults
  /\ faults' = faults + 1
  /\ Abort(w)
  /\ UNCHANGED <<tree, lockFile, snapshots, installed, edits, world, evidence, inputs, records>>
-----------------------------------------------------------------------------
(* What changes meanwhile: context approve, an edited release, a moved     *)
(* tag, and the maintainer of the skills.                                  *)

ApproveContext(p) ==
  /\ approved[p] < MaxContexts
  /\ approved' = [approved EXCEPT ![p] = @ + 1]
  /\ Edit
  /\ UNCHANGED <<tree, lockFile, snapshots, installed, pin, release, changelog, tables, task, faults>>

EditRelease(r, text) ==
  /\ release[r] # text
  /\ release' = [release EXCEPT ![r] = text]
  /\ Edit
  /\ UNCHANGED <<tree, lockFile, snapshots, installed, pin, approved, changelog, tables, task, faults>>

MoveTag(r, body) ==
  /\ changelog[r] # body
  /\ changelog' = [changelog EXCEPT ![r] = body]
  /\ Edit
  /\ UNCHANGED <<tree, lockFile, snapshots, installed, pin, approved, release, tables, task, faults>>
-----------------------------------------------------------------------------
Work(w) ==
  \/ Prepare(w) \/ ReadRelease(w) \/ ClaimRelease(w)
  \/ LookUpEvidence(w) \/ InsertEvidence(w)
  \/ \E found \in BOOLEAN : ReadChangelog(w, found)
  \/ Complete(w)

World ==
  \/ Maintain /\ UNCHANGED <<world, tables, task, faults>>
  \/ \E p \in Products : ApproveContext(p)
  \/ \E r \in Repositories, text \in Texts : EditRelease(r, text)
  \/ \E r \in Repositories, body \in Changelogs : MoveTag(r, body)

ProvenanceNext ==
  \/ \E w \in Workers : Work(w) \/ Fail(w) \/ \E p \in Products : Begin(w, p)
  \/ World

ProvenanceSpec == ProvenanceInit /\ [][ProvenanceNext]_provenance

\* Goroutines are scheduled, and cron comes back to every product.
ProvenanceFairness ==
  /\ \A w \in Workers : WF_provenance(Work(w))
  /\ \A p \in Products : SF_provenance(\E w \in Workers : Begin(w, p))

FairProvenanceSpec == ProvenanceSpec /\ ProvenanceFairness
-----------------------------------------------------------------------------
ProvenanceTypeOK ==
  /\ SkillsTypeOK
  /\ approved  \in [Products -> 0..MaxContexts]
  /\ release   \in [Repositories -> Texts]
  /\ changelog \in [Repositories -> Changelogs \cup {NoChangelog, BlankChangelog}]
  /\ evidence  \subseteq Evidence
  /\ holder    \in [Products -> Workers \cup {NoWorker}]
  /\ inputs    \in [Products -> Texts \cup {NoText}]
  /\ records   \in [Products -> Records \cup {NoRecord}]
  /\ task      \in [Workers -> Tasks]
  /\ faults    \in 0..MaxFaults

\* The row of a completed run tells what its model was given: the version of the
\* context, a recorded snapshot with the very skills of the prompt, and evidence rows
\* of the same product that still hold what the prompt quoted, whatever was approved,
\* edited, replaced or retried meanwhile (docs/architecture.md 6, release.go 197-221).
RecordTellsThePrompt ==
  \A p \in Products : records[p] # NoRecord =>
    LET r == records[p] IN
    /\ r.context = r.prompt.context
    /\ \E s \in snapshots : s.id = r.snapshot /\ s.id[2] = r.prompt.skills
    /\ {e \in evidence : e.id \in r.evidence} = r.prompt.evidence
    /\ \A e \in r.prompt.evidence : e.product = p

\* The evidence that a run was completed with is the release its product was first
\* claimed for, though every attempt reads the release anew before its claim.
EvidenceIsTheInput ==
  \A p \in Products : records[p] # NoRecord =>
    \E e \in records[p].prompt.evidence : e.id[1] = "release" /\ e.content = inputs[p]

\* What the steps of a run rely on: its claim and its input stay as they are, what it
\* captured is in the table, and the release was captured first.
ReleaseCaptured(w) ==
  \E e \in task[w].captured : e.id[1] = "release" /\ e.content = task[w].text

KeepsItsRows(w) ==
  LET t == task[w] IN
  /\ t.pc # "idle" => t.product \in Products /\ t.context \in 1..MaxContexts
  /\ t.pc \notin {"idle", "pin"} => pin[w].pc = "ready"
  /\ t.captured \subseteq evidence
  /\ t.pc \notin {"idle", "pin", "read"} => t.text \in Texts
  /\ t.pc \in {"look_up", "insert", "capture", "generate"} =>
       holder[t.product] = w /\ inputs[t.product] = t.text
  /\ t.pc \notin {"look_up", "insert"} => t.pending = {}
  /\ \A row \in t.pending :
       /\ row.product = t.product
       /\ row.id[1] = "release" => row.content = t.text
       /\ row.id[1] # "release" => ReleaseCaptured(w)
  /\ t.pc \in {"capture", "generate"} => ReleaseCaptured(w)

TasksKeepTheirRows == \A w \in Workers : KeepsItsRows(w)

EvidenceIsUnique == \A e, f \in evidence : e.id = f.id => e = f

RecordsKeepTheirRows ==
  \A p \in Products : records[p] # NoRecord =>
    /\ records[p].evidence = {e.id : e \in records[p].prompt.evidence}
    /\ records[p].prompt.evidence \subseteq evidence

\* The inductive invariant behind the theorems of ReleaseProvenanceProofs.
ProvenanceInv ==
  /\ SkillsInv /\ ProvenanceTypeOK
  /\ TasksKeepTheirRows /\ EvidenceIsUnique /\ RecordsKeepTheirRows
  /\ RecordTellsThePrompt /\ EvidenceIsTheInput

\* docs/database.md 34: evidence has a "Product-scoped ID", and several products may
\* name one repository.  So where nothing changes or fails any more, and skills,
\* context and changelog are usable, the release is processed for every product.
EveryProductIsServed ==
  \A p \in Products :
    /\ approved[p] # 0
    /\ PinValid(lockFile, tree)
    /\ changelog[RepositoryOf[p]] # BlankChangelog
    => <>(records[p] # NoRecord)
=============================================================================

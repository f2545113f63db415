------------------------ MODULE ReleaseProvenanceProofs ------------------------
(***************************************************************************)
(* Theorems about SkillSnapshots and about ReleaseProvenance, which        *)
(* extends it, for any number of workers, products, repositories, trees,   *)
(* locks and edits.                                                        *)
(***************************************************************************)
EXTENDS ReleaseProvenance, TLAPS

-----------------------------------------------------------------------------
(* SkillSnapshots.                                                         *)

\* A step of one worker keeps the invariant when its new locals satisfy their part.
LEMMA PinUpdated ==
  ASSUME SkillsInv, NEW w \in Workers, NEW row \in Pins,
         pin' = [pin EXCEPT ![w] = row],
         tree' \in Trees, lockFile' \in Locks, edits' \in 0..MaxEdits,
         installed' \in [SkillFiles -> Versions \cup {NoVersion}],
         snapshots' \subseteq Snapshots, snapshots \subseteq snapshots',
         row.pc \in {"sync", "ready"} =>
           /\ row.bundle = row.lock.manifest
           /\ Index(row.bundle) = row.lock.selected
           /\ row.bundle = row.copy /\ row.copy \in Trees,
         row.pc \in {"capture", "sync", "ready"} => row.lock \in Locks,
         row.pc = "ready" => Metadata(row.lock, row.copy) \in snapshots'
  PROVE  SkillsInv'
<1>0. /\ SkillsTypeOK /\ pin'[w] = row
      /\ \A v \in Workers : v # w => pin'[v] = pin[v]
  BY DEF SkillsInv, SkillsTypeOK
<1>1. SkillsTypeOK'
  BY <1>0 DEF SkillsTypeOK
<1>2. LoadedIsLocked'
  <2> SUFFICES ASSUME NEW v \in Workers, pin'[v].pc \in {"sync", "ready"}
               PROVE  /\ pin'[v].bundle = pin'[v].lock.manifest
                      /\ Index(pin'[v].bundle) = pin'[v].lock.selected
    BY DEF LoadedIsLocked, Index
  <2>1. CASE v = w  BY <2>1, <1>0
  <2>2. CASE v # w  BY <2>2, <1>0 DEF SkillsInv, LoadedIsLocked
  <2> QED  BY <2>1, <2>2
<1>3. PinsAreRecorded'
  <2> SUFFICES ASSUME NEW v \in Workers
               PROVE  /\ pin'[v].pc \in {"capture", "sync", "ready"} => pin'[v].lock \in Locks
                      /\ pin'[v].pc \in {"sync", "ready"} =>
                           pin'[v].bundle = pin'[v].copy /\ pin'[v].copy \in Trees
                      /\ pin'[v].pc = "ready" => Metadata(pin'[v].lock, pin'[v].copy) \in snapshots'
    BY DEF PinsAreRecorded, Metadata, Index
  <2>1. CASE v = w  BY <2>1, <1>0
  <2>2. CASE v # w  BY <2>2, <1>0 DEF SkillsInv, PinsAreRecorded
  <2> QED  BY <2>1, <2>2
<1> QED  BY <1>1, <1>2, <1>3 DEF SkillsInv

\* A step that leaves the locals of all workers alone.
LEMMA PinsUnchanged ==
  ASSUME SkillsInv, UNCHANGED <<pin, snapshots, installed>>,
         tree' \in Trees, lockFile' \in Locks, edits' \in 0..MaxEdits
  PROVE  SkillsInv'
BY DEF SkillsInv, SkillsTypeOK, LoadedIsLocked, PinsAreRecorded, Metadata, Index

LEMMA SkillTypes ==
  ASSUME SkillsInv
  PROVE  /\ tree \in Trees /\ lockFile \in Locks /\ edits \in 0..MaxEdits
         /\ installed \in [SkillFiles -> Versions \cup {NoVersion}]
         /\ snapshots \subseteq Snapshots
         /\ \A w \in Workers : pin[w] \in Pins
BY DEF SkillsInv, SkillsTypeOK

\* The locals of a worker that is not at work.
LEMMA UnpinnedRow == Unpinned \in Pins /\ Unpinned.pc = "none"
BY DEF Unpinned, Pins, NotRead, Copies

LEMMA UnpinStep ==
  ASSUME SkillsInv, NEW w \in Workers, Unpin(w),
         UNCHANGED <<tree, lockFile, snapshots, installed>>, edits' \in 0..MaxEdits
  PROVE  SkillsInv'
<1>1. pin' = [pin EXCEPT ![w] = Unpinned]  BY DEF Unpin
<1> QED  BY <1>1, UnpinnedRow, SkillTypes, PinUpdated

LEMMA StartPinStep ==
  ASSUME SkillsInv, NEW w \in Workers, StartPin(w)
  PROVE  SkillsInv'
<1> DEFINE row == [pin[w] EXCEPT !.pc = "lock"]
<1>1. pin[w] \in Pins  BY SkillTypes
<1>2. row \in Pins /\ row.pc = "lock"  BY <1>1 DEF Pins
<1>3. pin' = [pin EXCEPT ![w] = row]  BY DEF StartPin, PinTo
<1>4. UNCHANGED <<tree, lockFile, snapshots, installed, edits>>  BY DEF StartPin
<1> HIDE DEF row
<1> QED  BY <1>2, <1>3, <1>4, SkillTypes, PinUpdated

LEMMA ReadLockStep ==
  ASSUME SkillsInv, NEW w \in Workers, ReadLock(w)
  PROVE  SkillsInv'
<1> DEFINE row == [pin[w] EXCEPT !.pc = "capture", !.lock = lockFile]
<1>1. pin[w] \in Pins /\ lockFile \in Locks  BY SkillTypes
<1>2. row \in Pins /\ row.pc = "capture" /\ row.lock \in Locks
  BY <1>1 DEF Pins
<1>3. pin' = [pin EXCEPT ![w] = row]  BY DEF ReadLock
<1>4. UNCHANGED <<tree, lockFile, snapshots, installed, edits>>  BY DEF ReadLock
<1> HIDE DEF row
<1> QED  BY <1>1, <1>2, <1>3, <1>4, SkillTypes, PinUpdated

LEMMA CaptureStep ==
  ASSUME SkillsInv, NEW w \in Workers, NEW f \in Files, CaptureEntry(w, f)
  PROVE  SkillsInv'
<1> DEFINE copy == [pin[w].copy EXCEPT ![f] = tree[f]]
           row  == [pc |-> "capture", lock |-> pin[w].lock, copy |-> copy, bundle |-> pin[w].bundle]
<1>1. /\ pin[w] \in Pins /\ pin[w].pc = "capture" /\ pin[w].lock \in Locks
      /\ tree \in Trees
  BY SkillTypes DEF SkillsInv, PinsAreRecorded, CaptureEntry, Pinning
<1>2. copy \in Copies  BY <1>1 DEF Pins, Copies, Trees
<1>3. row \in Pins  BY <1>1, <1>2 DEF Pins
<1>4. [pin[w] EXCEPT !.copy[f] = tree[f]] = row  BY <1>1 DEF Pins
<1>5. pin' = [pin EXCEPT ![w] = row]  BY <1>4 DEF CaptureEntry
<1>6. UNCHANGED <<tree, lockFile, snapshots, installed, edits>>  BY DEF CaptureEntry
<1> HIDE DEF row, copy
<1>7. row.pc = "capture" /\ row.lock \in Locks  BY <1>1 DEF row
<1> QED  BY <1>3, <1>5, <1>6, <1>7, SkillTypes, PinUpdated

LEMMA VerifyStep ==
  ASSUME SkillsInv, NEW w \in Workers, Verify(w)
  PROVE  SkillsInv'
<1> DEFINE row == [pin[w] EXCEPT !.pc = "sync", !.bundle = pin[w].copy]
<1>1. /\ pin[w] \in Pins /\ pin[w].pc = "capture" /\ pin[w].lock \in Locks
  BY SkillTypes DEF SkillsInv, PinsAreRecorded, Verify, Pinning
<1>2. UNCHANGED <<tree, lockFile, snapshots, installed, edits>>  BY DEF Verify
<1>3. CASE ~PinValid(pin[w].lock, pin[w].copy)
  BY <1>2, <1>3, UnpinStep, SkillTypes DEF Verify
<1>4. CASE PinValid(pin[w].lock, pin[w].copy)
  <2>1. /\ row \in Pins /\ row.pc = "sync" /\ row.lock = pin[w].lock
        /\ row.copy = pin[w].copy /\ row.bundle = pin[w].copy
    BY <1>1 DEF Pins
  <2>3. pin' = [pin EXCEPT ![w] = row]  BY <1>4 DEF Verify, Load
  <2>4. pin[w].copy \in Trees  BY <1>1, <1>4, SkillsAssumption DEF PinValid, LockFiles
  <2>5. row.bundle = row.lock.manifest /\ Index(row.bundle) = row.lock.selected
    BY <1>4, <2>1 DEF PinValid
  <2> HIDE DEF row
  <2> QED  BY <1>1, <1>2, <2>1, <2>3, <2>4, <2>5, SkillTypes, PinUpdated
<1> QED  BY <1>3, <1>4

\* The metadata of a verified copy is a row of skill_snapshots.
LEMMA MetadataRow ==
  ASSUME NEW lock \in Locks, NEW copy \in Trees
  PROVE  Metadata(lock, copy) \in Snapshots /\ Index(copy) \in Inventories
<1>1. Index(copy) \in Inventories
  BY SkillsAssumption DEF Index, Inventories, Trees
<1>2. lock \in LockFiles  BY SkillsAssumption
<1> QED  BY <1>1, <1>2 DEF Metadata, Snapshots, SnapshotIds, LockFiles

LEMMA SyncStep ==
  ASSUME SkillsInv, NEW w \in Workers, SyncSkillSnapshot(w)
  PROVE  SkillsInv' /\ snapshots \subseteq snapshots'
<1> DEFINE data == Metadata(pin[w].lock, pin[w].copy)
           same == {s \in snapshots : s.id = data.id}
           row  == [pin[w] EXCEPT !.pc = "ready"]
<1>1. /\ pin[w] \in Pins /\ pin[w].pc = "sync"
      /\ pin[w].lock \in Locks /\ pin[w].copy \in Trees /\ pin[w].bundle = pin[w].copy
      /\ pin[w].bundle = pin[w].lock.manifest
      /\ Index(pin[w].bundle) = pin[w].lock.selected
  BY SkillTypes DEF SkillsInv, PinsAreRecorded, LoadedIsLocked, SyncSkillSnapshot, Pinning
<1>2. data \in Snapshots /\ data.skills = Index(pin[w].copy) /\ Index(pin[w].copy) \in Inventories
  BY <1>1, MetadataRow DEF Metadata
<1>3. UNCHANGED <<tree, lockFile, edits>>  BY DEF SyncSkillSnapshot
<1>4. /\ row \in Pins /\ row.pc = "ready" /\ row.lock = pin[w].lock
      /\ row.copy = pin[w].copy /\ row.bundle = pin[w].bundle
  BY <1>1 DEF Pins
<1>5. ASSUME PinTo(w, "ready")  PROVE pin' = [pin EXCEPT ![w] = row]
  BY <1>5 DEF PinTo
<1>6. ASSUME PinTo(w, "ready"), data \in snapshots', snapshots' \subseteq Snapshots,
             snapshots \subseteq snapshots',
             installed' \in [SkillFiles -> Versions \cup {NoVersion}]
      PROVE  SkillsInv'
  <2>1. Metadata(row.lock, row.copy) \in snapshots'  BY <1>4, <1>6
  <2>2. /\ row.bundle = row.lock.manifest /\ Index(row.bundle) = row.lock.selected
        /\ row.bundle = row.copy /\ row.copy \in Trees /\ row.lock \in Locks
    BY <1>1, <1>4
  <2> HIDE DEF row, data
  <2>3. pin' = [pin EXCEPT ![w] = row] /\ row \in Pins  BY <1>4, <1>5, <1>6
  <2>4. tree' \in Trees /\ lockFile' \in Locks /\ edits' \in 0..MaxEdits
    BY <1>3, SkillTypes
  <2> QED  BY <1>6, <2>1, <2>2, <2>3, <2>4, PinUpdated
<1>7. CASE same = {}
  <2>1. snapshots' = snapshots \cup {data} /\ installed' = data.skills /\ PinTo(w, "ready")
    BY <1>7 DEF SyncSkillSnapshot
  <2>2. /\ snapshots' \subseteq Snapshots /\ snapshots \subseteq snapshots' /\ data \in snapshots'
        /\ installed' \in [SkillFiles -> Versions \cup {NoVersion}]
    BY <1>2, <2>1, SkillTypes DEF Inventories
  <2> QED  BY <1>6, <2>1, <2>2
<1>8. CASE same = {data}
  <2>0. same # {} /\ data \in snapshots  BY <1>8
  <2>1. PinTo(w, "ready") /\ UNCHANGED <<snapshots, installed>>
    BY <1>8, <2>0 DEF SyncSkillSnapshot
  <2>2. /\ snapshots' \subseteq Snapshots /\ snapshots \subseteq snapshots' /\ data \in snapshots'
        /\ installed' \in [SkillFiles -> Versions \cup {NoVersion}]
    BY <2>0, <2>1, SkillTypes
  <2> QED  BY <1>6, <2>1, <2>2
<1>9. CASE same # {} /\ same # {data}
  <2>1. Unpin(w) /\ UNCHANGED <<snapshots, installed>>
    BY <1>9 DEF SyncSkillSnapshot
  <2> QED  BY <1>3, <2>1, SkillTypes, UnpinStep
<1> QED  BY <1>7, <1>8, <1>9

LEMMA MaintainStep ==
  ASSUME SkillsInv, Maintain
  PROVE  SkillsInv' /\ UNCHANGED <<pin, snapshots>>
<1>1. edits' \in 0..MaxEdits
  BY SkillTypes, SkillsAssumption DEF Maintain, EditFile, WriteLock, Edit
<1>2. CASE \E f \in Files, x \in Contents : EditFile(f, x)
  <2>1. tree' \in Trees /\ UNCHANGED <<lockFile, snapshots, installed, pin>>
    BY <1>2, SkillTypes DEF EditFile, Trees
  <2> QED  BY <1>1, <2>1, SkillTypes, PinsUnchanged
<1>3. CASE \E lock \in Locks : WriteLock(lock)
  <2>1. lockFile' \in Locks /\ UNCHANGED <<tree, snapshots, installed, pin>>
    BY <1>3 DEF WriteLock
  <2> QED  BY <1>1, <2>1, SkillTypes, PinsUnchanged
<1> QED  BY <1>2, <1>3 DEF Maintain

LEMMA PinStepInv ==
  ASSUME SkillsInv, NEW w \in Workers, PinStep(w)
  PROVE  SkillsInv' /\ snapshots \subseteq snapshots'
<1>1. CASE ReadLock(w)  BY <1>1, ReadLockStep DEF ReadLock
<1>2. CASE \E f \in Files : CaptureEntry(w, f)  BY <1>2, CaptureStep DEF CaptureEntry
<1>3. CASE Verify(w)  BY <1>3, VerifyStep DEF Verify
<1>4. CASE SyncSkillSnapshot(w)  BY <1>4, SyncStep
<1> QED  BY <1>1, <1>2, <1>3, <1>4 DEF PinStep

LEMMA SkillsStart == SkillsInit => SkillsInv
<1> SUFFICES ASSUME SkillsInit PROVE SkillsInv  OBVIOUS
<1>1. \A w \in Workers : pin[w] = Unpinned  BY DEF SkillsInit
<1>2. SkillsTypeOK
  BY UnpinnedRow, SkillsAssumption DEF SkillsInit, SkillsTypeOK
<1>3. LoadedIsLocked /\ PinsAreRecorded
  BY <1>1, UnpinnedRow DEF LoadedIsLocked, PinsAreRecorded
<1> QED  BY <1>2, <1>3 DEF SkillsInv

LEMMA SkillsStep == SkillsInv /\ [SkillsNext]_skillVars => SkillsInv'
<1> SUFFICES ASSUME SkillsInv, [SkillsNext]_skillVars PROVE SkillsInv'  OBVIOUS
<1>1. CASE UNCHANGED skillVars
  BY <1>1, SkillTypes, PinsUnchanged DEF skillVars
<1>2. ASSUME NEW w \in Workers, StartPin(w) \/ PinStep(w) \/ Release(w)  PROVE SkillsInv'
  <2>1. CASE Release(w)  BY <2>1, SkillTypes, UnpinStep DEF Release
  <2> QED  BY <1>2, <2>1, StartPinStep, PinStepInv
<1>3. CASE Maintain  BY <1>3, MaintainStep
<1> QED  BY <1>1, <1>2, <1>3 DEF SkillsNext

\* What a worker loads is what the lock it read describes, with the lock, the tree and
\* the other workers changing at every step.
THEOREM SkillsAreLocked == SkillsSpec => []LoadedIsLocked
<1>1. SkillsInv => LoadedIsLocked  BY DEF SkillsInv
<1> QED  BY <1>1, SkillsStart, SkillsStep, PTL DEF SkillsSpec

-----------------------------------------------------------------------------
(* ReleaseProvenance.                                                      *)

LEMMA ProvenanceTypes ==
  ASSUME ProvenanceInv
  PROVE  /\ SkillsInv /\ SkillsTypeOK
         /\ approved  \in [Products -> 0..MaxContexts]
         /\ release   \in [Repositories -> Texts]
         /\ changelog \in [Repositories -> Changelogs \cup {NoChangelog, BlankChangelog}]
         /\ evidence  \subseteq Evidence
         /\ holder    \in [Products -> Workers \cup {NoWorker}]
         /\ inputs    \in [Products -> Texts \cup {NoText}]
         /\ records   \in [Products -> Records \cup {NoRecord}]
         /\ task      \in [Workers -> Tasks]
         /\ faults    \in 0..MaxFaults
         /\ EvidenceIsUnique
         /\ \A w \in Workers : task[w] \in Tasks /\ KeepsItsRows(w)
BY DEF ProvenanceInv, ProvenanceTypeOK, TasksKeepTheirRows

LEMMA NoTaskRow ==
  /\ NoTask \in Tasks /\ NoTask.pc = "idle"
  /\ NoTask.captured = {} /\ NoTask.pending = {}
BY ProvenanceAssumption DEF NoTask, Tasks

-----------------------------------------------------------------------------
\* What a recorded run quotes stays in the tables while these only grow.
LEMMA RecordsStay ==
  ASSUME ProvenanceInv, UNCHANGED records,
         snapshots \subseteq snapshots', evidence \subseteq evidence', EvidenceIsUnique',
         \A p \in Products : records[p] # NoRecord => inputs'[p] = inputs[p]
  PROVE  RecordsKeepTheirRows' /\ RecordTellsThePrompt' /\ EvidenceIsTheInput'
<1>1. RecordsKeepTheirRows'
  BY DEF ProvenanceInv, RecordsKeepTheirRows
<1>2. RecordTellsThePrompt'
  <2> SUFFICES ASSUME NEW p \in Products, records[p] # NoRecord
               PROVE  LET r == records[p] IN
                      /\ r.context = r.prompt.context
                      /\ \E s \in snapshots' : s.id = r.snapshot /\ s.id[2] = r.prompt.skills
                      /\ {e \in evidence' : e.id \in r.evidence} = r.prompt.evidence
                      /\ \A e \in r.prompt.evidence : e.product = p
    BY DEF RecordTellsThePrompt
  <2> DEFINE r == records[p]
  <2>1. /\ r.context = r.prompt.context
        /\ \E s \in snapshots : s.id = r.snapshot /\ s.id[2] = r.prompt.skills
        /\ \A e \in r.prompt.evidence : e.product = p
    BY DEF ProvenanceInv, RecordTellsThePrompt
  <2>2. r.evidence = {e.id : e \in r.prompt.evidence} /\ r.prompt.evidence \subseteq evidence
    BY DEF ProvenanceInv, RecordsKeepTheirRows
  <2>3. ASSUME NEW e \in evidence', e.id \in r.evidence  PROVE e \in r.prompt.evidence
    <3>1. PICK f \in r.prompt.evidence : e.id = f.id  BY <2>2, <2>3
    <3>2. e = f  BY <2>2, <3>1 DEF EvidenceIsUnique
    <3> QED  BY <3>2
  <2>4. \A e \in r.prompt.evidence : e \in evidence' /\ e.id \in r.evidence  BY <2>2
  <2>5. {e \in evidence' : e.id \in r.evidence} = r.prompt.evidence
    <3> HIDE DEF r
    <3> QED  BY <2>3, <2>4
  <2> QED  BY <2>1, <2>5
<1>3. EvidenceIsTheInput'
  BY DEF ProvenanceInv, EvidenceIsTheInput
<1> QED  BY <1>1, <1>2, <1>3

\* A worker keeps its rows when another one makes a step.
LEMMA OtherKeepsItsRows ==
  ASSUME NEW v \in Workers, KeepsItsRows(v), task'[v] = task[v], pin'[v] = pin[v],
         evidence \subseteq evidence',
         \A p \in Products : holder[p] = v => holder'[p] = v /\ inputs'[p] = inputs[p]
  PROVE  KeepsItsRows(v)'
BY DEF KeepsItsRows, ReleaseCaptured

LEMMA IdleKeepsItsRows ==
  ASSUME NEW w \in Workers, task'[w] = NoTask
  PROVE  KeepsItsRows(w)'
BY NoTaskRow DEF KeepsItsRows

\* A step of a worker keeps the invariant when what it changed does.
LEMMA TaskUpdated ==
  ASSUME ProvenanceInv, SkillsInv', NEW w \in Workers, NEW row \in Tasks,
         task' = [task EXCEPT ![w] = row], KeepsItsRows(w)',
         \A v \in Workers : v # w => pin'[v] = pin[v],
         UNCHANGED world, faults' \in 0..MaxFaults,
         evidence' \subseteq Evidence, evidence \subseteq evidence', EvidenceIsUnique',
         holder' \in [Products -> Workers \cup {NoWorker}],
         inputs' \in [Products -> Texts \cup {NoText}],
         \A v \in Workers, p \in Products :
           v # w /\ holder[p] = v => holder'[p] = v /\ inputs'[p] = inputs[p],
         records' \in [Products -> Records \cup {NoRecord}],
         RecordsKeepTheirRows', RecordTellsThePrompt', EvidenceIsTheInput'
  PROVE  ProvenanceInv'
<1>1. task' \in [Workers -> Tasks] /\ SkillsTypeOK'
  BY ProvenanceTypes DEF SkillsInv
<1>2. ProvenanceTypeOK'
  BY <1>1, ProvenanceTypes DEF ProvenanceTypeOK, world
<1>3. ASSUME NEW v \in Workers  PROVE KeepsItsRows(v)'
  <2>1. CASE v = w  BY <2>1
  <2>2. CASE v # w
    <3>1. task'[v] = task[v] /\ KeepsItsRows(v)  BY <2>2, ProvenanceTypes
    <3> QED  BY <2>2, <3>1, OtherKeepsItsRows
  <2> QED  BY <2>1, <2>2
<1> QED  BY <1>2, <1>3 DEF ProvenanceInv, TasksKeepTheirRows

\* The locals of the workers that make no step.
LEMMA PinsOfOthers ==
  ASSUME SkillsInv, NEW w \in Workers, PinStep(w) \/ StartPin(w) \/ Unpin(w) \/ UNCHANGED pin
  PROVE  \A v \in Workers : v # w => pin'[v] = pin[v]
<1>0. pin \in [Workers -> Pins]  BY DEF SkillsInv, SkillsTypeOK
<1>1. CASE StartPin(w)  BY <1>0, <1>1 DEF StartPin, PinTo
<1>2. CASE ReadLock(w)  BY <1>0, <1>2 DEF ReadLock
<1>3. CASE \E f \in Files : CaptureEntry(w, f)  BY <1>0, <1>3 DEF CaptureEntry
<1>4. CASE Verify(w)  BY <1>0, <1>4 DEF Verify, Unpin
<1>5. CASE SyncSkillSnapshot(w)
  <2>1. PinTo(w, "ready") \/ Unpin(w)  BY <1>5 DEF SyncSkillSnapshot
  <2> QED  BY <1>0, <2>1 DEF PinTo, Unpin
<1>6. CASE Unpin(w)  BY <1>0, <1>6 DEF Unpin
<1> QED  BY <1>1, <1>2, <1>3, <1>4, <1>5, <1>6 DEF PinStep
-----------------------------------------------------------------------------
LEMMA LeaveStep ==
  ASSUME ProvenanceInv, NEW w \in Workers, Leave(w),
         UNCHANGED <<tree, lockFile, snapshots, installed, edits, world, evidence, inputs>>,
         faults' \in 0..MaxFaults,
         holder' \in [Products -> Workers \cup {NoWorker}],
         \A v \in Workers, p \in Products : v # w /\ holder[p] = v => holder'[p] = v,
         records' \in [Products -> Records \cup {NoRecord}],
         RecordsKeepTheirRows', RecordTellsThePrompt', EvidenceIsTheInput'
  PROVE  ProvenanceInv'
<1>1. Unpin(w) /\ task' = [task EXCEPT ![w] = NoTask]  BY DEF Leave
<1>2. SkillsInv'  BY <1>1, UnpinStep, ProvenanceTypes, SkillTypes
<1>3. \A v \in Workers : v # w => pin'[v] = pin[v]  BY <1>1, PinsOfOthers, ProvenanceTypes
<1>4. task'[w] = NoTask  BY <1>1, ProvenanceTypes
<1>5. KeepsItsRows(w)'  BY <1>4, IdleKeepsItsRows
<1>6. evidence' \subseteq Evidence /\ EvidenceIsUnique' /\ UNCHANGED world
      /\ inputs' \in [Products -> Texts \cup {NoText}] /\ evidence \subseteq evidence'
      /\ inputs' = inputs
  BY ProvenanceTypes DEF EvidenceIsUnique
<1> QED  BY <1>1, <1>2, <1>3, <1>5, <1>6, NoTaskRow, TaskUpdated

\* The claim of a worker is released and no other.
LEMMA Unclaimed ==
  ASSUME ProvenanceInv, NEW w \in Workers, Unclaim(w)
  PROVE  /\ holder' \in [Products -> Workers \cup {NoWorker}]
         /\ \A v \in Workers, p \in Products : v # w /\ holder[p] = v => holder'[p] = v
BY ProvenanceTypes DEF Unclaim

LEMMA AbortStep ==
  ASSUME ProvenanceInv, NEW w \in Workers, Abort(w),
         UNCHANGED <<tree, lockFile, snapshots, installed, edits, world, evidence, inputs, records>>,
         faults' \in 0..MaxFaults
  PROVE  ProvenanceInv'
<1>1. EvidenceIsUnique'  BY ProvenanceTypes DEF EvidenceIsUnique
<1>2. RecordsKeepTheirRows' /\ RecordTellsThePrompt' /\ EvidenceIsTheInput'
  BY <1>1, RecordsStay
<1>3. records' \in [Products -> Records \cup {NoRecord}]  BY ProvenanceTypes
<1>4. Leave(w) /\ Unclaim(w)  BY DEF Abort
<1> QED  BY <1>2, <1>3, <1>4, Unclaimed, LeaveStep

\* A step of a worker that changes no claim and no record, and pins of its own only.
LEMMA WorkerStep ==
  ASSUME ProvenanceInv, SkillsInv', snapshots \subseteq snapshots',
         NEW w \in Workers, NEW row \in Tasks,
         task' = [task EXCEPT ![w] = row], KeepsItsRows(w)',
         \A v \in Workers : v # w => pin'[v] = pin[v],
         UNCHANGED <<world, holder, inputs, records, faults>>,
         evidence' \subseteq Evidence, evidence \subseteq evidence', EvidenceIsUnique'
  PROVE  ProvenanceInv'
<1>1. RecordsKeepTheirRows' /\ RecordTellsThePrompt' /\ EvidenceIsTheInput'
  BY RecordsStay
<1>2. /\ faults' \in 0..MaxFaults /\ UNCHANGED world
      /\ holder' \in [Products -> Workers \cup {NoWorker}]
      /\ inputs' \in [Products -> Texts \cup {NoText}]
      /\ records' \in [Products -> Records \cup {NoRecord}]
      /\ \A v \in Workers, p \in Products :
           v # w /\ holder[p] = v => holder'[p] = v /\ inputs'[p] = inputs[p]
  BY ProvenanceTypes
<1> QED  BY <1>1, <1>2, TaskUpdated

LEMMA SkillsUnchanged ==
  ASSUME ProvenanceInv, UNCHANGED skillVars
  PROVE  SkillsInv' /\ snapshots \subseteq snapshots' /\ UNCHANGED pin
<1>1. UNCHANGED <<pin, snapshots, installed, tree, lockFile, edits>>  BY DEF skillVars
<1> QED  BY <1>1, ProvenanceTypes, SkillTypes, PinsUnchanged

LEMMA EvidenceUnchanged ==
  ASSUME ProvenanceInv, UNCHANGED evidence
  PROVE  evidence' \subseteq Evidence /\ evidence \subseteq evidence' /\ EvidenceIsUnique'
BY ProvenanceTypes DEF EvidenceIsUnique

LEMMA BeginStep ==
  ASSUME ProvenanceInv, NEW w \in Workers, NEW p \in Products, Prepares(w, p), approved[p] # 0
  PROVE  ProvenanceInv'
<1> DEFINE row == [NoTask EXCEPT !.pc = "pin", !.product = p, !.context = approved[p]]
<1>0. approved[p] \in 0..MaxContexts  BY ProvenanceTypes
<1>1. approved[p] \in 1..MaxContexts  BY <1>0, ProvenanceAssumption
<1>2. /\ row \in Tasks /\ row.pc = "pin" /\ row.product = p /\ row.context = approved[p]
      /\ row.captured = {} /\ row.pending = {}
  <2>1. row \in Tasks  BY <1>0, NoTaskRow DEF Tasks
  <2>2. /\ row.pc = "pin" /\ row.product = p /\ row.context = approved[p]
        /\ row.captured = {} /\ row.pending = {}
    BY DEF NoTask
  <2> QED  BY <2>1, <2>2
<1>3. /\ task' = [task EXCEPT ![w] = row] /\ StartPin(w)
      /\ UNCHANGED <<world, tables, faults>>
  BY DEF Prepares
<1>4. task'[w] = row  BY <1>3, ProvenanceTypes
<1>5. KeepsItsRows(w)'
  <2> HIDE DEF row
  <2> QED  BY <1>1, <1>2, <1>4 DEF KeepsItsRows
<1>6. SkillsInv' /\ UNCHANGED snapshots
  BY <1>3, StartPinStep, ProvenanceTypes DEF StartPin
<1>7. \A v \in Workers : v # w => pin'[v] = pin[v]
  BY <1>3, PinsOfOthers, ProvenanceTypes
<1>8. UNCHANGED <<world, holder, inputs, records, faults, evidence>>
  BY <1>3 DEF tables
<1> HIDE DEF row
<1> QED  BY <1>2, <1>3, <1>5, <1>6, <1>7, <1>8, EvidenceUnchanged, WorkerStep

LEMMA PrepareStep ==
  ASSUME ProvenanceInv, NEW w \in Workers, Prepare(w)
  PROVE  ProvenanceInv'
<1>1. /\ task[w].pc = "pin" /\ PinStep(w)
      /\ UNCHANGED <<world, holder, inputs, records, faults, evidence>>
  BY DEF Prepare, At, tables
<1>2. SkillsInv' /\ snapshots \subseteq snapshots'
  BY <1>1, PinStepInv, ProvenanceTypes
<1>3. \A v \in Workers : v # w => pin'[v] = pin[v]
  BY <1>1, PinsOfOthers, ProvenanceTypes
<1>4. task[w] \in Tasks /\ KeepsItsRows(w) /\ task \in [Workers -> Tasks]  BY ProvenanceTypes
<1>5. ASSUME NEW row \in Tasks, task' = [task EXCEPT ![w] = row], KeepsItsRows(w)'
      PROVE  ProvenanceInv'
  BY <1>1, <1>2, <1>3, <1>5, EvidenceUnchanged, WorkerStep
<1>6. CASE pin'[w].pc = "none"
  <2>1. task' = [task EXCEPT ![w] = NoTask]  BY <1>6 DEF Prepare
  <2>2. KeepsItsRows(w)'  BY <1>4, <2>1, IdleKeepsItsRows
  <2> QED  BY <1>5, <2>1, <2>2, NoTaskRow
<1>7. CASE pin'[w].pc = "ready"
  <2> DEFINE row == [task[w] EXCEPT !.pc = "read"]
  <2>1. /\ row \in Tasks /\ row.pc = "read" /\ row.product = task[w].product
        /\ row.context = task[w].context /\ row.text = task[w].text
        /\ row.captured = task[w].captured /\ row.pending = task[w].pending
    BY <1>4 DEF Tasks
  <2>2. task' = [task EXCEPT ![w] = row]  BY <1>7 DEF Prepare
  <2> HIDE DEF row
  <2>3. task'[w] = row  BY <1>4, <2>2
  <2>4. KeepsItsRows(w)'
    BY <1>1, <1>4, <1>7, <2>1, <2>3 DEF KeepsItsRows, ReleaseCaptured
  <2> QED  BY <1>5, <2>1, <2>2, <2>4
<1>8. CASE pin'[w].pc \notin {"none", "ready"}
  <2>1. task' = task /\ evidence' = evidence  BY <1>1, <1>8 DEF Prepare
  <2>2. KeepsItsRows(w)'  BY <1>1, <1>4, <2>1 DEF KeepsItsRows, ReleaseCaptured
  <2>3. task' = [task EXCEPT ![w] = task[w]]  BY <1>4, <2>1
  <2> QED  BY <1>4, <1>5, <2>2, <2>3
<1> QED  BY <1>6, <1>7, <1>8

LEMMA ReadReleaseStep ==
  ASSUME ProvenanceInv, NEW w \in Workers, ReadRelease(w)
  PROVE  ProvenanceInv'
<1>1. /\ task[w].pc = "read"
      /\ UNCHANGED <<skillVars, world, holder, inputs, records, faults, evidence>>
  BY DEF ReadRelease, At, tables
<1>2. task[w] \in Tasks /\ KeepsItsRows(w) /\ task \in [Workers -> Tasks]  BY ProvenanceTypes
<1>3. release[Repository(w)] \in Texts
  BY <1>1, <1>2, ProvenanceTypes, ProvenanceAssumption DEF KeepsItsRows, Repository
<1> DEFINE row == [task[w] EXCEPT !.pc = "claim", !.text = release[Repository(w)]]
<1>4. /\ row \in Tasks /\ row.pc = "claim" /\ row.product = task[w].product
      /\ row.context = task[w].context /\ row.text \in Texts
      /\ row.captured = task[w].captured /\ row.pending = task[w].pending
  BY <1>2, <1>3 DEF Tasks
<1>5. task' = [task EXCEPT ![w] = row]  BY DEF ReadRelease
<1> HIDE DEF row
<1>6. task'[w] = row  BY <1>2, <1>5
<1>7. UNCHANGED pin /\ SkillsInv' /\ snapshots \subseteq snapshots'  BY <1>1, SkillsUnchanged
<1>8. task[w].pending = {}  BY <1>1, <1>2 DEF KeepsItsRows
<1>9. KeepsItsRows(w)'
  BY <1>1, <1>2, <1>4, <1>6, <1>7, <1>8 DEF KeepsItsRows, ReleaseCaptured
<1> QED  BY <1>1, <1>4, <1>5, <1>7, <1>9, EvidenceUnchanged, WorkerStep

LEMMA ClaimStep ==
  ASSUME ProvenanceInv, NEW w \in Workers, ClaimRelease(w)
  PROVE  ProvenanceInv'
<1> DEFINE p == task[w].product
<1>1. /\ task[w].pc = "claim"
      /\ UNCHANGED <<tree, lockFile, snapshots, installed, edits, world, evidence, records, faults>>
  BY DEF ClaimRelease, At
<1>2. task[w] \in Tasks /\ KeepsItsRows(w) /\ task \in [Workers -> Tasks]  BY ProvenanceTypes
<1>3. p \in Products /\ task[w].text \in Texts /\ pin[w].pc = "ready"
  BY <1>1, <1>2 DEF KeepsItsRows
<1>4. faults' \in 0..MaxFaults /\ UNCHANGED world
      /\ records' \in [Products -> Records \cup {NoRecord}]
  BY <1>1, ProvenanceTypes
<1>5. evidence' \subseteq Evidence /\ evidence \subseteq evidence' /\ EvidenceIsUnique'
  BY <1>1, EvidenceUnchanged
<1>6. CASE holder[p] = NoWorker /\ records[p] = NoRecord /\ inputs[p] \in {NoText, task[w].text}
  <2> DEFINE new == [id |-> <<"release", Repository(w)>>, product |-> p, content |-> task[w].text]
             row == [task[w] EXCEPT !.pc = "look_up", !.pending = {new}]
  <2>1. /\ task' = [task EXCEPT ![w] = row] /\ UNCHANGED pin
        /\ holder' = [holder EXCEPT ![p] = w] /\ inputs' = [inputs EXCEPT ![p] = task[w].text]
    BY <1>6 DEF ClaimRelease, Claims, Pend
  <2>2. /\ new \in Evidence /\ new.id[1] = "release"
        /\ new.product = p /\ new.content = task[w].text
    BY <1>3, ProvenanceAssumption DEF Evidence, Ids, Kinds, Bodies, Repository
  <2> HIDE DEF new
  <2>3. /\ row \in Tasks /\ row.pc = "look_up" /\ row.product = p
        /\ row.context = task[w].context /\ row.text = task[w].text
        /\ row.captured = task[w].captured /\ row.pending = {new}
    BY <1>2, <2>2 DEF Tasks
  <2> HIDE DEF row
  <2>4. task'[w] = row  BY <1>2, <2>1
  <2>5. /\ holder' \in [Products -> Workers \cup {NoWorker}] /\ holder'[p] = w
        /\ inputs' \in [Products -> Texts \cup {NoText}] /\ inputs'[p] = task[w].text
    BY <1>3, <2>1, ProvenanceTypes
  <2>6. KeepsItsRows(w)'
    BY <1>1, <1>2, <1>3, <2>1, <2>2, <2>3, <2>4, <2>5 DEF KeepsItsRows, ReleaseCaptured
  <2>7. ASSUME NEW v \in Workers, NEW q \in Products, v # w, holder[q] = v
        PROVE  holder'[q] = v /\ inputs'[q] = inputs[q]
    <3>1. q # p  BY <1>6, <2>7, ProvenanceAssumption
    <3> QED  BY <2>1, <2>7, <3>1, ProvenanceTypes
  <2>8. \A q \in Products : records[q] # NoRecord => inputs'[q] = inputs[q]
    BY <1>6, <2>1, ProvenanceTypes
  <2>9. RecordsKeepTheirRows' /\ RecordTellsThePrompt' /\ EvidenceIsTheInput'
    BY <1>1, <1>5, <2>8, RecordsStay
  <2>10. SkillsInv'  BY <1>1, <2>1, ProvenanceTypes, SkillTypes, PinsUnchanged
  <2> QED  BY <1>4, <1>5, <2>1, <2>3, <2>5, <2>6, <2>7, <2>9, <2>10, TaskUpdated
<1>7. CASE ~(holder[p] = NoWorker /\ records[p] = NoRecord /\ inputs[p] \in {NoText, task[w].text})
  <2>1. Leave(w) /\ UNCHANGED <<holder, inputs>>
    BY <1>7 DEF ClaimRelease
  <2>2. RecordsKeepTheirRows' /\ RecordTellsThePrompt' /\ EvidenceIsTheInput'
    BY <1>1, <1>5, <2>1, RecordsStay
  <2>3. holder' \in [Products -> Workers \cup {NoWorker}] /\ holder' = holder
    BY <2>1, ProvenanceTypes
  <2> QED  BY <1>1, <1>4, <2>1, <2>2, <2>3, LeaveStep
<1> QED  BY <1>6, <1>7

\* The worker goes on with a row that is in the table.
LEMMA CapturedStep ==
  ASSUME ProvenanceInv, NEW w \in Workers, NEW e \in task[w].pending, Captured(w, e),
         task[w].pc \in {"look_up", "insert"}, e \in evidence',
         UNCHANGED <<tree, lockFile, snapshots, installed, edits, pin, world, holder, inputs, records, faults>>,
         evidence' \subseteq Evidence, evidence \subseteq evidence', EvidenceIsUnique'
  PROVE  ProvenanceInv'
<1> DEFINE next == IF e.id[1] = "release" THEN "capture" ELSE "generate"
           row  == [task[w] EXCEPT !.captured = @ \cup {e}, !.pending = {}, !.pc = next]
<1>1. task[w] \in Tasks /\ KeepsItsRows(w) /\ task \in [Workers -> Tasks]  BY ProvenanceTypes
<1>2. e \in Evidence /\ next \in {"capture", "generate"}  OBVIOUS
<1>3. /\ row \in Tasks /\ row.pc = next /\ row.product = task[w].product
      /\ row.context = task[w].context /\ row.text = task[w].text
      /\ row.captured = task[w].captured \cup {e} /\ row.pending = {}
  <2> HIDE DEF next
  <2> QED  BY <1>1, <1>2 DEF Tasks
<1>4. task' = [task EXCEPT ![w] = row]  BY DEF Captured
<1> HIDE DEF row
<1>5. task'[w] = row  BY <1>1, <1>4
<1>6. ReleaseCaptured(w)'
  <2>1. CASE e.id[1] = "release"
    BY <1>1, <1>3, <1>5, <2>1 DEF KeepsItsRows, ReleaseCaptured
  <2>2. CASE e.id[1] # "release"
    BY <1>1, <1>3, <1>5, <2>2 DEF KeepsItsRows, ReleaseCaptured
  <2> QED  BY <2>1, <2>2
<1>7. KeepsItsRows(w)'
  <2> HIDE DEF next
  <2> QED  BY <1>1, <1>2, <1>3, <1>5, <1>6 DEF KeepsItsRows
<1>8. SkillsInv' /\ snapshots \subseteq snapshots'
  BY ProvenanceTypes, SkillTypes, PinsUnchanged
<1> QED  BY <1>3, <1>4, <1>7, <1>8, WorkerStep

LEMMA LookUpStep ==
  ASSUME ProvenanceInv, NEW w \in Workers, LookUpEvidence(w)
  PROVE  ProvenanceInv'
<1>1. /\ task[w].pc = "look_up"
      /\ UNCHANGED <<tree, lockFile, snapshots, installed, edits, world, evidence, inputs, records, faults>>
  BY DEF LookUpEvidence, At
<1>2. task[w] \in Tasks /\ KeepsItsRows(w) /\ task \in [Workers -> Tasks]  BY ProvenanceTypes
<1>3. PICK e \in task[w].pending :
        LET same == {f \in evidence : f.id = e.id} IN
        CASE same = {}  -> Goto(w, "insert") /\ UNCHANGED <<pin, holder>>
          [] same = {e} -> Captured(w, e) /\ UNCHANGED <<pin, holder>>
          [] OTHER      -> Abort(w)
  BY DEF LookUpEvidence
<1> DEFINE same == {f \in evidence : f.id = e.id}
<1>4. CASE same = {}
  <2> DEFINE row == [task[w] EXCEPT !.pc = "insert"]
  <2>1. Goto(w, "insert") /\ UNCHANGED <<pin, holder>>  BY <1>3, <1>4
  <2>2. /\ row \in Tasks /\ row.pc = "insert" /\ row.product = task[w].product
        /\ row.context = task[w].context /\ row.text = task[w].text
        /\ row.captured = task[w].captured /\ row.pending = task[w].pending
    BY <1>2 DEF Tasks
  <2>3. task' = [task EXCEPT ![w] = row]  BY <2>1 DEF Goto
  <2> HIDE DEF row, same
  <2>4. task'[w] = row  BY <1>2, <2>3
  <2>5. KeepsItsRows(w)'
    BY <1>1, <1>2, <2>1, <2>2, <2>4 DEF KeepsItsRows, ReleaseCaptured
  <2>6. SkillsInv' /\ snapshots \subseteq snapshots'
    BY <1>1, <2>1, ProvenanceTypes, SkillTypes, PinsUnchanged
  <2> QED  BY <1>1, <2>1, <2>2, <2>3, <2>5, <2>6, EvidenceUnchanged, WorkerStep
<1>5. CASE same = {e}
  <2>0. same # {} /\ e \in evidence  BY <1>5
  <2>1. Captured(w, e) /\ UNCHANGED <<pin, holder>>  BY <1>3, <1>5, <2>0
  <2> HIDE DEF same
  <2> QED  BY <1>1, <2>0, <2>1, EvidenceUnchanged, CapturedStep
<1>6. CASE same # {} /\ same # {e}
  <2>1. Abort(w)  BY <1>3, <1>6
  <2> HIDE DEF same
  <2> QED  BY <1>1, <2>1, ProvenanceTypes, AbortStep
<1> QED  BY <1>4, <1>5, <1>6

LEMMA InsertStep ==
  ASSUME ProvenanceInv, NEW w \in Workers, InsertEvidence(w)
  PROVE  ProvenanceInv'
<1>1. /\ task[w].pc = "insert"
      /\ UNCHANGED <<tree, lockFile, snapshots, installed, edits, world, inputs, records, faults>>
  BY DEF InsertEvidence, At
<1>2. PICK e \in task[w].pending :
        IF \E f \in evidence : f.id = e.id
        THEN Abort(w) /\ UNCHANGED evidence
        ELSE Captured(w, e) /\ evidence' = evidence \cup {e} /\ UNCHANGED <<pin, holder>>
  BY DEF InsertEvidence
<1>3. CASE \E f \in evidence : f.id = e.id
  BY <1>1, <1>2, <1>3, ProvenanceTypes, AbortStep
<1>4. CASE ~\E f \in evidence : f.id = e.id
  <2>1. Captured(w, e) /\ evidence' = evidence \cup {e} /\ UNCHANGED <<pin, holder>>
    BY <1>2, <1>4
  <2>2. e \in Evidence  BY ProvenanceTypes DEF Tasks
  <2>3. EvidenceIsUnique'  BY <1>4, <2>1, ProvenanceTypes DEF EvidenceIsUnique
  <2>4. evidence' \subseteq Evidence /\ evidence \subseteq evidence' /\ e \in evidence'
    BY <2>1, <2>2, ProvenanceTypes
  <2> QED  BY <1>1, <2>1, <2>3, <2>4, CapturedStep
<1> QED  BY <1>3, <1>4

LEMMA ReadChangelogStep ==
  ASSUME ProvenanceInv, NEW w \in Workers, NEW found \in BOOLEAN, ReadChangelog(w, found)
  PROVE  ProvenanceInv'
<1> DEFINE body == changelog[Repository(w)]
<1>1. /\ task[w].pc = "capture"
      /\ UNCHANGED <<tree, lockFile, snapshots, installed, edits, world, evidence, inputs, records, faults>>
  BY DEF ReadChangelog, At
<1>2. task[w] \in Tasks /\ KeepsItsRows(w) /\ task \in [Workers -> Tasks]  BY ProvenanceTypes
<1>3. /\ task[w].product \in Products /\ ReleaseCaptured(w) /\ pin[w].pc = "ready"
      /\ task[w].pending = {}
      /\ task[w].captured \subseteq evidence /\ task[w].text \in Texts
      /\ holder[task[w].product] = w /\ inputs[task[w].product] = task[w].text
      /\ task[w].context \in 1..MaxContexts
  BY <1>1, <1>2 DEF KeepsItsRows
<1>4. ASSUME NEW row \in Tasks, task' = [task EXCEPT ![w] = row], KeepsItsRows(w)',
             UNCHANGED <<pin, holder>>
      PROVE  ProvenanceInv'
  <2>1. SkillsInv' /\ snapshots \subseteq snapshots'
    BY <1>1, <1>4, ProvenanceTypes, SkillTypes, PinsUnchanged
  <2> QED  BY <1>1, <1>4, <2>1, EvidenceUnchanged, WorkerStep
<1>5. CASE ~found \/ body = NoChangelog
  <2> DEFINE row == [task[w] EXCEPT !.pc = "generate"]
  <2>0. found => body # BlankChangelog /\ body \notin Changelogs  BY <1>5, ProvenanceAssumption
  <2>1. Goto(w, "generate") /\ UNCHANGED <<pin, holder>>  BY <1>5, <2>0 DEF ReadChangelog
  <2>2. /\ row \in Tasks /\ row.pc = "generate" /\ row.product = task[w].product
        /\ row.context = task[w].context /\ row.text = task[w].text
        /\ row.captured = task[w].captured /\ row.pending = {}
    BY <1>2, <1>3 DEF Tasks
  <2>3. task' = [task EXCEPT ![w] = row]  BY <2>1 DEF Goto
  <2> HIDE DEF row
  <2>4. task'[w] = row  BY <1>2, <2>3
  <2>5. KeepsItsRows(w)'
    BY <1>1, <1>3, <2>1, <2>2, <2>4 DEF KeepsItsRows, ReleaseCaptured
  <2> QED  BY <1>4, <2>1, <2>2, <2>3, <2>5
<1>6. CASE found /\ body \in Changelogs
  <2> DEFINE new == [id |-> <<"changelog", Repository(w)>>, product |-> task[w].product, content |-> body]
             row == [task[w] EXCEPT !.pc = "look_up", !.pending = {new}]
  <2>0. body # NoChangelog /\ body # BlankChangelog  BY <1>6, ProvenanceAssumption
  <2>1. Pend(w, "changelog", body) /\ UNCHANGED <<pin, holder>>
    BY <1>6, <2>0 DEF ReadChangelog
  <2>2. /\ new \in Evidence /\ new.id[1] # "release" /\ new.product = task[w].product
    BY <1>3, <1>6, ProvenanceAssumption DEF Evidence, Ids, Kinds, Bodies, Repository
  <2>3. task' = [task EXCEPT ![w] = row]  BY <2>1 DEF Pend
  <2> HIDE DEF new
  <2>4. /\ row \in Tasks /\ row.pc = "look_up" /\ row.product = task[w].product
        /\ row.context = task[w].context /\ row.text = task[w].text
        /\ row.captured = task[w].captured /\ row.pending = {new}
    BY <1>2, <2>2 DEF Tasks
  <2> HIDE DEF row
  <2>5. task'[w] = row  BY <1>2, <2>3
  <2>6. KeepsItsRows(w)'
    BY <1>1, <1>3, <2>1, <2>2, <2>4, <2>5 DEF KeepsItsRows, ReleaseCaptured
  <2> QED  BY <1>4, <2>1, <2>3, <2>4, <2>6
<1>7. CASE found /\ body = BlankChangelog
  <2>0. body # NoChangelog /\ body \notin Changelogs  BY <1>7, ProvenanceAssumption
  <2>1. Abort(w)  BY <1>7, <2>0 DEF ReadChangelog
  <2> QED  BY <1>1, <2>1, ProvenanceTypes, AbortStep
<1>8. body \in Changelogs \cup {NoChangelog, BlankChangelog}
  BY <1>3, ProvenanceTypes, ProvenanceAssumption DEF Repository
<1> QED  BY <1>5, <1>6, <1>7, <1>8

\* The record of a run that quotes rows of its own product only.
LEMMA MetadataTells ==
  ASSUME ProvenanceInv, NEW w \in Workers, task[w].pc = "generate"
  PROVE  LET r == RunMetadata(w) IN
         /\ task[w].product \in Products
         /\ r \in Records
         /\ r.context = r.prompt.context
         /\ r.evidence = {e.id : e \in r.prompt.evidence}
         /\ r.prompt.evidence = task[w].captured /\ r.prompt.evidence \subseteq evidence
         /\ \E s \in snapshots : s.id = r.snapshot /\ s.id[2] = r.prompt.skills
         /\ \E e \in r.prompt.evidence : e.id[1] = "release" /\ e.content = inputs[task[w].product]
<1>1. task[w] \in Tasks /\ KeepsItsRows(w)  BY ProvenanceTypes
<1>2. /\ task[w].product \in Products /\ task[w].context \in 1..MaxContexts /\ pin[w].pc = "ready"
      /\ task[w].captured \subseteq evidence /\ ReleaseCaptured(w)
      /\ inputs[task[w].product] = task[w].text
  BY <1>1 DEF KeepsItsRows
<1>3. /\ pin[w].lock \in Locks /\ pin[w].copy \in Trees /\ pin[w].bundle = pin[w].copy
      /\ Metadata(pin[w].lock, pin[w].copy) \in snapshots
  BY <1>2, ProvenanceTypes DEF SkillsInv, PinsAreRecorded
<1> DEFINE r == RunMetadata(w)
<1>4. /\ r.context = task[w].context /\ r.snapshot = <<pin[w].lock.commit, pin[w].copy>>
      /\ r.evidence = {e.id : e \in task[w].captured}
      /\ r.prompt.context = task[w].context /\ r.prompt.skills = pin[w].bundle
      /\ r.prompt.evidence = task[w].captured
  BY DEF RunMetadata, Prompt
<1>5. r \in Records
  <2>1. pin[w].lock.commit \in Commits  BY <1>3, SkillsAssumption DEF LockFiles
  <2>2. {e.id : e \in task[w].captured} \subseteq Ids
    BY <1>2, ProvenanceTypes DEF Evidence
  <2>3. Prompt(w) \in Prompts  BY <1>2, <1>3, ProvenanceTypes DEF Prompt, Prompts
  <2>4. <<pin[w].lock.commit, pin[w].copy>> \in SnapshotIds  BY <1>3, <2>1 DEF SnapshotIds
  <2> QED  BY <1>2, <2>2, <2>3, <2>4 DEF RunMetadata, Records
<1>6. \E s \in snapshots : s.id = r.snapshot /\ s.id[2] = r.prompt.skills
  <2>1. Metadata(pin[w].lock, pin[w].copy).id = <<pin[w].lock.commit, pin[w].copy>>
    BY DEF Metadata
  <2> QED  BY <1>3, <1>4, <2>1
<1>7. \E e \in r.prompt.evidence : e.id[1] = "release" /\ e.content = inputs[task[w].product]
  BY <1>2, <1>4 DEF ReleaseCaptured
<1> HIDE DEF r
<1>8. /\ r.context = r.prompt.context
      /\ r.evidence = {e.id : e \in r.prompt.evidence}
      /\ r.prompt.evidence = task[w].captured /\ r.prompt.evidence \subseteq evidence
  BY <1>2, <1>4
<1> QED  BY <1>2, <1>5, <1>6, <1>7, <1>8 DEF r

LEMMA CompleteStep ==
  ASSUME ProvenanceInv, NEW w \in Workers, Complete(w)
  PROVE  ProvenanceInv'
<1> DEFINE p == task[w].product
           r == RunMetadata(w)
<1>1. /\ task[w].pc = "generate" /\ Abort(w)
      /\ UNCHANGED <<tree, lockFile, snapshots, installed, edits, world, evidence, inputs, faults>>
  BY DEF Complete, At
<1>2. CASE ~\A e \in task[w].captured : e.product = p
  <2>1. UNCHANGED records  BY <1>2 DEF Complete
  <2> QED  BY <1>1, <2>1, ProvenanceTypes, AbortStep
<1>3. CASE \A e \in task[w].captured : e.product = p
  <2>1. records' = [records EXCEPT ![p] = r]  BY <1>3 DEF Complete
  <2>2. /\ p \in Products /\ r \in Records
        /\ r.context = r.prompt.context
        /\ r.evidence = {e.id : e \in r.prompt.evidence}
        /\ r.prompt.evidence = task[w].captured /\ r.prompt.evidence \subseteq evidence
        /\ \E s \in snapshots : s.id = r.snapshot /\ s.id[2] = r.prompt.skills
        /\ \E e \in r.prompt.evidence : e.id[1] = "release" /\ e.content = inputs[p]
    BY <1>1, MetadataTells
  <2> HIDE DEF p, r
  <2>3. /\ records' \in [Products -> Records \cup {NoRecord}]
        /\ records'[p] = r /\ \A q \in Products : q # p => records'[q] = records[q]
    BY <2>1, <2>2, ProvenanceTypes
  <2>4. /\ RecordsKeepTheirRows /\ RecordTellsThePrompt /\ EvidenceIsTheInput
        /\ UNCHANGED <<evidence, inputs, snapshots>> /\ EvidenceIsUnique
    BY <1>1 DEF ProvenanceInv
  <2>5. RecordsKeepTheirRows'
    <3> SUFFICES ASSUME NEW q \in Products, records'[q] # NoRecord
                 PROVE  /\ records'[q].evidence = {e.id : e \in records'[q].prompt.evidence}
                        /\ records'[q].prompt.evidence \subseteq evidence'
      BY DEF RecordsKeepTheirRows
    <3>1. CASE q = p  BY <2>2, <2>3, <2>4, <3>1
    <3>2. CASE q # p  BY <2>3, <2>4, <3>2 DEF RecordsKeepTheirRows
    <3> QED  BY <3>1, <3>2
  <2>6. {e \in evidence : e.id \in r.evidence} = r.prompt.evidence
    <3>1. ASSUME NEW e \in evidence, e.id \in r.evidence  PROVE e \in r.prompt.evidence
      <4>1. PICK f \in r.prompt.evidence : e.id = f.id  BY <2>2, <3>1
      <4> QED  BY <2>2, <2>4, <4>1 DEF EvidenceIsUnique
    <3>2. \A e \in r.prompt.evidence : e \in evidence /\ e.id \in r.evidence  BY <2>2
    <3> QED  BY <3>1, <3>2
  <2>7. RecordTellsThePrompt'
    <3> SUFFICES ASSUME NEW q \in Products, records'[q] # NoRecord
                 PROVE  LET x == records'[q] IN
                        /\ x.context = x.prompt.context
                        /\ \E s \in snapshots' : s.id = x.snapshot /\ s.id[2] = x.prompt.skills
                        /\ {e \in evidence' : e.id \in x.evidence} = x.prompt.evidence
                        /\ \A e \in x.prompt.evidence : e.product = q
      BY DEF RecordTellsThePrompt
    <3>1. CASE q = p
      <4>1. records'[q] = r /\ \A e \in r.prompt.evidence : e.product = q
        BY <1>3, <2>2, <2>3, <3>1 DEF p
      <4> QED  BY <2>2, <2>4, <2>6, <4>1
    <3>2. CASE q # p  BY <2>3, <2>4, <3>2 DEF RecordTellsThePrompt
    <3> QED  BY <3>1, <3>2
  <2>8. EvidenceIsTheInput'
    <3> SUFFICES ASSUME NEW q \in Products, records'[q] # NoRecord
                 PROVE  \E e \in records'[q].prompt.evidence :
                          e.id[1] = "release" /\ e.content = inputs'[q]
      BY DEF EvidenceIsTheInput
    <3>1. CASE q = p  BY <2>2, <2>3, <2>4, <3>1
    <3>2. CASE q # p  BY <2>3, <2>4, <3>2 DEF EvidenceIsTheInput
    <3> QED  BY <3>1, <3>2
  <2>9. Leave(w) /\ Unclaim(w) /\ faults' \in 0..MaxFaults
    BY <1>1, ProvenanceTypes DEF Abort
  <2> QED  BY <1>1, <2>3, <2>5, <2>7, <2>8, <2>9, Unclaimed, LeaveStep
<1> QED  BY <1>2, <1>3

LEMMA FailStep ==
  ASSUME ProvenanceInv, NEW w \in Workers, Fail(w)
  PROVE  ProvenanceInv'
<1>1. /\ Abort(w)
      /\ UNCHANGED <<tree, lockFile, snapshots, installed, edits, world, evidence, inputs, records>>
  BY DEF Fail
<1>2. faults' \in 0..MaxFaults
  BY ProvenanceTypes, ProvenanceAssumption DEF Fail
<1> QED  BY <1>1, <1>2, AbortStep

\* Nothing that a worker or a table holds is changed from outside.
LEMMA OutsideStep ==
  ASSUME ProvenanceInv, SkillsInv', UNCHANGED <<pin, snapshots, tables, task, faults>>,
         approved'  \in [Products -> 0..MaxContexts],
         release'   \in [Repositories -> Texts],
         changelog' \in [Repositories -> Changelogs \cup {NoChangelog, BlankChangelog}]
  PROVE  ProvenanceInv'
<1>1. UNCHANGED <<evidence, holder, inputs, records>>  BY DEF tables
<1>2. EvidenceIsUnique'  BY <1>1, ProvenanceTypes DEF EvidenceIsUnique
<1>3. RecordsKeepTheirRows' /\ RecordTellsThePrompt' /\ EvidenceIsTheInput'
  BY <1>1, <1>2, RecordsStay
<1>4. ProvenanceTypeOK'
  BY <1>1, ProvenanceTypes DEF ProvenanceTypeOK, SkillsInv
<1>5. ASSUME NEW w \in Workers  PROVE KeepsItsRows(w)'
  BY <1>1, ProvenanceTypes, OtherKeepsItsRows
<1> QED  BY <1>2, <1>3, <1>4, <1>5 DEF ProvenanceInv, TasksKeepTheirRows

LEMMA WorldStep ==
  ASSUME ProvenanceInv, World
  PROVE  ProvenanceInv'
<1>1. CASE Maintain /\ UNCHANGED <<world, tables, task, faults>>
  BY <1>1, MaintainStep, ProvenanceTypes, OutsideStep DEF world
<1>2. ASSUME UNCHANGED <<tree, lockFile, snapshots, installed, pin>>, Edit
      PROVE  SkillsInv'
  <2>1. edits' \in 0..MaxEdits  BY <1>2, ProvenanceTypes, SkillTypes, SkillsAssumption DEF Edit
  <2> QED  BY <1>2, <2>1, ProvenanceTypes, SkillTypes, PinsUnchanged
<1>3. CASE \E p \in Products : ApproveContext(p)
  <2>1. PICK p \in Products : ApproveContext(p)  BY <1>3
  <2>2. /\ UNCHANGED <<tree, lockFile, snapshots, installed, pin, release, changelog, tables, task, faults>>
        /\ Edit /\ approved[p] < MaxContexts /\ approved' = [approved EXCEPT ![p] = @ + 1]
    BY <2>1 DEF ApproveContext
  <2>3. approved' \in [Products -> 0..MaxContexts]
    BY <2>2, ProvenanceTypes, ProvenanceAssumption
  <2> QED  BY <1>2, <2>2, <2>3, ProvenanceTypes, OutsideStep
<1>4. CASE \E r \in Repositories, text \in Texts : EditRelease(r, text)
  <2>1. PICK r \in Repositories, text \in Texts : EditRelease(r, text)  BY <1>4
  <2>2. /\ UNCHANGED <<tree, lockFile, snapshots, installed, pin, approved, changelog, tables, task, faults>>
        /\ Edit /\ release' = [release EXCEPT ![r] = text]
    BY <2>1 DEF EditRelease
  <2> QED  BY <1>2, <2>2, ProvenanceTypes, OutsideStep
<1>5. CASE \E r \in Repositories, body \in Changelogs : MoveTag(r, body)
  <2>1. PICK r \in Repositories, body \in Changelogs : MoveTag(r, body)  BY <1>5
  <2>2. /\ UNCHANGED <<tree, lockFile, snapshots, installed, pin, approved, release, tables, task, faults>>
        /\ Edit /\ changelog' = [changelog EXCEPT ![r] = body]
    BY <2>1 DEF MoveTag
  <2> QED  BY <1>2, <2>2, ProvenanceTypes, OutsideStep
<1> QED  BY <1>1, <1>3, <1>4, <1>5 DEF World

LEMMA ProvenanceStart == ProvenanceInit => ProvenanceInv
<1> SUFFICES ASSUME ProvenanceInit PROVE ProvenanceInv  OBVIOUS
<1>1. SkillsInv  BY SkillsStart DEF ProvenanceInit
<1>2. ProvenanceTypeOK
  <2>1. approved \in [Products -> 0..MaxContexts]
    BY ProvenanceAssumption DEF ProvenanceInit
  <2>2. faults \in 0..MaxFaults  BY ProvenanceAssumption DEF ProvenanceInit
  <2> QED  BY <1>1, <2>1, <2>2, NoTaskRow DEF ProvenanceInit, ProvenanceTypeOK, SkillsInv
<1>3. \A w \in Workers : task[w] = NoTask  BY DEF ProvenanceInit
<1>4. TasksKeepTheirRows
  BY <1>3, NoTaskRow DEF TasksKeepTheirRows, KeepsItsRows
<1>5. EvidenceIsUnique /\ \A p \in Products : records[p] = NoRecord
  BY DEF ProvenanceInit, EvidenceIsUnique
<1>6. RecordsKeepTheirRows /\ RecordTellsThePrompt /\ EvidenceIsTheInput
  BY <1>5 DEF RecordsKeepTheirRows, RecordTellsThePrompt, EvidenceIsTheInput
<1> QED  BY <1>1, <1>2, <1>4, <1>5, <1>6 DEF ProvenanceInv

LEMMA ProvenanceStep == ProvenanceInv /\ [ProvenanceNext]_provenance => ProvenanceInv'
<1> SUFFICES ASSUME ProvenanceInv, [ProvenanceNext]_provenance PROVE ProvenanceInv'  OBVIOUS
<1>1. CASE UNCHANGED provenance
  <2>1. UNCHANGED <<skillVars, approved, release, changelog, tables, task, faults>>
    BY <1>1 DEF provenance, world
  <2> QED  BY <2>1, SkillsUnchanged, ProvenanceTypes, OutsideStep DEF skillVars
<1>2. ASSUME NEW w \in Workers, NEW p \in Products, Begin(w, p)  PROVE ProvenanceInv'
  BY <1>1, <1>2, BeginStep DEF Begin
<1>3. ASSUME NEW w \in Workers, Work(w)  PROVE ProvenanceInv'
  BY <1>3, PrepareStep, ReadReleaseStep, ClaimStep, LookUpStep, InsertStep,
     ReadChangelogStep, CompleteStep DEF Work
<1> QED  BY <1>1, <1>2, <1>3, FailStep, WorldStep DEF ProvenanceNext

THEOREM ProvenanceInvariant == ProvenanceSpec => []ProvenanceInv
<1> QED  BY ProvenanceStart, ProvenanceStep, PTL DEF ProvenanceSpec

\* Rows, claims and locals stay well formed through every interleaving.
THEOREM ProvenanceTypesHold == ProvenanceSpec => []ProvenanceTypeOK
<1>1. ProvenanceInv => ProvenanceTypeOK  BY DEF ProvenanceInv
<1> QED  BY <1>1, ProvenanceInvariant, PTL

\* The skills in a prompt are the ones that the run's lock describes.
THEOREM PromptsAreLocked == ProvenanceSpec => []LoadedIsLocked
<1>1. ProvenanceInv => LoadedIsLocked  BY DEF ProvenanceInv, SkillsInv
<1> QED  BY <1>1, ProvenanceInvariant, PTL

\* The row of a completed run tells what its model was given (release.go 197-221).
THEOREM RecordsTellTheirPrompts == ProvenanceSpec => []RecordTellsThePrompt
<1>1. ProvenanceInv => RecordTellsThePrompt  BY DEF ProvenanceInv
<1> QED  BY <1>1, ProvenanceInvariant, PTL

\* A completed run quotes the release that its product was first claimed for.
THEOREM EvidenceIsTheClaimedInput == ProvenanceSpec => []EvidenceIsTheInput
<1>1. ProvenanceInv => EvidenceIsTheInput  BY DEF ProvenanceInv
<1> QED  BY <1>1, ProvenanceInvariant, PTL
=============================================================================

--------------------------- MODULE SkillSnapshots ---------------------------
(***************************************************************************)
(* The pinned marketing skills: Loader.RequirePinned and what is loaded    *)
(* from the snapshot it returns (internal/skills/lock.go, snapshot.go),    *)
(* and Store.SyncSkillSnapshot (internal/state/skills.go), which records   *)
(* it.  A worker is one `workflow run`, `context draft` or `skills list`.  *)
(* It reads the lock and then the vendored tree file by file, while a      *)
(* maintainer may be replacing both; the only copy it trusts is its own.   *)
(*                                                                         *)
(* A manifest is a hash of the tree and stands for it: two manifests are   *)
(* equal when the trees are.                                               *)
(***************************************************************************)
EXTENDS Naturals, FiniteSets

CONSTANTS
  Workers,     \* processes that load skills at once
  Files,       \* paths of the vendored tree
  SkillFiles,  \* the SKILL.md of each skill
  Contents,    \* what a path may hold; one of them may stand for no file
  Versions,    \* the versions a front matter may state
  VersionOf,   \* the version each content states, were it a SKILL.md
  Commits,     \* upstream commits
  Origins,     \* repository, upstream manifest and version that a lock may name
  Locks,       \* what skills.lock.yaml may say
  MaxEdits,    \* bound on what changes outside the program
  NoLock, NoContent, NoVersion

Trees       == [Files -> Contents]
Inventories == [SkillFiles -> Versions]
LockFiles   == [commit : Commits, manifest : Trees, selected : Inventories, origin : Origins]

ASSUME SkillsAssumption ==
  /\ SkillFiles \subseteq Files
  /\ VersionOf \in [Contents -> Versions]
  /\ Locks \subseteq LockFiles
  /\ MaxEdits \in Nat
  /\ NoLock \notin Locks
  /\ NoContent \notin Contents
  /\ NoVersion \notin Versions

VARIABLES
  tree,       \* third_party/marketingskills
  lockFile,   \* skills.lock.yaml
  snapshots,  \* skill_snapshots, each row with its skill_snapshot_versions
  installed,  \* the current_version column of skills
  pin,        \* the locals of the workers inside RequirePinned and after it
  edits       \* how often something outside was changed

skillVars == <<tree, lockFile, snapshots, installed, pin, edits>>
-----------------------------------------------------------------------------
NotRead  == [f \in Files |-> NoContent]
Copies   == [Files -> Contents \cup {NoContent}]
Unpinned == [pc |-> "none", lock |-> NoLock, copy |-> NotRead, bundle |-> NotRead]
Pins     == [pc : {"none", "lock", "capture", "sync", "ready"},
             lock : Locks \cup {NoLock}, copy : Copies, bundle : Copies]

\* snapshotID: the commit of the lock and the manifest of the bytes that were read.
SnapshotIds == Commits \X Trees
Snapshots   == [id : SnapshotIds, origin : Origins, selected : Inventories,
                skills : Inventories]

\* repositorySnapshot.index: the name and version of every skill in a tree.
Index(t) == [f \in SkillFiles |-> VersionOf[t[f]]]

\* NewSnapshotMetadata and encodeSkillSnapshotVersions for a lock and a copy.
Metadata(lock, copy) ==
  [id |-> <<lock.commit, copy>>, origin |-> lock.origin, selected |-> lock.selected,
   skills |-> Index(copy)]

SkillsInit ==
  /\ lockFile  \in Locks
  /\ tree      \in Trees  \* an update may be under way
  /\ snapshots = {}
  /\ installed = [f \in SkillFiles |-> NoVersion]
  /\ pin       = [w \in Workers |-> Unpinned]
  /\ edits     = 0
-----------------------------------------------------------------------------
Pinning(w, step) == pin[w].pc = step
PinTo(w, step)   == pin' = [pin EXCEPT ![w].pc = step]
Unpin(w)         == pin' = [pin EXCEPT ![w] = Unpinned]

StartPin(w) ==
  /\ Pinning(w, "none")
  /\ PinTo(w, "lock")
  /\ UNCHANGED <<tree, lockFile, snapshots, installed, edits>>

\* ReadLock; validateLock accepts every member of Locks.
ReadLock(w) ==
  /\ Pinning(w, "lock")
  /\ pin' = [pin EXCEPT ![w].pc = "capture", ![w].lock = lockFile]
  /\ UNCHANGED <<tree, lockFile, snapshots, installed, edits>>

\* captureRepository reads one entry, as it is at the moment.
CaptureEntry(w, f) ==
  /\ Pinning(w, "capture")
  /\ pin[w].copy[f] = NoContent
  /\ pin' = [pin EXCEPT ![w].copy[f] = tree[f]]
  /\ UNCHANGED <<tree, lockFile, snapshots, installed, edits>>

\* Status.PinValid.
PinValid(lock, copy) == Index(copy) = lock.selected /\ copy = lock.manifest

\* Faulty: Loader.Load in place of VerifiedSnapshot.Load opens the paths again.
LoadFromDisk(w) == tree

\* VerifiedSnapshot.Load, from the copy that was verified.
Load(w) == pin[w].copy

\* inspect and RequirePinned, on the private copy, and what is loaded from it.
Verify(w) ==
  /\ Pinning(w, "capture")
  /\ \A f \in Files : pin[w].copy[f] # NoContent
  /\ IF PinValid(pin[w].lock, pin[w].copy)
     THEN pin' = [pin EXCEPT ![w].pc = "sync", ![w].bundle = Load(w)]
     ELSE Unpin(w)
  /\ UNCHANGED <<tree, lockFile, snapshots, installed, edits>>

\* One transaction.  A new row takes the current versions with it; a row with this
\* id that says the same is left alone, and one that does not is a conflict.
SyncSkillSnapshot(w) ==
  LET row  == Metadata(pin[w].lock, pin[w].copy)
      same == {s \in snapshots : s.id = row.id}
  IN
  /\ Pinning(w, "sync")
  /\ CASE same = {}    -> /\ snapshots' = snapshots \cup {row}
                          /\ installed' = row.skills
                          /\ PinTo(w, "ready")
       [] same = {row} -> PinTo(w, "ready") /\ UNCHANGED <<snapshots, installed>>
       [] OTHER        -> Unpin(w) /\ UNCHANGED <<snapshots, installed>>
  /\ UNCHANGED <<tree, lockFile, edits>>

\* An interrupt, a crash or an error, such as that of readSnapshotEntry for an entry
\* that was replaced while it was read; or the end of what the worker was there for.
Release(w) ==
  /\ pin[w].pc # "none"
  /\ Unpin(w)
  /\ UNCHANGED <<tree, lockFile, snapshots, installed, edits>>
-----------------------------------------------------------------------------
(* The maintainer (docs/skills.md 118-145), or anybody else: files one by  *)
(* one, in any order with the lock, which is replaced as a whole.          *)

Edit == edits < MaxEdits /\ edits' = edits + 1

EditFile(f, x) ==
  /\ tree[f] # x
  /\ tree' = [tree EXCEPT ![f] = x]
  /\ Edit
  /\ UNCHANGED <<lockFile, snapshots, installed, pin>>

WriteLock(lock) ==
  /\ lockFile # lock
  /\ lockFile' = lock
  /\ Edit
  /\ UNCHANGED <<tree, snapshots, installed, pin>>
-----------------------------------------------------------------------------
PinStep(w) ==
  \/ ReadLock(w)
  \/ \E f \in Files : CaptureEntry(w, f)
  \/ Verify(w) \/ SyncSkillSnapshot(w)

Maintain ==
  \/ \E f \in Files, x \in Contents : EditFile(f, x)
  \/ \E lock \in Locks : WriteLock(lock)

SkillsNext == (\E w \in Workers : StartPin(w) \/ PinStep(w) \/ Release(w)) \/ Maintain

SkillsSpec == SkillsInit /\ [][SkillsNext]_skillVars
-----------------------------------------------------------------------------
SkillsTypeOK ==
  /\ tree      \in Trees
  /\ lockFile  \in Locks
  /\ snapshots \subseteq Snapshots
  /\ installed \in [SkillFiles -> Versions \cup {NoVersion}]
  /\ pin       \in [Workers -> Pins]
  /\ edits     \in 0..MaxEdits

\* What a worker loads, and names in the row it records, is byte for byte the tree
\* that one version of the lock describes, with the versions that lock selects: never
\* a mixture of two distributions and never what the disk holds by now, though lock
\* and files are read at different moments (snapshot.go 39-41, docs/skills.md 60-70).
LoadedIsLocked ==
  \A w \in Workers : pin[w].pc \in {"sync", "ready"} =>
    /\ pin[w].bundle = pin[w].lock.manifest
    /\ Index(pin[w].bundle) = pin[w].lock.selected

\* What a worker goes on with was read under a lock, and is recorded once it is ready.
PinsAreRecorded ==
  \A w \in Workers :
    /\ pin[w].pc \in {"capture", "sync", "ready"} => pin[w].lock \in Locks
    /\ pin[w].pc \in {"sync", "ready"} => pin[w].bundle = pin[w].copy /\ pin[w].copy \in Trees
    /\ pin[w].pc = "ready" => Metadata(pin[w].lock, pin[w].copy) \in snapshots

\* The inductive invariant of this module, in the theorems of ReleaseProvenanceProofs.
SkillsInv == SkillsTypeOK /\ LoadedIsLocked /\ PinsAreRecorded
=============================================================================

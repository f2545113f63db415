SPECIFICATION ProvenanceSpec
SYMMETRY Symmetry
CONSTANTS
  skill = skill
  ref = ref
  old = old
  new = new
  v1 = v1
  v2 = v2
  commit1 = commit1
  commit2 = commit2
  origin1 = origin1
  origin2 = origin2
  p1 = p1
  p2 = p2
  r1 = r1
  Workers = {w1, w2}
  Files = {skill, ref}
  SkillFiles = {skill}
  Contents = {old, new}
  Versions = {v1, v2}
  VersionOf <- MCVersionOf
  Commits = {commit1, commit2}
  Origins = {origin1, origin2}
  Locks <- MCLocks
  MaxEdits = 1
  Products = {p1, p2}
  Repositories = {r1}
  RepositoryOf <- MCRepositoryOf
  Texts = {t1, t2}
  Changelogs = {g1, g2}
  MaxContexts = 2
  MaxFaults = 1
  NoLock = NoLock
  NoContent = NoContent
  NoVersion = NoVersion
  NoProduct = NoProduct
  NoText = NoText
  NoChangelog = NoChangelog
  BlankChangelog = BlankChangelog
  NoWorker = NoWorker
  NoRecord = NoRecord
INVARIANTS
  LoadedIsLocked
  RecordTellsThePrompt
  EvidenceIsTheInput

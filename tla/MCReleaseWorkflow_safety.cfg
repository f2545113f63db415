SPECIFICATION WorkflowSpec
CONSTANTS
  Scopes = {s1}
  Keys = {k1}
  Inputs = {i1, i2}
  Runs = {r1, r2, r3}
  Metas = {m1, m2}
  Requests = {r1, r2, r3}
  Contents = {c1}
  Issues = {1, 2, 3}
  Leases = {1}
  Overlaps = {FALSE}
  MaxTime = 2
  Workers = {w1, w2}
  LateAccept = TRUE
  MaxFaults = 2
  NoRun = NoRun
  NoEvent = NoEvent
  NoMeta = NoMeta
  NoRequest = NoRequest
  NoIssue = NoIssue
  NoInput = NoInput
  NoKey = NoKey
SYMMETRY ReleaseSymmetry
INVARIANTS
  LiveWorkerHoldsClaim
  IssueBacksApproval
  RecoveryKeepsMetadata
  RunningHoldsClaim
PROPERTIES
  DraftsGeneratedOnce

SPECIFICATION WorkflowSpec
CONSTANTS
  Scopes = {s1}
  Keys = {k1}
  Inputs = {i1}
  Runs = {r1, r2, r3}
  Metas = {m1}
  Requests = {r1, r2, r3}
  Contents = {c1}
  Issues = {1, 2}
  Leases = {1}
  Overlaps = {FALSE}
  MaxTime = 1
  Workers = {w1}
  LateAccept = TRUE
  MaxFaults = 1
  NoRun = NoRun
  NoEvent = NoEvent
  NoMeta = NoMeta
  NoRequest = NoRequest
  NoIssue = NoIssue
  NoInput = NoInput
  NoKey = NoKey
INVARIANT
  OneIssuePerEvent

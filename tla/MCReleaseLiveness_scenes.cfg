SPECIFICATION FairSceneSpec
CONSTANTS
  Scopes = {s1}
  Keys = {1, 2}
  Inputs = {1, 2}
  Runs = {1, 2, 3, 4}
  Metas = {m1}
  Requests = {1, 2, 3, 4}
  Contents = {1, 2}
  Issues = {1, 2, 3}
  Leases = {1}
  Overlaps = {FALSE}
  MaxTime = 1
  Workers = {w1, w2}
  LateAccept = FALSE
  MaxFaults = 2
  NoRun = NoRun
  NoEvent = NoEvent
  NoMeta = NoMeta
  NoRequest = NoRequest
  NoIssue = NoIssue
  NoInput = NoInput
  NoKey = NoKey
INVARIANT
  OneIssuePerEvent
PROPERTIES
  LatestReleaseSettles
  ClaimedRunEnds

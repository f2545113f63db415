SPECIFICATION Spec
CONSTANTS
  Scopes = {s1}
  Keys = {k1, k2}
  Inputs = {i1, i2}
  Runs = {r1, r2, r3}
  Metas = {m1}
  Requests = {q1}
  Contents = {c1}
  Issues = {g1}
  Leases = {1}
  Overlaps = {TRUE, FALSE}
  MaxTime = 2
  NoRun = NoRun
  NoEvent = NoEvent
  NoMeta = NoMeta
  NoRequest = NoRequest
  NoIssue = NoIssue
  NoInput = NoInput
  NoKey = NoKey
SYMMETRY RunSymmetry
INVARIANTS
  TypeOK
  AttemptsInOrder
  AuditTellsTheRun
  ClaimHolderOwnsEvent
  CompletedByOneRun
  StagedTogether
  AbandonedEventClaimable
PROPERTIES
  LeaseIsExclusive
  EndedRunsAreFinal
  ImplementsLedger

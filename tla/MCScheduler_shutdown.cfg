SPECIFICATION FairSpec
CONSTANTS
  Workflows = {1}
  Cadences = {c1, c2, bad}
  BadCadences = {bad}
  Callbacks = {b1, b2}
  MaxRetries = 1
  ConfigKill = TRUE
  MaxFaults = 1
  NoWorkflow = NoWorkflow
  NoCadence = NoCadence
INVARIANTS
  TypeOK
  NothingRunsAfterReturn
PROPERTIES
  KillSwitchQuiets
  ShutdownEnds

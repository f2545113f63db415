SPECIFICATION FairSpec
CONSTANTS
  Workflows = {1, 2}
  Cadences = {c1, c2}
  BadCadences = {}
  Callbacks = {b1}
  MaxRetries = 0
  ConfigKill = FALSE
  MaxFaults = 1
  NoWorkflow = NoWorkflow
  NoCadence = NoCadence
PROPERTIES
  ReconcileIsExact
  ClockFollowsDefinitions

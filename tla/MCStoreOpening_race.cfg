SPECIFICATION FairOpeningSpec
CONSTANTS
  a = a
  b = b
  c = c
  Processes = {a, b, c}
  Known <- MCKnown
  Migrations = 3
  Plain = {3}
  MaxFaults = 2
  NoProcess = NoProcess
INVARIANTS
  SchemaIsRecorded
  OpenedStoreIsComplete
PROPERTY
  StoreOpens

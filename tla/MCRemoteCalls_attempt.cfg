SPECIFICATION Spec
CONSTANTS
  ModelRetries = 1
  MaxRepairAttempts = 1
  GitHubRetries = 2
  Estimates = {1, 3}
  Charges = {1, 2, 3}
  MaxCharge = 3
  MaxCost = 2
  MaxCostUSD = 3
  PageSize = 2
  MaxPages = 3
  MaxIssues = 7
CHECK_DEADLOCK FALSE
INVARIANTS
  TypeOK
  AbsenceIsReal
  IssueIsUnique
  SpendIsBounded

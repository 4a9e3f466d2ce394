SPECIFICATION Spec
CONSTANTS
  None = None
  Users = {owner, ann}
  Creator = owner
  Roles = {"TEAM_LEADER", "TEAM_MEMBER"}
  Calls = {c1, c2}
  DailyFreeQuota = 1
  MaxBranches = 2
  MaxGrants = 1
  MaxDay = 1
  MaxRequests = 6
SYMMETRY Symmetry
CHECK_DEADLOCK FALSE
INVARIANTS
  OneLiveBranch
  BalanceIsKept
PROPERTIES
  AnsweredOnce
  QuotaImplemented

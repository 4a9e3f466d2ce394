SPECIFICATION Spec
CONSTANTS
  None = None
  Users = {owner, ann}
  Creator = owner
  Roles = {"TEAM_LEADER", "TECH_LEADER", "TEAM_MEMBER"}
  Calls = {c1, c2}
  MaxRequests = 3
SYMMETRY Symmetry
CHECK_DEADLOCK FALSE
INVARIANTS
  CompletedHasNoOpenApplications
  SomebodyOperates
  RemovalTakesWhatWasSeen
PROPERTIES
  DecisionsAreFinal
  PurgedOnlyAfterRetention

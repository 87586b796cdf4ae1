CONSTANTS
  r1 = r1
  MaxCoprs = 2
  Repos = {r1}
  MaxActions = 3
  SameSecond = FALSE
  MaxBuilds = 1
  MaxFaults = 2

SPECIFICATION FairSpec

CHECK_DEADLOCK FALSE

INVARIANTS
  NothingNewDeleted
  QuietLeavesNothing
PROPERTIES
  ActionsSettle

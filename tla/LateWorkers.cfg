CONSTANTS
  t1 = t1
  t2 = t2
  Tasks = {t1}
  Procs = {p1, p2}
  NoTask = NoTask
  NoProc = NoProc
  Reporter = "manager"
  Punctual = FALSE
  MaxWorkers = 1
  Group <- OwnGroups
  GroupLimit = 1
  MaxDeaths = 0
  MaxRestarts = 2
  MaxOutages = 1

SPECIFICATION FairSpec
INVARIANTS
  AllocatedIsTracked
PROPERTIES
  OrphansCollected
  SlotsReclaimed

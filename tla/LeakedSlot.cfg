CONSTANTS
  t1 = t1
  t2 = t2
  Tasks = {t1}
  Procs = {p1, p2}
  NoTask = NoTask
  NoProc = NoProc
  Reporter = "manager"
  Punctual = FALSE
  MaxWorkers = 1
  Group <- OwnGroups
  GroupLimit = 1
  MaxDeaths = 1
  MaxRestarts = 0
  MaxOutages = 0

SPECIFICATION FairSpec
PROPERTIES
  SlotsReclaimed

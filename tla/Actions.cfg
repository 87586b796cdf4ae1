CONSTANTS
  t1 = t1
  t2 = t2
  Tasks = {t1, t2}
  Procs = {p1, p2}
  NoTask = NoTask
  NoProc = NoProc
  Reporter = "manager"
  Punctual = TRUE
  MaxWorkers = 1
  Group <- OwnGroups
  GroupLimit = 1
  MaxDeaths = 2
  MaxRestarts = 2
  MaxOutages = 0

SPECIFICATION FairSpec
INVARIANTS
  TypeOK
  OneWorkerPerTask
  ProcessCap
PROPERTIES
  ImplementsPool
  EveryTaskSettles

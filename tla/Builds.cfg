CONSTANTS
  t1 = t1
  t2 = t2
  Tasks = {t1, t2}
  Procs = {p1, p2}
  NoTask = NoTask
  NoProc = NoProc
  Reporter = "worker"
  Punctual = TRUE
  MaxWorkers = 2
  Group <- OneGroup
  GroupLimit = 1
  MaxDeaths = 1
  MaxRestarts = 1
  MaxOutages = 1

SPECIFICATION Spec
SYMMETRY Symmetry
INVARIANTS
  LimitRespected
  CancelReachesWorker
PROPERTIES
  NoWorkerForSettled

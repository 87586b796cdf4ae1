CONSTANTS
  p1 = p1
  p2 = p2
  p3 = p3
  Procs = {p1, p2, p3}
  NoProc = NoProc
  MaxDeaths = 1
  MaxAborts = 1
  MaxLosses = 0

SPECIFICATION FairSpec

CHECK_DEADLOCK FALSE

INVARIANTS
  MutualExclusion
  PromptHandover
PROPERTIES
  ImplementsFairLock
  EveryCallerServed

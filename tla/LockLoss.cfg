CONSTANTS
  p1 = p1
  p2 = p2
  p3 = p3
  Procs = {p1, p2, p3}
  NoProc = NoProc
  MaxDeaths = 0
  MaxAborts = 0
  MaxLosses = 1

SPECIFICATION FairSpec

PROPERTIES
  ServedAfterLoss

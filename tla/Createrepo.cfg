CONSTANTS
  p1 = p1
  p2 = p2
  p3 = p3
  adding = adding
  deleting = deleting
  fullRun = fullRun
  otherAttr = otherAttr
  b1 = b1
  b2 = b2
  b3 = b3
  Procs = {p1, p2, p3}
  Requests = {adding, deleting, fullRun, otherAttr}
  NoRequest = NoRequest
  Builds = {b1, b2, b3}
  Add <- AddOf
  Delete <- DeleteOf
  Stat <- NoStat
  Attr <- AttrOf
  MaxBatch = 2
  PidReuse = FALSE
  MaxDeaths = 1
  MaxFailures = 1

SPECIFICATION FairSpec

CHECK_DEADLOCK FALSE

INVARIANTS
  TypeOK
  
  NoDanglingPackage
  OwnKeyNotListed
  NoKeyLeft
PROPERTIES
  EveryRequestEnds
  

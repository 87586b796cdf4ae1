CONSTANTS
  p1 = p1
  p2 = p2
  p3 = p3
  adding = adding
  deleting = deleting
  fullRun = fullRun
  otherAttr = otherAttr
  b1 = b1
  b2 = b2
  b3 = b3
  Procs = {p1, p2}
  Requests = {adding, fullRun}
  NoRequest = NoRequest
  Builds = {b1, b2, b3}
  Add <- AddOf
  Delete <- DeleteOf
  Stat <- FullStat
  Attr <- AttrOf
  MaxBatch = 2
  PidReuse = FALSE
  MaxDeaths = 0
  MaxFailures = 0

SPECIFICATION Spec

CHECK_DEADLOCK FALSE

INVARIANT
  ResignedIsPublished

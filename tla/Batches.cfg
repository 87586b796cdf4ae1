CONSTANTS
  b1 = b1
  b2 = b2
  b3 = b3
  BuildIds = {b1, b2, b3}
  MaxBatches = 4
  MaxRevivals = 1

SPECIFICATION FairSpec

CHECK_DEADLOCK FALSE

INVARIANTS
  ParentsFirst
PROPERTIES
  WaitsOnlyBehindEmpty

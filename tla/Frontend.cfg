CONSTANTS
  b1 = b1
  rawhide = rawhide
  f42 = f42
  BuildIds = {b1}
  Chroots = {rawhide, f42}
  Rolling = {rawhide}
  Altered = {rawhide}
  Src = Src
  MaxFaults = 1

SPECIFICATION FairSpec

CHECK_DEADLOCK FALSE

INVARIANTS
  BuiltFromImported
  
PROPERTIES
  
  NoUnexpectedRemoval
  BuildsEnd
  

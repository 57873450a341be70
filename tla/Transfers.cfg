CONSTANTS
  t1 = t1  t2 = t2  t3 = t3  t4 = t4  t5 = t5  t6 = t6  t7 = t7  a = a  b = b
  Transfers = {t1, t2, t3, t4, t5, t6, t7}
  Direction <- MCDirection
  Bytes <- MCBytes
  Declared <- MCDeclared
  Values <- MCValues
  Hole = Hole
  Chunks <- MCChunks
  Contents <- MCContents
  Nobody = Nobody
  Mixes <- MCMixes
  Edited = {t4, t5}
  MaxOpen = 2  MaxEdits = 1  MaxCrashes = 1  MaxFaults = 1
SPECIFICATION Spec
CONSTRAINT TwoAccidents
INVARIANT OpenWithinLimit
INVARIANT AppliedIsCommitted
INVARIANT LostBeginHoldsNoSlot
INVARIANT AckedStays
CHECK_DEADLOCK FALSE

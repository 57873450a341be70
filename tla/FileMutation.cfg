SPECIFICATION Spec
CONSTANTS
  p1 = p1
  p2 = p2
  a = a
  b = b
  move = move
  write = write
  copy = copy
  delete = delete
  mkdir = mkdir
  structured = structured
  extract = extract
  import = import
  Absent = Absent
  Dir = Dir
  Nobody = Nobody
  Free = Free
  Reconciler = Reconciler
  Paths <- MCPaths
  Contents <- MCContents
  Ops <- MCOps
  Kind <- MCKind
  Src <- MCSrc
  Dst <- MCDst
  Expected <- MCExpected
  New <- MCNew
  Slot <- MCSlot
  InitialData <- MCInitialData
  Mixes <- MCMixes
  MaxEdits = 1
  MaxCrashes = 1
  MaxFaults = 1
  MaxReconciles = 1
CONSTRAINT TwoAccidents
INVARIANT NoCircularWait
INVARIANT FailureLeavesNothing
INVARIANT ReturnedIsRecorded
PROPERTY KeepsPromise
CHECK_DEADLOCK FALSE

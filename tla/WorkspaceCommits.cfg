SPECIFICATION Spec
CONSTANTS
  p1 = p1
  p2 = p2
  o1 = o1
  o2 = o2
  o3 = o3
  o4 = o4
  a = a
  b = b
  Absent = Absent
  Free = Free
  Reconciler = Reconciler
  Paths <- MCPaths
  Contents <- MCContentsTwo
  Ops = {o1, o2, o3, o4}
  Kind <- MCKind
  Mixes <- MCMixes
  InitialWs <- MCInitialWs
  MaxEdits = 1
  MaxCrashes = 1
  MaxFaults = 2
CONSTRAINT TwoAccidents
SYMMETRY SamePlans
INVARIANT NoOverlappingUnsettled
INVARIANT CrashesAloneRecover
INVARIANT SettledAuditAgrees
PROPERTY MutationsAreJournaled
CHECK_DEADLOCK FALSE

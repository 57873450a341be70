SPECIFICATION LiveSpec
CONSTANTS
  p1 = p1
  p2 = p2
  o1 = o1
  o2 = o2
  o3 = o3
  o4 = o4
  a = a
  b = b
  Absent = Absent
  Free = Free
  Reconciler = Reconciler
  Paths <- MCPaths
  Contents <- MCContentsTwo
  Ops = {o1, o2}
  Kind <- PlanAndSandbox
  Mixes = {{o1, o2}}
  InitialWs <- MCInitialWs
  MaxEdits = 0
  MaxCrashes = 1
  MaxFaults = 1
PROPERTY EventuallySettled
CHECK_DEADLOCK FALSE

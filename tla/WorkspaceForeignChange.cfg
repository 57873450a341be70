SPECIFICATION Spec
CONSTANTS
  p1 = p1
  p2 = p2
  o1 = o1
  o2 = o2
  o3 = o3
  o4 = o4
  a = a
  b = b
  Absent = Absent
  Free = Free
  Reconciler = Reconciler
  Paths <- MCPaths
  Contents <- MCContents
  Ops = {o1}
  Kind <- Sandbox
  Mixes = {{o1}}
  InitialWs <- MCInitialWs
  MaxEdits = 1
  MaxCrashes = 0
  MaxFaults = 1
PROPERTY ThirdPartyChangesKept
CHECK_DEADLOCK FALSE

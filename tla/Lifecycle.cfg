SPECIFICATION LiveSpec
CONSTANTS
  o1 = o1
  o2 = o2
  o3 = o3
  o4 = o4
  u1 = u1
  u2 = u2
  Server = Server
  Nobody = Nobody
  Ops = {o1, o2, o3, o4}
  Tier <- AllTiers
  Approvers <- MCApprovers
  StopTargets = {o1, o2, o4}
  Mixes <- MCMixes
  MaxJobs = 1
  MaxPending = 1
  MaxCrashes = 1
  MaxFaults = 1
INVARIANT StartedOnce
INVARIANT CancelledMeansStopped
 
PROPERTY SlotsReleased
CHECK_DEADLOCK FALSE

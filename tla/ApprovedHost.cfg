SPECIFICATION LiveSpec
CONSTANTS
    h1 = h1
    h2 = h2
    None = None
    Ops <- MCOps
    MaxFaults = 1
INVARIANT LatchHolds
INVARIANT ChildRunsLatched
PROPERTY AdmittedWhenSettled
PROPERTY LatchResolves
CONSTRAINT InOrder
CHECK_DEADLOCK FALSE

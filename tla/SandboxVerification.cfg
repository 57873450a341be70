SPECIFICATION Spec
CONSTANTS
    s1 = s1
    s2 = s2
    l1 = l1
    b1 = b1
    b2 = b2
    None = None
    Starters <- MCStarters
    Forced <- MCForced
    Launches <- MCLaunches
    Backends <- MCBackends
    Casts <- MCCasts
    Installed = b1
    Ttl = 0
    Cooldown = 1
    MaxClock = 1
    MaxFaults = 1
INVARIANT ReadBackSound
INVARIANT VerifiedMeansProbed
PROPERTY ChildOnStandingMarker
PROPERTY AttemptsApart
CHECK_DEADLOCK FALSE

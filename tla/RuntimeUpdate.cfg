SPECIFICATION LiveUpdateSpec
CONSTANTS
    MaxRaises = 2
    MaxKills = 2
    MaxVisits = 2
    MaxEdits = 2
INVARIANT StatusTellsRuntime
INVARIANT BindingFollowsRuntime
PROPERTY RetiredOnlyIdle
PROPERTY ServiceComesBack
CHECK_DEADLOCK FALSE

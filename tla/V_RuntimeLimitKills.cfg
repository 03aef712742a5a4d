CONSTANTS
    LastPhase = 2
    MaxRuntime = 3
    IdleLimit = 2
    Grace = 1
    MaxLines = 3
    Horizon = 8
SPECIFICATION Spec
CHECK_DEADLOCK FALSE
INVARIANT RuntimeLimitKills

CONSTANTS
    Streams = {s1}
    MaxLogs = 3
SPECIFICATION Spec
CHECK_DEADLOCK FALSE
INVARIANT EveryLineStreamed

\* Two clients, three log lines.
CONSTANTS
    Streams = {s1, s2}
    MaxLogs = 3
SPECIFICATION FairSpec
CHECK_DEADLOCK FALSE
INVARIANTS
    TypeOK
    SentInOrder
    LateLinesOnly
PROPERTIES
    StreamEnds

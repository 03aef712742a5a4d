\* Both limits on, every host, three lines of any kind.
CONSTANTS
    LastPhase = 2
    MaxRuntime = 3
    IdleLimit = 2
    Grace = 1
    MaxLines = 3
    Horizon = 8
SPECIFICATION FairSpec
CHECK_DEADLOCK FALSE
INVARIANTS
    TypeOK
    OverdueIsKilled
    AnswerSound
PROPERTIES
    ContractSpec
    Answers

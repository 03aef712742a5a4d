\* One job, two requests at once, two failing statements, a crash.
CONSTANTS
    Jobs = {j1}
    Users = {u1}
    Handlers = {h1, h2}
    NoJob = NoJob
    NoUser = NoUser
    LastPhase = 2
    MaxFaults = 2
    MaxCrashes = 1
SPECIFICATION Spec
SYMMETRY RequestSymmetry
CHECK_DEADLOCK FALSE
INVARIANTS
    TypeOK
    EarlyEndMeansDeleted
    DoneRowComplete
    RowBehindMemory
    RowMatchesMemory
    LiveRowHasTask
    ForgottenRunIsStopping
    VerdictNeverRevised
PROPERTIES
    ContractSpec
    TerminalRowFinal

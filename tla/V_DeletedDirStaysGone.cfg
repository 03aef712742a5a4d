CONSTANTS
    Jobs = {j1}
    Users = {u1}
    Handlers = {h1}
    NoJob = NoJob
    NoUser = NoUser
    LastPhase = 1
    MaxFaults = 0
    MaxCrashes = 0
SPECIFICATION Spec
CHECK_DEADLOCK FALSE
INVARIANT DeletedDirStaysGone

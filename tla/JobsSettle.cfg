\* One job, two requests at once, a crash, no failing statement.
CONSTANTS
    Jobs = {j1}
    Users = {u1}
    Handlers = {h1, h2}
    NoJob = NoJob
    NoUser = NoUser
    LastPhase = 2
    MaxFaults = 0
    MaxCrashes = 1
SPECIFICATION FairSpec
CHECK_DEADLOCK FALSE
PROPERTIES
    Settles
    CancelWins

\* Two users, two requests at once, a key of each user and one from before keys
\* had owners, a field of the connection that is set or empty, crashes at any time.
CONSTANTS
    Users = {u1, u2}
    Handlers = {h1, h2}
    Texts = {t1}
    tail = tail
    Tails = {tail}
    Tail <- SameTail
    Fields = {model}
    Values = {v1}
    Keep = Keep
    Clear = Clear
    NoUser = NoUser
    NoKey = NoKey
    NoTail = NoTail
    NoValue = NoValue
    NoStamp = NoStamp
    Stale = Stale
    Untested = Untested
SPECIFICATION Spec
SYMMETRY LlmSymmetry
CHECK_DEADLOCK FALSE
INVARIANTS
    TypeOK
    OwnerSavedKey
    VerifiedWasTested
    DeletedKeyGone
PROPERTIES
    RunUsesOwnKey

\* Two requests at once; two addresses, registered, removed and registered again.
CONSTANTS
    Handlers = {h1, h2}
    Addresses = {a1, a2}
    Passwords = {p1, p2}
    NoUser = NoUser
    NoPassword = NoPassword
    NoEmail = NoEmail
    MaxAccounts = 2
    MaxTokens = 3
SPECIFICATION Spec
SYMMETRY AccountSymmetry
CHECK_DEADLOCK FALSE
INVARIANTS
    TypeOK
    OneAccountPerAddress
PROPERTIES
    ContractSpec
    SessionEarned
    ChangeEarned
    OwnSession

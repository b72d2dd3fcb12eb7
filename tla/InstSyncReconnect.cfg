SPECIFICATION FairSpec
CONSTANTS
    Clients = {c1, c2}
    Editors = {c1}
    Flaky = {c1}
    MaxConns = 2
    MaxUpdates = 1
    MaxLambdas = 2
    Temporary = FALSE
    Faults = {}
INVARIANTS
    TypeOK
    NoLostUpdate
    EditKept
PROPERTIES
    ImplementsSharedInst
    Converges
CHECK_DEADLOCK FALSE

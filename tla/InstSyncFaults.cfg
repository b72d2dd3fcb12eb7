SPECIFICATION Spec
CONSTANTS
    Clients = {c1, c2, c3}
    Editors = {c1}
    Flaky = {c2, c3}
    MaxConns = 1
    MaxUpdates = 1
    MaxLambdas = 2
    Temporary = FALSE
    Faults = {"messenger", "rateLimit", "crash", "refuse"}
SYMMETRY Symmetry
INVARIANTS
    NoLostUpdate
    EditKept
PROPERTIES
    ImplementsSharedInst
CHECK_DEADLOCK FALSE

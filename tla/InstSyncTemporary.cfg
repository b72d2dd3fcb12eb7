SPECIFICATION Spec
CONSTANTS
    Clients = {c1, c2}
    Editors = {c1, c2}
    Flaky = {c1}
    MaxConns = 1
    MaxUpdates = 1
    MaxLambdas = 2
    Temporary = TRUE
    Faults = {"unwatch", "refuse"}
INVARIANTS
    NoLostUpdate
    EditKept
CHECK_DEADLOCK FALSE

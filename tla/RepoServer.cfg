SPECIFICATION Spec
CONSTANTS
    Devices = {d1, d2}
    MaxAtoms = 1
    MaxCommits = 2
    MaxEvents = 5
    MaxCrashes = 1
    Repos = {r1, r2}
INVARIANTS
    TypeOK
    AnsweredIsDurable
    SeenByWatchers
SYMMETRY Symmetry
CHECK_DEADLOCK FALSE

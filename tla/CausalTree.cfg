SPECIFICATION Spec
CONSTANTS
    N = 3
    MaxReorderBufferSize = 2
    MaxRepeats = 1
    MaxLocal = 1
    MaxRemovals = 1
    Conflicts = TRUE
INVARIANTS
    TypeOK
    ListsAreLinked
    TraversalUnlessRepeated
    NothingStranded
    AcceptedHere
    OneCertificate
PROPERTIES
    RemovesSubtrees
CHECK_DEADLOCK FALSE

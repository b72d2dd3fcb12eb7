SPECIFICATION Spec
CONSTANTS
    Writers = {w1, w2, w3, w4, w5, w6}
    Legacy = {old}
    Size <- MCSize
    Heavy = {w1}
    MaxSize = 8
    MergeUpdatesOnMaxSizeExceeded = TRUE
    MaxClears = 2
INVARIANTS
    TypeOK
    AccountedSizeFits
PROPERTIES
    ImplementsUpdatesStore
CHECK_DEADLOCK FALSE

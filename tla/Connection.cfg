SPECIFICATION Spec
CONSTANTS
    MaxLosses = 3
    MaxToggles = 4
INVARIANTS
    TypeOK
    ConnectedMeansLoggedIn
    NeverGivesUp
PROPERTIES
    ReconnectsWhenSettled
CHECK_DEADLOCK FALSE

SPECIFICATION Spec
CONSTANTS
    MaxCalls = 4
    MaxActive = 2
    MaxTime = 2
    RequestLifetime = 1
    SessionLifetime = 2
    MaxAttempts = 1
INVARIANTS
    TypeOK
    OneAccount
    GrantedForSomething
    VoidIsRefused
PROPERTIES
    RevokedStaysRevoked
CHECK_DEADLOCK FALSE

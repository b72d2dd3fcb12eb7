SPECIFICATION Spec
CONSTANTS
    MaxAllowedInstances = 2
    Owner = "owner"
    Users = {"owner", "user"}
    Insts = {"inst"}
    Marks = {"publicRead", "secret"}
    Addresses = {"x", "y"}
    Roles = {"editor"}
    InitialDocs <- MCInitialDocs
    Grantable <- MCGrantable
    Callers <- MCCallers
    MaxCalls = 2
    MaxStored = 1
    MaxTime = 1
PROPERTIES
    GrantNeverShortens
CHECK_DEADLOCK FALSE

SPECIFICATION Spec
CONSTANTS
    MaxActors = 3
    MaxMail = 1
    MaxRefs = 1
    Faults = TRUE
    Loops = {"cancel"}
    Ops <- Roles
INVARIANTS
    LeaseExact
    DownExact
PROPERTIES
    CascadeExact
    DeadIsSilent
CHECK_DEADLOCK FALSE

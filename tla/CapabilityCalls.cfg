SPECIFICATION FairSpec
CONSTANTS
    Credit = 2
    Slot = 1
    MaxRequests = 3
    PipeCap = 1
    LastCall = 3
    Handles = {h1}
    Crashes = TRUE
INVARIANTS
    LateHandlesHeld
PROPERTIES
    AnsweredOnce
    CallsSettle
CHECK_DEADLOCK FALSE

SPECIFICATION FairSpec
CONSTANTS
    a = a
    b = b
    ChildSeq <- Declared
    Strategy = "rest_for_one"
    Class <- Permanent
    InitialBackoff <- OnlySecond
    MaximumBackoff <- OnlySecond
    ShutdownTimeout <- OnlyFirst
    Limit = 2
    Window = 2
    CallsFinish = TRUE
    MaxPid = 7
    MaxClock = 2
    MaxTimers = 2
INVARIANTS
    OneLiveProcess
    IntensityBounded
PROPERTIES
    StoppedStaysDown
    StopCompletes

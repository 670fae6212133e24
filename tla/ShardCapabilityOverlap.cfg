SPECIFICATION ShardSpec
CONSTANTS
    a1 = a1
    a2 = a2
    Actors <- TwoActors
    NoRecord = NoRecord
    NoFence = NoFence
    NoOperation = NoOperation
    Kinds = {"ActorRoute", "CapabilityCompletion", "ContinuationResume", "TimerDelivery"}
    OperationIds = {1, 2, 3, 4}
    InternalIds = {1, 2, 3, 4}
    MaxOperation = 4
    MaxSpawned = 2
    TimerDelays = {1}
    MaxEpoch = 3
    RestartBudget = 1
    InitialDelay = 1
    MaxDelay = 1
    MaxTick = 1
    MaxSequence = 1
SYMMETRY ActorSymmetry
PROPERTY CommitAdvancesProgress
CHECK_DEADLOCK FALSE

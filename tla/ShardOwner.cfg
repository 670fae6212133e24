SPECIFICATION ShardSpec
CONSTANTS
    a1 = a1
    a2 = a2
    Actors <- TwoActors
    NoRecord = NoRecord
    NoFence = NoFence
    NoOperation = NoOperation
    Kinds = {"ActorRoute", "CapabilityCompletion", "ContinuationResume", "TimerDelivery"}
    OperationIds = {1, 2, 3, 4, 5, 6, 7}
    InternalIds = {1, 2, 3, 4, 5, 6, 7}
    MaxOperation = 7
    MaxSpawned = 2
    TimerDelays = {1}
    MaxEpoch = 3
    RestartBudget = 1
    InitialDelay = 1
    MaxDelay = 1
    MaxTick = 1
    MaxSequence = 1
SYMMETRY ActorSymmetry
INVARIANTS FreshAdmission ContinuationExact TimersOwned TransferPinsGeneration
PROPERTY AcceptedWorkKept
CHECK_DEADLOCK FALSE

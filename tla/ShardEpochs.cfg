SPECIFICATION Spec
CONSTANTS
    OperationIds = {1, 2}
    InternalIds = {2}
    Kinds = {"Effect"}
    NoRecord = NoRecord
    NoFence = NoFence
    NoOperation = NoOperation
    MaxEpoch = 4
    RestartBudget = 2
    InitialDelay = 1
    MaxDelay = 2
    MaxTick = 5
    MaxSequence = 1
INVARIANTS TypeOK AtMostOnceEffect ExpectsHold RestartBounded
PROPERTIES CommittedFinal CommitInEpoch
CHECK_DEADLOCK FALSE

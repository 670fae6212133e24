SPECIFICATION FairSpec
CONSTANTS
    p1 = p1
    p2 = p2
    s1 = s1
    s2 = s2
    NoOwner = NoOwner
    NoSlot = NoSlot
    NoLease = NoLease
    NoTicket = NoTicket
    Pids = {1}
    Slots = {1}
    Producers <- TwoProducers
    Schedulers <- OneScheduler
    GenerationMask = 7
    Capacity = 2
    MaxPublish = 2
    MaxRegistrations = 1
    MaxAcquisitions = 3
INVARIANTS ReleaseNeverStale AdmissionExact ProducerOrder
PROPERTY ImplementsMailSpec
CHECK_DEADLOCK FALSE

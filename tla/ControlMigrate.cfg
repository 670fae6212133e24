SPECIFICATION Spec
CONSTANTS
    p1 = p1
    p2 = p2
    s1 = s1
    s2 = s2
    NoOwner = NoOwner
    NoSlot = NoSlot
    NoLease = NoLease
    NoTicket = NoTicket
    Pids = {1, 2}
    Slots = {1, 2}
    Producers <- OneProducer
    Schedulers <- TwoSchedulers
    GenerationMask = 3
    Capacity = 1
    MaxPublish = 1
    MaxRegistrations = 2
    MaxAcquisitions = 2
SYMMETRY SchedulerSymmetry
INVARIANTS ExclusiveMutator NoLostWakeup TicketNamesOccupant
PROPERTY ReclaimQuiet ImplementsMail
CHECK_DEADLOCK FALSE

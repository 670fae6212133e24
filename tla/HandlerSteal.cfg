SPECIFICATION FairSpec
CONSTANTS
    Width = 2
    MaxActors = 2
    MaxSlices <- LongAndShort
    InboxCapacity = 2
    QueueCapacity = 1
    CounterModulus = 8
    Faults <- EveryFault
INVARIANTS
    OwedOnce
    ServedWhereRouted
    ReservationsExact
    DrainOnItsWay
PROPERTY
    BeginReturns
CHECK_DEADLOCK FALSE

SPECIFICATION Spec
CONSTANTS
    a1 = a1
    a2 = a2
    a3 = a3
    a4 = a4
    Actors = {a1, a2, a3, a4}
    Class <- TwoPriority
    QueueCapacity = 4
INVARIANTS
    ClassServed
CHECK_DEADLOCK FALSE

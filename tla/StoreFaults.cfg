SPECIFICATION Spec
CONSTANTS
    a = a
    b = b
    x = x
    y = y
    v1 = v1
    v2 = v2
    Torn = Torn
    NoFile = NoFile
    Children <- Both
    Schemas <- Versions
    Payloads <- Bytes
    Faults <- AllFaults
    MaxStore = 3
    MaxSequence = 2
    MaxGeneration = 2
SYMMETRY
    Symmetric
INVARIANT
    NeverTorn
    ToldIsKept
    OneEventPerSequence

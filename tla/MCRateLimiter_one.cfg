SPECIFICATION Spec
CONSTANTS
    Keys = {k1, k2}
    Callers = {m}
    Cost = 2
    Capacity = 4
    TTL = 4
    MaxStall = 1
    MaxClock = 8
    NoKey = NoKey
    NoBucket = NoBucket
PROPERTIES ImplementsTokenBucket

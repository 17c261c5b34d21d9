SPECIFICATION Spec
CONSTANTS
    Keys = {k1, k2}
    Callers = {a, b}
    Cost = 2
    Capacity = 2
    TTL = 4
    MaxStall = 1
    MaxClock = 8
    NoKey = NoKey
    NoBucket = NoBucket
SYMMETRY Symmetry
INVARIANTS StaleWindowBound

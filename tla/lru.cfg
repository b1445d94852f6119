\* The LRU cache, bound 2, four keys, two values.
CONSTANTS
    k1 = k1
    k2 = k2
    k3 = k3
    k4 = k4
    v1 = v1
    v2 = v2
    NoValue = NoValue
    Keys <- MCKeys
    Values <- MCValues
    MaxEntries = 2
SPECIFICATION Spec
INVARIANTS
    TypeOK
    Consistent
    ExactlyMostRecent
PROPERTY ImplementsBoundedCache

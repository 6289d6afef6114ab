CONSTANTS
    k1 = k1
    k2 = k2
    k3 = k3
    Keys <- MCKeys
    PerMinute <- MCPerMinute
    Minute = 3
    MaxBurst = 2
    MaxTime = 4
SPECIFICATION Spec
INVARIANTS
    TypeOK
    BurstAndRateBound
    SteadyCallerPasses
PROPERTIES
    ImplementsBucket
CHECK_DEADLOCK FALSE

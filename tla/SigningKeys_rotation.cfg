SPECIFICATION Spec
CONSTANTS
    Instances = {i1, i2}
    Keys = {k1, k2, k3}
    Apis = {}
    None = None
    Interval = 1
    Prepublication = 2
    RetiredGrace = 2
    TokenTTL = 2
    CacheAge = 1
    Refetch = 1
    Staleness = 1
    LeakTimes = {}
    MaxClock = 4
SYMMETRY Symmetry
INVARIANTS
    AlwaysSigns
    OnePending
    RetiredNeverSigns
CHECK_DEADLOCK FALSE

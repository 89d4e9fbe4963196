SPECIFICATION Spec
CONSTANTS
    Instances = {i1, i2}
    Keys = {k1, k2}
    Apis = {api}
    None = None
    Interval = 1
    Prepublication = 2
    RetiredGrace = 2
    TokenTTL = 2
    CacheAge = 1
    Refetch = 1
    Staleness = 1
    LeakTimes = {0, 1}
    MaxClock = 3
SYMMETRY Symmetry
INVARIANTS
    TokensVerify
    LeakedKeyStopsSigning
    LeakedKeyIsForgotten
CHECK_DEADLOCK FALSE

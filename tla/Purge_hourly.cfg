SPECIFICATION FairSpec
CONSTANTS
    Instances = {i1, i2}
    Flows = {f1}
    Links = {l1}
    Codes = {c1}
    Changes = {}
    Confirmations = {n1}
    Sessions = {s1}
    Users = {u1}
    Keys = {k1}
    None = None
    BatchSize = 1
    Day = 1
    Week = 1
    Month = 1
    FlowTTL = 1
    LinkTTL = 1
    CodeTTL = 1
    SessionTTL = 1
    Prepublication = 1
    MaxRows = 4
    MaxClock = 3
    MaxFaults = 1
INVARIANTS
    OnePurger
PROPERTIES
    UselessRowsOnly
    PurgeKeepsBudget
    StaleRowsGo
CHECK_DEADLOCK FALSE

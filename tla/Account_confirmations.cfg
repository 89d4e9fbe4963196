SPECIFICATION Spec
CONSTANTS
    Calls = {c1, c2}
    Users = {u1, u2}
    Sessions = {s1}
    Addresses = {a1, a2, a3}
    None = None
    MaxFailuresPerCode = 1
    MaxFailuresPerDay = 1
    CodeTTL = 1
    ChangeTTL = 1
    Day = 1
    Returning = {{FALSE}}
    MaxCodes = 2
    MaxClock = 1
SYMMETRY Symmetry
INVARIANTS
    GuessBudget
    OneActPerCode
    DeletionIsComplete
    OnlyDeletionsDeadlock
PROPERTY MovesFollowLinks
CHECK_DEADLOCK FALSE

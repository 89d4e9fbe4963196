SPECIFICATION Spec
CONSTANTS
    Calls = {c1, c2}
    Codes = {k1}
    Sessions = {s1, s2}
    Users = {u1}
    Clients = {web, mobile}
    Uris = {callback}
    Verifiers = {v1, v2}
    None = None
    CodeTTL = 1
    MaxClock = 1
INVARIANTS
    OneSessionPerCode
    MismatchKeepsCode
    ReplayRevokes
    IInv
PROPERTIES
    RefinesCodeGrant
CHECK_DEADLOCK FALSE

SPECIFICATION Spec
CONSTANTS
    Requests = {r1, r2}
    Tokens = {t1, t2, t3, t4}
    Sessions = {s1}
    Users = {u1}
    Clients = {c1}
    None = None
    Grace = 1
    SessionTTL = 3
    MaxClock = 3
SYMMETRY Symmetry
INVARIANTS
    SupersededStaysDead
    TabsKeepWorking
    LateCallsAreRefused
    OneRetryLives
    SomeCallCanGoOn
    IInv
PROPERTIES
    MarksAreFinal
    RefinesTokenFamily
CHECK_DEADLOCK FALSE

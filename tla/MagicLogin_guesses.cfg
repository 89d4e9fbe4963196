SPECIFICATION FairSpec
CONSTANTS
    Calls = {c1, c2}
    Flows = {f1, f2}
    SignupFlows = {f1}
    Users = {u1}
    Addresses = {a1}
    MaxEmailsPerFlow = 1
    MaxFailuresPerCode = 2
    MaxFailuresPerDay = 2
    FlowTTL = 1
    LinkTTL = 1
    Day = 1
    MaxLinks = 2
    MaxClock = 1
    None = None
INVARIANTS
    GuessBudget
    EmailsAreCapped
PROPERTIES
    SpentNeverLogsIn
    CallsComplete
CHECK_DEADLOCK FALSE

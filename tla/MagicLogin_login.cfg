SPECIFICATION Spec
CONSTANTS
    Calls = {c1, c2}
    Flows = {f1}
    SignupFlows = {f1}
    Users = {u1, u2}
    Addresses = {a1, a2}
    MaxEmailsPerFlow = 2
    MaxFailuresPerCode = 2
    MaxFailuresPerDay = 1
    FlowTTL = 2
    LinkTTL = 2
    Day = 2
    MaxLinks = 2
    MaxClock = 1
    None = None
SYMMETRY Symmetry
INVARIANTS
    FlowOutlivesItsEmails
PROPERTIES
    FlowCompletesOnce
CHECK_DEADLOCK FALSE

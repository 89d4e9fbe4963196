SPECIFICATION Spec
CONSTANTS
    Tabs = {a, b}
    Calls = {c1, c2}
    Sessions = {s1}
    None = None
    Threw = Threw
    Grace = 2
    AccessTTL = 1
    Margin = 1
    MaxTokens = 3
    MaxClock = 3
SYMMETRY Symmetry
INVARIANTS
    NoFalseAlarm
PROPERTIES
    OnlyDeadSessionsAreForgotten
    UnauthorizedIsDeserved
CHECK_DEADLOCK FALSE

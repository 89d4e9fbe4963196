SPECIFICATION Spec
CONSTANTS
    Tabs = {a}
    Calls = {c1, c2}
    Sessions = {s1}
    None = None
    Threw = Threw
    Grace = 1
    AccessTTL = 1
    Margin = 1
    MaxTokens = 2
    MaxClock = 1
SYMMETRY Symmetry
PROPERTY OnlyLoginsFillTheStore
CHECK_DEADLOCK FALSE

SPECIFICATION FairSpec
CONSTANTS
    alice = alice
    bob = bob
    proxy = proxy
    Callers = {alice, bob, proxy}
    Owns <- MCOwns
    Trusted <- MCTrusted
    Mailboxes = {m}
    Spellings = {plain, shouted}
    Garbage = Garbage
    None = None
    Burst <- MCBurst
    Period <- MCPeriod
    MaxForged = 1
    MaxProxies = 2
    MaxTime = 2
    MaxCalls = 4
INVARIANTS
    WindowBudget
    RefusalIsDeserved
PROPERTY
    FullKeysAreForgotten

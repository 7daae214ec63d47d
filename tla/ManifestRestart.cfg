SPECIFICATION Spec
CONSTANTS
    w1 = w1
    w2 = w2
    Worker <- MCOne
    MaxDoc = 3
    Unreadable <- MCSecond
    None = None
    Ttl = 2
    Base = 1
    Cap = 1
    Jitter = 0
    MaxTime = 3
    MaxChecks = 3
    MaxFaults = 1
    MaxCuts = 1
    MaxClicks = 1
INVARIANT FreshIsRecent
CHECK_DEADLOCK FALSE

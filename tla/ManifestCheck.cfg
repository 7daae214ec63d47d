SPECIFICATION Spec
CONSTANTS
    w1 = w1
    w2 = w2
    Worker <- MCWorker
    MaxDoc = 2
    Unreadable = {}
    None = None
    Ttl = 2
    Base = 1
    Cap = 2
    Jitter = 50
    MaxTime = 2
    MaxChecks = 3
    MaxFaults = 0
    MaxCuts = 0
    MaxClicks = 2
SYMMETRY Symmetry
INVARIANT TypeOK
INVARIANT FreshIsRecent
INVARIANT DeferralIsEarned
CHECK_DEADLOCK FALSE

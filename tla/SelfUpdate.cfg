SPECIFICATION PurgeSpec

CONSTANTS
    Version <- MCVersion
    Torn = Torn
    Absent = Absent
    MaxAttempts = 2
    AttemptsLimit = 4
    BadCard = FALSE
    MaxFaults = 3
    TransientAttempts = 2
    DigestAttempts = 2

INVARIANT SelfTypeOK
INVARIANT NeverStranded
INVARIANT NoDowngrade
INVARIANT SwapBudget

CHECK_DEADLOCK FALSE

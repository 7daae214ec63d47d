SPECIFICATION MCSpec

CONSTANTS
    v1 = v1
    v2 = v2
    Version <- MCVersion
    Torn = Torn
    Absent = Absent
    MaxAttempts = 2
    AttemptsLimit = 4
    BadCard = FALSE
    MaxFaults = 3

INVARIANT TypeOK
INVARIANT InstalledIsVerified
PROPERTY SoundRepairCompletes
INVARIANT SoundCardInv
PROPERTY SoundAtomicUpdate

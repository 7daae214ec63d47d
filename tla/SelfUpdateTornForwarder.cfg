SPECIFICATION SelfSpec

CONSTANTS
    Version <- MCTwoVersions
    Torn = Torn
    Absent = Absent
    MaxAttempts = 2
    AttemptsLimit = 4
    BadCard = FALSE
    MaxFaults = 1
    TransientAttempts = 1
    DigestAttempts = 1

INVARIANT ReadyMeansInstallable

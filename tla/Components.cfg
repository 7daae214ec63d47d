SPECIFICATION MCSpec
CONSTANTS
    Block = 8
    LengthField = 2
    MaxBytes = 20
    Size = 4
    MaxChunk = 2
    NoFile = NoFile
    MaxDownloads = 2
    MaxCuts = 1
    Numbers <- MCNumbers
    Identifier <- MCIdentifier
    MaxIdentifiers = 2
    Minimum <- MCMinimum
    Channel = {"stable", "beta"}
    Pattern <- MCPattern
    Path <- MCPath
    MaxRules = 2
    Targets <- MCTargets
    Layout <- MCLayout
    FileWord <- MCFileWord
    MaxRepairs = 2
    MaxFailures = 1
    MaxOutages = 1
    MaxRelisted = 1
    Jobs <- MCJobs
INVARIANT HashesTheMessage
INVARIANT OnlyVerifiedIsNamed
INVARIANT PartialIsBounded
INVARIANT NeverReturns
INVARIANT PolicyOffersNewer
INVARIANT PreservesAsWritten
INVARIANT FilesKept
 
INVARIANT ViewOutlivesWorkers
CHECK_DEADLOCK FALSE

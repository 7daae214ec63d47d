SPECIFICATION Spec
CONSTANTS
    f1 = f1
    f2 = f2
    f3 = f3
    p1 = p1
    p2 = p2
    File <- MCFile
    Pack <- MCPack
    User = User
    None = None
    Preserved <- MCPreserved
    MaxInstalls = 2
    MaxFaults = 2
    MaxCuts = 1
SYMMETRY Symmetry
 
 
INVARIANT MergeReversible
INVARIANT RecoveredIsBefore
INVARIANT PreservedUntouched

SPECIFICATION Spec
CONSTANTS
    f1 = f1
    f2 = f2
    f3 = f3
    p1 = p1
    p2 = p2
    File <- MCTwoFiles
    Pack <- MCPack
    User = User
    None = None
    Preserved <- MCPreserved
    MaxInstalls = 1
    MaxFaults = 0
    MaxCuts = 2
PROPERTY RollBackKeepsOriginals

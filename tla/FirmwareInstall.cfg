SPECIFICATION Spec
CONSTANTS
    nca1 = nca1
    nca2 = nca2
    txt = txt
    v1 = v1
    v2 = v2
    NcaName <- MCNcaName
    OtherName <- MCOtherName
    Version <- MCVersion
    Foreign = Foreign
    None = None
    MaxInstalls = 3
    MaxFaults = 2
    MaxCuts = 1
    MaxForeign = 1
SYMMETRY Symmetry
INVARIANT TypeOK
INVARIANT NeverMixed
 
INVARIANT ReadyIsWhole

SPECIFICATION Spec
CONSTANTS
    f1 = f1
    f2 = f2
    d1 = d1
    d2 = d2
    Files = {f1, f2}
    Places <- OneKey
    Keys <- OneKey
    NoFile = NoFile
    NoFolder = NoFolder
    Deleters = {d1, d2}
    ConvertConcurrency = 2
    Nobody = Nobody
    Budget <- ReplaceBudget
SYMMETRY Symmetry
CHECK_DEADLOCK FALSE
INVARIANTS
    TypeOK
    LockOwnership
    SuccessIsWhole
    InFlightKeepsDir
    NoOrphanDir
    UpToDateIsRendered
PROPERTIES
    RenderedStays

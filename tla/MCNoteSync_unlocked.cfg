SPECIFICATION Spec
CONSTANTS
    f1 = f1
    f2 = f2
    d1 = d1
    d2 = d2
    Files = {f1, f2}
    Places <- TwoKeys
    Keys <- TwoKeys
    NoFile = NoFile
    NoFolder = NoFolder
    Deleters = {d1}
    ConvertConcurrency = 2
    Nobody = Nobody
    Budget <- UnlockedBudget
SYMMETRY Symmetry
CHECK_DEADLOCK FALSE
INVARIANTS
    InFlightKeepsDir

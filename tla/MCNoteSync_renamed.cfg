SPECIFICATION FairSpec
CONSTANTS
    f1 = f1
    f2 = f2
    d1 = d1
    d2 = d2
    Files = {f1}
    Places <- TwoKeys
    Keys <- TwoKeys
    NoFile = NoFile
    NoFolder = NoFolder
    Deleters = {d1}
    ConvertConcurrency = 2
    Nobody = Nobody
    Budget <- RenamedBudget
CHECK_DEADLOCK FALSE
PROPERTIES
    OldPlaceIsCleared

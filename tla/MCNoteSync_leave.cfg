SPECIFICATION FairSpec
CONSTANTS
    f1 = f1
    f2 = f2
    d1 = d1
    d2 = d2
    Files = {f1}
    Places <- KeyAndOutside
    Keys <- OneKey
    NoFile = NoFile
    NoFolder = NoFolder
    Deleters = {d1, d2}
    ConvertConcurrency = 2
    Nobody = Nobody
    Budget <- LeaveBudget
CHECK_DEADLOCK FALSE
PROPERTIES
    LiveNoteConverges
    SettledNoteDisappears

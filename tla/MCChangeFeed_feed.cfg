SPECIFICATION FairSpec
CONSTANTS
    Removals <- SecondChange
    PageSize = 1
    Budget <- FeedBudget
INVARIANTS
    TypeOK
    NotesAreCovered
    RemovalsAreDeleted
    AckedPushIsPolled
PROPERTIES
    EveryChangeIsHandled
    FollowsLog

SPECIFICATION FairSpec
CONSTANTS
    u1 = u1
    u2 = u2
    NoUrl = NoUrl
    Urls = {u1, u2, NoUrl}
    TTL = 2
    Headroom = 1
    Budget <- ChannelBudget
INVARIANTS
    TypeOK
    ExpiryNeedsMissedChecks
    LeftAloneIsWatched
    AcceptedIsKnown
    SeamIsCovered
PROPERTIES
    PushesComeBack

\* Two sessions under the legacy pass; the second player comes back.
CONSTANTS
    GRID_SIZE = 3
    BPS = 10000
    N = 2
    Tiles = {0, 2}
    Bets = {200}
    Layouts <- SmallLayouts
    Edges = {1000}
    GAME_EXPIRY_SLOTS = 1
    CLOSE_UNSETTLED_EXPIRY_SLOTS = 0
    ReferralCut = 70
    TreasurySplitBps = 5000
    InitAssets = 2000
    OtherReserved = 100
    TotalUnits = 1000
    PendingUnits = 100
    MAX_TX = 2
    EXPIRE_PER_TX = 2
    Returning = {2}
SPECIFICATION OneOfEachSpec
PROPERTIES
    CrankReleases
    ReturningGetsOut
CHECK_DEADLOCK FALSE

\* Two players sharing the vault: reservations, cover and the wager book.
CONSTANTS
    GRID_SIZE = 4
    BPS = 10000
    N = 2
    Bets = {120, 240}
    MineCounts = {2}
    Tiles = {0, 1}
    Words = {0, 2}
    Edges = {200}
    MIN_BET_LAMPORTS = 100
    STALL_SLOTS = 0
    ABANDON_SLOTS = 0
    MaxBetBps = 1000
    MaxPayoutBps = 5000
    VrfMaxPayoutBps = 5000
    MinHealthBps = 1000
    TreasurySplitBps = 5000
    Referred = {1}
    ReferralCuts = {50}
    InitAssets = 2900
    InitUnits = 1000
    InitPendingUnits = 20
    MaxRounds = 2
SPECIFICATION Spec
INVARIANTS
    OutstandingExact
    Covered
PROPERTIES
    ImplementsBook

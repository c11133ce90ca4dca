\* One player on a larger board, with an owner who changes the edge mid-round.
CONSTANTS
    GRID_SIZE = 4
    BPS = 10000
    N = 1
    Bets = {200}
    MineCounts = {1, 2, 3}
    Tiles = {0, 1, 2}
    Words = {0, 1, 2, 3}
    Edges = {200, 1000}
    MIN_BET_LAMPORTS = 100
    STALL_SLOTS = 1
    ABANDON_SLOTS = 2
    MaxBetBps = 1000
    MaxPayoutBps = 5000
    VrfMaxPayoutBps = 5000
    MinHealthBps = 1000
    TreasurySplitBps = 5000
    Referred = {1}
    ReferralCuts = {50}
    InitAssets = 3000
    InitUnits = 1000
    InitPendingUnits = 100
    MaxRounds = 2
SPECIFICATION Spec
INVARIANTS
    OracleInStep
    DecidedSettles
PROPERTIES
    ProgressIsPaid

\* One player's round under the crank, and one tab over two rounds of two safe
\* tiles, with one fault.
CONSTANTS
    GRID_SIZE = 4
    BPS = 10000
    N = 1
    Bets = {120}
    MineCounts = {2}
    Tiles = {0}
    Words = {0, 2}
    Edges = {200}
    MIN_BET_LAMPORTS = 100
    STALL_SLOTS = 0
    ABANDON_SLOTS = 3
    MaxBetBps = 1000
    MaxPayoutBps = 5000
    VrfMaxPayoutBps = 5000
    MinHealthBps = 1000
    TreasurySplitBps = 5000
    Referred = {}
    ReferralCuts = {0}
    InitAssets = 3000
    InitUnits = 1000
    InitPendingUnits = 100
    MaxRounds = 1

    SETTLED_IDLE = 1
    FORCE_AGE = 3
    FORCE_IDLE = 2
    MAX_TX_PER_KIND = 1

    Tabs = {1}
    MaxKeys = 2
    SafeTiles = 2
    MaxFaults = 1
\* The player may stop after the last round.
CHECK_DEADLOCK FALSE
SPECIFICATION RoundsSpec
INVARIANTS
    OneRowPerSettlement
    
PROPERTIES
    EveryRoundCloses
    RecoverCloses

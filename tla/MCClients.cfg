CONSTANTS
    \* LegacyGame: two sessions, a house that may lie, an owner who changes the edge.
    GRID_SIZE = 4
    BPS = 10000
    N = 2
    Tiles = {0, 2, 3}
    Bets = {100}
    Layouts <- SmallLayouts
    Edges = {0, 1000}
    GAME_EXPIRY_SLOTS = 1
    CLOSE_UNSETTLED_EXPIRY_SLOTS = 0
    ReferralCut = 70
    TreasurySplitBps = 5000
    InitAssets = 550
    OtherReserved = 100
    TotalUnits = 1000
    PendingUnits = 100
    \* LpDesk: two orders over three blocks and two skipped slots.
    Pools <- TwoPools
    HeldUnits = 6
    SeedUnits = 5
    HousePending = 3
    MinHouseShareBps = 6000
    MaxUserPositionBps = 4000
    MinLpDeposit = 3
    WITHDRAW_COOLDOWN_SLOTS = 1
    WITHDRAW_CLAIM_WINDOW_SLOTS = 0
    POSITION_CAP_DISABLED_SENTINEL = 1000
    Amounts = {5, 29}
    Units = {3}
    Validity = 1
    MaxHeight = 3
    MaxSkipped = 2
    MaxOrders = 2
    \* RpcProxy: one subscription at a time, two calls under way.
    Ids = {i, j}
    NoId = 0
    RPC_MAX_BATCH = 2
    RPC_MAX_PENDING = 2
    RPC_MAX_SUBSCRIPTIONS = 1
    RPC_BURST = 2
    MaxFrames = 3
    \* BetPanel: a poor player, and LP units waiting to leave the vault.
    VaultStates <- ThreeVaults
    MaxBetBps = 2000
    MaxPayoutBps = 5000
    VrfMaxPayoutBps = 3000
    UnitsPending = 10
    UnitsIssued = 100
    RentGap = 3
    Wallets = {12}
    START_OVERHEAD = 5
    MIN_BET = 3
    MINE_OPTIONS = {1, 2}
    Typed = {2, 9}
    DefaultBet = 4
    DefaultMines = 2
    FineStep = 1
    CoarseStep = 2
    CoarseFrom = 6
    \* EventLogs: two programs.
    Programs = {"kaboom", "other"}
    Us = "kaboom"
    MaxLines = 5
    MaxDepth = 3
    \* RelayPush
    Sigs = {1, 2, 3}
    Targets = {"tick", "second"}
    RECENT_SIG_CACHE = 2
    MaxPosts = 4
    \* LiveFeed: three connections: the failure of one may leave two at once, if it is told
    \* twice.
    Slots = {1, 2}
    limit = 2
    API_LIMIT = 1
    MAX_RELAY_CLIENTS = 1
    MaxCommits = 2
    MaxListeners = 3
    MaxSockets = 1
SYMMETRY Symmetry
\* Each machine ends at its bounds.
CHECK_DEADLOCK FALSE
SPECIFICATION ClientsSpec
INVARIANTS
    LegacyExact
    ReadsWhatWasWritten
    OursExactly
    UpstreamWithinCap
    RelayedOnce
    
    EngageHeard
    
    
    VerdictIsRight
PROPERTIES
    ExpiryIsBest

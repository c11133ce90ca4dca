CONSTANTS
    \* Referral: three players who may refer each other, one with an account left
    \* without its key; volumes cross both tiers.
    GRID_SIZE = 4
    BPS = 100
    N = 3
    NoReferrer = NoReferrer
    Bets = {10, 20}
    Available = {0, 1, 100}
    REFERRAL_BRONZE_BPS = 10
    REFERRAL_SILVER_BPS = 20
    REFERRAL_GOLD_BPS = 30
    SILVER_VOLUME_LAMPORTS = 10
    GOLD_VOLUME_LAMPORTS = 20
    LeftCount <- LeftOne
    MaxVolume = 20
    \* VaultAdmin: four keys and a list of three: full, with gaps, emptied again.
    Signers = {deployer, k1, k2, k3}
    ZERO = zero
    DEPLOYER = deployer
    MAX_ALLOWLIST = 3
    \* CronTick: two overlapping ticks of one process.
    Ticks = {s, t}
    replica_of <- OneServer
    PASSES <- TwoPasses
    MAX_ATTEMPTS = 2
    MaxTime = 2
    MaxLosses = 1
    \* IndexerPass: bursts up to what a run lists, pages full, part full and exact.
    MAX_SIGNATURES_PER_RUN = 6
    PAGE_SIZE = 3
    SAFETY_WINDOW_SIGNATURES = 3
    MaxBurst = 6
    MaxTx = 8
    MaxRunFaults = 2
    \* OwnerOps: two scripts at once, or one again; two of their transactions may be
    \* late or lost.
    Shells = {a, b}
    Chunks = 1
    MaxLaunches = 2
    MaxTimeouts = 2
    \* LpMirror: two ingests, and two troubles: two faults, or a fault and a repair, or
    \* two repairs.
    Ingests = {v, w}
    Chain <- History
    MaxTroubles = 2
    \* GameMirror: two ingests.
    Workers = {v, w}
    \* LpPass: three positions, one that would pay dust and one whose completion fails.
    Positions = {1, 2, 3}
    Dust = {2}
    Failing = {1}
    MAX_PER_PASS = 1
    CLAIM_WINDOW = 5
    COOLDOWN = 1
    MaxPasses = 7
    MaxRequests = 4
    \* ReferralRollup: two calls at once, five deliveries.
    Calls = {v, w}
    Happened <- Notices
    MaxDeliveries = 5
    \* LpPoints: two replicas; a point takes more than an hour.
    Owners = {"lp"}
    Replicas = {"p", "q"}
    Values = {2}
    E15 = 3
    MaxHour = 2
    MaxTurns = 2
    MaxFailedSends = 1
    \* GameMirror: one row a page.
    Settlements <- TwoGames
    PAGE = 1
    MaxMishaps = 1
    MaxRuns = 1
    \* ReferralLinks: requests for codes.
    Referrers = {"a", "b"}
    Followers = {}
    Codes = {"x", "y"}
    InitCodes <- NoCodes
    Requests = {1, 2, 3}
    MAX_INSERT_RETRIES = 3
    Visits = {}
    Pings = {}
    MaxLinks = 0
SYMMETRY Symmetry
\* Each machine ends at its bounds.
CHECK_DEADLOCK FALSE
SPECIFICATION MachinesSpec
INVARIANTS
    ReferralReady
    ClaimsBacked
    CursorSkipsNothing
    PositionsExact
    OneStaleSend
    DueGetsItsTurn
    PointsExact
    
    BackfillSkipsNothing
    ReplayNeverInflates
    
    WholeProgramOnly
PROPERTIES
    AttributedOnce

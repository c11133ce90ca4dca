\* Two users, the house and the treasury on a vault worth a few lamports; the conditions of
\* the vault that Monitoring's readers may find are in the module.
CONSTANTS
    BPS = 100
    GRID_SIZE = 4
    N = 2
    Amounts = {3}
    Draws = {4}
    Asks = {2, 3}
    Holdings = {5, 13}
    Reservations = {0, 5}
    WITHDRAW_COOLDOWN = 1
    WITHDRAW_CLAIM_WINDOW_SLOTS = 1
    MinLpDeposit = 2
    MinHouseShareBps = 50
    MaxUserPositionBps = 60
    MinHealthBps = 10
    SeedLamports = 2
    InitAssets = 8
    MaxAssets = 13
    MaxUnits = 13
    Figures <- SevenFigures
    MinHealth = 10
    Rent = 1
    RENT_FLOOR = 3
    SOL = 4
    HEALTH_CRITICAL = 20
    HEALTH_WARN = 50
    RISK_BPS = 30
    HOUSE_WARN = 5
    HOUSE_CRITICAL = 2
    TIMEOUT = 1
    MEMO = 2
    POLL = 2
    NET = 0
    Gets = {1, 2}
SPECIFICATION VaultSpec
INVARIANTS
    UnitsExact
    
PROPERTIES
    NobodyIsDiluted
    HouseShareKept

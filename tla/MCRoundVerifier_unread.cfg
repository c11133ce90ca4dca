\* One player, two rounds, the verifier looking three transactions back.
CONSTANTS
    GRID_SIZE = 3
    BPS = 10000
    Bets = {10, 20}
    MineCounts = {1}
    Edges = {0, 1000}
    WrongPayments = {7}
    ROUND_HISTORY = 3
    MaxTxs = 5
\* The history ends at its bound.
CHECK_DEADLOCK FALSE
SPECIFICATION Spec
INVARIANTS
    StartStillStands

\* No faults and no repairs: only the order of arrival varies.
CONSTANTS
    Ingests = {w1, w2}
    Chain <- History
    MaxTroubles = 0
SYMMETRY WorkerSymmetry
CHECK_DEADLOCK FALSE
SPECIFICATION MirrorSpec
INVARIANTS
    TotalsCommit

\* One transaction is not fetched, and nothing lands after it.
CONSTANTS
    MAX_SIGNATURES_PER_RUN = 6
    PAGE_SIZE = 3
    SAFETY_WINDOW_SIGNATURES = 3
    MaxBurst = 2
    MaxTx = 2
    MaxRunFaults = 1
\* The chain ends at MaxTx and is indexed to its end.
CHECK_DEADLOCK FALSE
SPECIFICATION FairIndexerSpec
PROPERTIES
    EveryTxIndexed

\* One tab; a start lands while the page is opened again.
CONSTANTS
    Tabs = {a}
    MaxKeys = 2
    SafeTiles = 2
    MaxFaults = 1
CHECK_DEADLOCK FALSE
SPECIFICATION ClientSpec
INVARIANTS
    StartedKeyKept

SPECIFICATION FaissFairSpec
CONSTANTS
    b1 = b1
    b2 = b2
    Batches <- MCBatches
    Backoff <- MCBackoff
    Horizon = 2
    MaxCrashes = 1
    MaxFaults = 2
    MaxScript = 2
INVARIANTS FaissTypeOK HandoffKept BackoffIsOwn
PROPERTY RowsIndexed
CHECK_DEADLOCK FALSE

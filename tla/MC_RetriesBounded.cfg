SPECIFICATION CronFairSpec
CONSTANTS
    a = a
    b = b
    Jobs <- OneJob
    Coalescing <- NoJob
    Lane <- OneLane
    Due <- OneDue
    Delay <- NoDelay
    Timeout <- OneEach
    RetryDelay <- MCRetryDelay
    MaxAttempts = 1
    MaxPending = 2
    LaneCap = 1
    HeavyCap = 1
    Workers = 1
    CatchupWindow = 3
    Horizon = 3
    MaxDef <- OneEach
    MaxRestarts = 0
PROPERTY RetriesBounded
CHECK_DEADLOCK FALSE

SPECIFICATION CronSpec
CONSTANTS
    a = a
    b = b
    Jobs <- OneJob
    Coalescing <- NoJob
    Lane <- OneLane
    Due <- TwoDue
    Delay <- OneEach
    Timeout <- OneEach
    RetryDelay <- MCRetryDelay
    MaxAttempts = 1
    MaxPending = 2
    LaneCap = 1
    HeavyCap = 1
    Workers = 1
    CatchupWindow = 3
    Horizon = 3
    MaxDef <- OneEach
    MaxRestarts = 0
INVARIANT QueuedRowsArePending
CHECK_DEADLOCK FALSE

SPECIFICATION CronFairSpec
CONSTANTS
    a = a
    b = b
    Jobs <- MCJobs
    Coalescing <- MCCoalescing
    Lane <- MCLane
    Due <- MCDue
    Delay <- MCDelay
    Timeout <- MCTimeout
    RetryDelay <- MCRetryDelay
    MaxAttempts = 1
    MaxPending = 2
    LaneCap = 1
    HeavyCap = 1
    Workers = 2
    CatchupWindow = 3
    Horizon = 3
    MaxDef <- MCMaxDef
    MaxRestarts = 1
INVARIANTS CronTypeOK LaneCapacity OneExecutionPerJob ClaimedIsOpen RunningRetryNotRequeued
PROPERTIES EvidenceOfCurrentDefinition ExhaustedIsFinal RetryResolved
CHECK_DEADLOCK FALSE

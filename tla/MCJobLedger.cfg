SPECIFICATION Spec
CHECK_DEADLOCK FALSE
CONSTANTS
    Job = {j1}
    Envelope <- AllEnvelopes
    Token = {k1}
    NoToken = NoToken
    NoKey = ""
    LeaseSeconds = {2}
    MaxLag = 1
    MaxTime = 3
    MaxAttemptNo = 3
    MaxFence = 2
INVARIANTS
    TypeOK
    LeaseCurrent
    BudgetKept
    DangerousConfirmed
    AmbiguousNeverRuns
    CanonicalRow
    LeaseWithinDeadline
PROPERTIES
    TerminalIsFinal
    WriteNeverAutoRequeued
    ImplementsContract

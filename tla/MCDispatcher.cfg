SPECIFICATION DSpec
CHECK_DEADLOCK FALSE
CONSTANTS
    lightJob = lightJob
    Job = {h1, lightJob}
    Envelope <- BothEnvelopes
    EnvelopeOf <- ReaderAndCommit
    Token = {k1}
    NoToken = NoToken
    NoKey = ""
    LeaseSeconds = {1}
    LeaseTime = 1
    Verdicts <- SomeVerdicts
    MaxHeavy = 1
    MaxLight = 2
    ReservedP0 = 1
    MaxLag = 1
    MaxTime = 3
    MaxAttemptNo = 2
    MaxFence = 3
    MaxFaults = 2
    MaxStops = 1
INVARIANTS
    DTypeOK
    WorkerHasLease
    HandleMirrorsLease
    NoOrphanLease
PROPERTIES
    PreemptedForHigher
    ImplementsWorkerContract

SPECIFICATION DFairSpec
CHECK_DEADLOCK FALSE
CONSTANTS
    lightJob = lightJob
    Job = {h1, h2, lightJob}
    Envelope <- BothEnvelopes
    EnvelopeOf <- ReaderAndCommit
    Token = {k1}
    NoToken = NoToken
    NoKey = ""
    LeaseSeconds = {1}
    LeaseTime = 1
    Verdicts <- SomeVerdicts
    MaxHeavy = 1
    MaxLight = 2
    ReservedP0 = 1
    MaxLag = 0
    MaxTime = 3
    MaxAttemptNo = 1
    MaxFence = 2
    MaxFaults = 0
    MaxStops = 0
INVARIANTS
    HeavyLimit
PROPERTIES
    LeaseSettles

SPECIFICATION FairSpec
CHECK_DEADLOCK FALSE
CONSTANTS
    Id = {m1, m2}
    Attempts = {1, 2}
    Ttl = {1, 3}
    Hold = {1, 2}
    Delay = {0, 1}
    MaxLag = 1
    MaxTime = 5
    LastEnqueue = 1
INVARIANTS
    TypeOK
    DeadLetterSound
    AckByNewestClaim
PROPERTIES
    ClaimExclusive
    EventuallyOver

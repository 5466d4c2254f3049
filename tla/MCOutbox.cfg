SPECIFICATION FairSpec
CONSTANTS
    w1 = w1
    w2 = w2
    w3 = w3
    NoWorker = NoWorker
    Event <- TwoEvents
    EmailEvent <- FirstIsEmail
    Worker = {w1, w2}
    Reliable = {w2}
    MaxAttempts = 2
    BatchSize = 2
    MaxFaults = 1
    MaxLapses = 1
INVARIANTS
    ExclusiveHandling
    ProcessedWasHandled
    AttemptsAccounted
    SentOnceRecorded
PROPERTIES
    LockEndsByHolderOrExpiry
    AtLeastOnceDelivery
    EventuallySettled
CHECK_DEADLOCK FALSE

SPECIFICATION FairSpec
CONSTANTS
    u1 = u1
    r1 = r1
    r2 = r2
    r3 = r3
    r4 = r4
    r5 = r5
    User = {u1}
    Request = {r1, r2, r3, r4}
    None = None
    MaxFailures = 2
INVARIANTS
    OneLivePerFamily
    RotationIsWhole
    RevokedAsSeen
    LockNeedsFailures
    ResetOncePerToken
PROPERTIES
    ImplementsTokenFamily
    RequestsEnd
CHECK_DEADLOCK FALSE

SPECIFICATION FairSpec
CONSTANTS
    c1 = c1  c2 = c2  r1 = r1  r2 = r2   a1 = a1
    Cart = {c1, c2}
    Attempt = {r1, r2}
    From <- Attempts
    Item = {1, 2}
    ItemsOf <- Lines
    Address = {a1}
    PoolSize = 2
    Limit = 3
    LastYear = 1
    None = None
INVARIANTS
    ReferencesUnique
    OrderIsWhole
PROPERTIES
    RequestsEnd
CHECK_DEADLOCK FALSE

SPECIFICATION FairSpec
CONSTANTS
    u1 = u1
    c1 = c1
    c2 = c2
    i1 = i1
    i2 = i2
    r1 = r1
    r2 = r2
    r3 = r3
    r4 = r4
    r5 = r5
    User = {u1}
    Guest = Guest
    None = None
    Cart = {c1, c2}
    Item = {i1}
    Request = {r1, r2, r3, r4}
INVARIANTS
    OneOrderPerCart
    AnswerIsTheOrder
PROPERTIES
    ImplementsPromise
    SubmissionsEnd
CHECK_DEADLOCK FALSE

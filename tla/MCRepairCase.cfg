SPECIFICATION FairSpec
CONSTANTS
    sA = sA
    sB = sB
    sC = sC
    r1 = r1
    r2 = r2
    r3 = r3
    Free = Free
    Case = {1}
    StatusKey = {sA, sB, sC}
    Transition <- ChoiceAndLoop
    FirstStatus = sA
    NoStatus = NoStatus
    Request = {r1, r2, r3}
    MaxChanges = 3
INVARIANTS
    HistoryIsWalk
    EventsAreMoves
    HistoryInTimeOrder
    AuditAccounted
PROPERTIES
    ImplementsWorkflow
    RequestsEnd
CHECK_DEADLOCK FALSE

SPECIFICATION BookSpec
CONSTANTS
    a1 = a1  a2 = a2  a3 = a3   p1 = p1  p2 = p2  o1 = o1
    Address = {a1, a2, a3}
    Existing = {a1}
    Call = {p1, p2, o1}
    OfPage = {p1, p2}
    Free = Free
INVARIANTS
    OneDefault
    PageListsBook
PROPERTIES
    DefaultSurvives
SYMMETRY Names

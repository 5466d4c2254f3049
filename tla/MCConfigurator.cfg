SPECIFICATION Spec
CONSTANTS
    None = None
    Model = "edge"
    c1 = c1  c2 = c2
    Run = {c1, c2}
    Earlier <- OneLine
    Catalogue <- Versions
INVARIANTS
    SettledShowsSelection
    BoughtAsShown
    OrderedWasOnSale
CHECK_DEADLOCK FALSE

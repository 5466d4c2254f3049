SPECIFICATION SeedSpec
CONSTANTS
    SeedDemo = TRUE
    EditedBrand = {"sony"}
    MaxRuns = 2
    MaxEdits = 3
INVARIANTS
    NoDoubles
    DoneIsWhole
    TestedBeforeReturn
CHECK_DEADLOCK FALSE

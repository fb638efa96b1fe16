SPECIFICATION HSpec
CONSTANTS
    Item = {i1, i2}
    Planned = {i1}
    Asked = {i2}
    CheckOf <- AskedUnchecked
    NoCheck = none
    Precheck = {}
    MaxSteps = 2
    MaxReplans = 2
    MaxErrors = 3
    ItemErrors = 1
    Ladder = 1
    Outcomes = {"novel", "moved", "shifted", "repeat", "loop"}
    FreshMax = 1
    ChecksHang = TRUE
    SourceFails = FALSE
CHECK_DEADLOCK FALSE
INVARIANTS
    FinalReportHolds
PROPERTIES
    RunEnds

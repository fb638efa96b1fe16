SPECIFICATION HSpec
CONSTANTS
    Item = {i1, i2}
    Planned = {i1, i2}
    Asked = {}
    CheckOf <- OwnChecks
    NoCheck = none
    Precheck = {}
    MaxSteps = 1
    MaxReplans = 1
    MaxErrors = 3
    ItemErrors = 2
    Ladder = 0
    Outcomes = {"vain"}
    FreshMax = 0
    ChecksHang = TRUE
    SourceFails = TRUE
SYMMETRY Items
CHECK_DEADLOCK FALSE
INVARIANTS
    LedgerSound
PROPERTIES
    CompletedOnlyWhileHolding

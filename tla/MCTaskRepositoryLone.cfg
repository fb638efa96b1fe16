SPECIFICATION FairRSpec
CONSTANTS
    MaxId = 3
    DepthMax = 3
    DepsMax = 1
    ScopeMax = 3
    Contract = {c1}
    NoCheck = none
    Patch <- LonePatch
    Actor = {a1}
    Ops <- LoneOps
PROPERTIES
    ImplementsTaskBoard
    CallsReturn
    ClearSparesOpenTasks

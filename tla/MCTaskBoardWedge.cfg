SPECIFICATION Spec
CONSTANTS
    MaxId = 3
    DepthMax = 3
    DepsMax = 1
    ScopeMax = 3
    Contract = {}
    NoCheck = none
    Patch <- GraphPatch
INVARIANTS
    NoWedge

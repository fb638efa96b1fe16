SPECIFICATION Spec
CONSTANTS
    MaxId = 4
    DepthMax = 3
    DepsMax = 0
    ScopeMax = 4
    Contract = {}
    NoCheck = none
    Patch <- TreePatch
INVARIANTS
    DepthBounded
PROPERTIES
    ParentWaitsForChildren

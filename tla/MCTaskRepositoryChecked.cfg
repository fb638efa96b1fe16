SPECIFICATION RSpec
CONSTANTS
    MaxId = 3
    DepthMax = 3
    DepsMax = 2
    ScopeMax = 3
    Contract = {}
    NoCheck = none
    Patch <- CheckedPatch
    Actor = {a1, a2}
    Ops = {"create", "update"}
SYMMETRY Callers
INVARIANTS
    EdgesAcyclic

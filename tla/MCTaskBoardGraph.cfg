SPECIFICATION Spec
CONSTANTS
    MaxId = 3
    DepthMax = 3
    DepsMax = 2
    ScopeMax = 3
    Contract = {c1}
    NoCheck = none
    Patch <- GraphPatch
INVARIANTS
    RowsSound
    DepsAcyclic
    HierarchyAcyclic
    NoDirectAncestorDependency
    FlatBoardNeverWedges
PROPERTIES
    ContractsCloseByName
    CancelClosesBranch

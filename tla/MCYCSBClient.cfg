CONSTANTS
    NumThreads = 2
    RecordCount = 2
    OperationCount = 4
    Proportion <- MCProportion
    FieldCount = 1
    InsertStart = 0
    FileProps <- MCFileProps
    Malformed <- MCMalformed
SPECIFICATION Spec
INVARIANT TypeOK
INVARIANT ParseMatchesReference
PROPERTY PhasesRefinement

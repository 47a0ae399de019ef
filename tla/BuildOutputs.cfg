CONSTANTS
    NoPath = NoPath
    SolNames = {"A.sol"}
    Plans <- MCPlans
    PlanOf <- MCPlanOf
    MaxRemoved = 1
    Lower <- MCLower
    PathOf <- MCPathOf
    Texts <- MCNamed
    FileLike = {"b.sol"}
    Outputs <- MCOutputs
    SourceLists <- MCSources
    Nothing = Nothing
    Libs <- MCLibs
    Addrs = {1, 2}
    CutName <- MCCut
    Contracts <- MCContracts
    LibArgs <- MCArgs
    W = 6
    Inputs <- MCInputs
    FileOrder <- MCFileOrder
    Kinds = {"contract", "error"}
SPECIFICATION Spec
INVARIANTS ArtifactsSound VerdictSound QueriesSound LinkSound SourceTextSound
CHECK_DEADLOCK FALSE

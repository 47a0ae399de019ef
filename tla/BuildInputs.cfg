CONSTANTS
    NoPath = NoPath
    Unspecified = Unspecified
    SolNames = {"A.sol", "B.sol", "C.sol", "D.sol", "E.sol", "L.sol", "X.sol"}
    VyperNames = {"A.vy", "W.vy", "L.vy", "I.vyi"}
    VyperInterfaces = {"I.vyi"}
    HiddenNames = {".git"}
    Worlds <- MCWorlds
    SomeSettings <- MCSettings
    SomeWords <- MCWords
    SomeRestrictions <- MCRestrictions
    Layouts <- MCLayouts
    NameOrder <- MCNameOrder
    RemapTexts <- MCTexts
    Builders = {"b1", "b2"}
    PoolOf <- MCPool
    BuildJobs <- MCJobs
    Preinstalled = {824}
    NoReporter = NoReporter
    Roots <- MCRoots
    Cwds <- MCCwds
    Givens <- MCGivens
    Elsewhere <- MCElsewhere
    OtherFile <- MCOther
    SourceNames = {"A.sol"}
    BuildIds <- MCBuildIds
SPECIFICATION Spec
INVARIANTS GraphFaithful InputsComplete ChoiceJustified RemappingsSound SettingsSound ToolchainSound FilesSound
CHECK_DEADLOCK FALSE

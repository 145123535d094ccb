SPECIFICATION Spec
CONSTANTS
    Names <- ThreeNames
    Packages <- MCPackages
    Outside <- MCOutside
    Environment = "environment"
    Meta = "_meta"
    RequireLists <- ShortLists
    NameOrder <- MCNameOrder
CHECK_DEADLOCK FALSE
INVARIANTS
    TypeOK
    PoppedOnce
    OrderRespectsDeps
    CycleIsReal
    EnvironmentFirst
    RejectedOnlyForEnvironment
    RankIsDepth
PROPERTIES
    Returns
    KeepsPromise

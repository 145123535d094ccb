SPECIFICATION Spec
CONSTANTS
    Catalog <- MCCatalog
    Flavors <- MCFlavors
    ExtraSets <- MCExtraSets
    SystemMap <- MCSystemMap
    ExampleNames <- MCExampleNames
    Goals <- MCGoals
CHECK_DEADLOCK FALSE
INVARIANTS
    TypeOK
    DebIsTranslatedRpm
    LayoutFirst
    InternalStaysOnHost
    BuildersAgree
    OneThreadingModel
    LinkedIsInstalled
PROPERTIES
    RefusedOnlyForExtras
    StopsOnlyForExtras
    TransactionEnds
    StackIsBuilt

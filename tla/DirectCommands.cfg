SPECIFICATION Spec
CONSTANTS
    Order <- ChainOrder
    Files <- ChainFiles
    Deps <- ChainDeps
    Payload <- ChainPayload
    PcFile <- ChainPc
    HostPc = {}
    Generated <- GeneratedNames
    NameOrder <- ChainSort
    NameStarts <- OwnName
    WritesManifest = FALSE
    Privileged = FALSE
    MaxVersion = 2
    Commands = {"all", "build", "install", "uninstall"}
    Options <- AllOptions
    Events = {"kill", "tear", "full", "bump", "fail", "stuck"}
    MaxEvents = 2
INVARIANTS
    TypeOK
    DependenciesStay

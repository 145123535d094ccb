SPECIFICATION Spec
CONSTANTS
    Order <- ChainOrder
    Files <- ChainFiles
    Deps <- ChainDeps
    Payload <- ChainPayload
    PcFile <- ChainPc
    HostPc = {}
    Generated <- GeneratedNames
    NameOrder <- ChainSort
    NameStarts <- OwnName
    WritesManifest = TRUE
    Privileged = TRUE
    MaxVersion = 1
    Commands = {"all", "uninstall"}
    Options <- AllOptions
    Events = {"kill", "tear", "full", "fail", "stuck"}
    MaxEvents = 3
PROPERTIES
    PublishesOwnBuild
    NothingUnrecorded
    KeepsPrefix

SPECIFICATION Spec
CONSTANTS
    Order <- ChainOrder
    Files <- ChainFiles
    Deps <- ChainDeps
    Payload <- ChainPayload
    PcFile <- ChainPc
    HostPc = {}
    Generated <- GeneratedNames
    NameOrder <- ChainSort
    NameStarts <- OwnName
    WritesManifest = TRUE
    Privileged = FALSE
    MaxVersion = 1
    Commands = {"build", "install"}
    Options <- Plain
    Events = {}
    MaxEvents = 0
PROPERTIES
    PublishesOwnBuild

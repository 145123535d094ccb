SPECIFICATION FairSpec
CONSTANTS
    Order <- ChainOrder
    Files <- ChainFiles
    Deps <- ChainDeps
    Payload <- ChainPayload
    PcFile <- ChainPc
    HostPc = {}
    Generated <- GeneratedNames
    NameOrder <- ChainSort
    NameStarts <- OwnName
    WritesManifest = TRUE
    Privileged = FALSE
    MaxVersion = 2
    Commands = {"all"}
    Options <- Plain
    Events = {"kill", "tear", "bump", "full", "fail"}
    MaxEvents = 3
PROPERTIES
    DirectCompletes

SPECIFICATION FairSpec
CONSTANTS
    Order <- ChainOrder
    BuildDeps <- ChainBuildDeps
    RunDeps <- ChainRunDeps
    PcNames = {"zlib"}
    HostPc = {}
    Sourceless <- MetaOnly
    Format = "deb"
    MaxVersion = 2
    Commands = {"all"}
    Events = {"kill", "tear", "bump", "remove", "unregister"}
    MaxEvents = 3
PROPERTIES
    StackCompletes
    KeepsHost

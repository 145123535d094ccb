SPECIFICATION Spec
CONSTANTS
    Order <- TwoOrder
    BuildDeps <- TwoBuildDeps
    RunDeps <- TwoRunDeps
    PcNames = {"hdf5"}
    HostPc = {}
    Sourceless <- MetaOnly
    Format = "deb"
    MaxVersion = 2
    Commands = {"all", "build", "install", "next"}
    Events = {"kill", "tear", "bump", "revert", "remove", "unregister"}
    MaxEvents = 4
INVARIANTS
    TypeOK
PROPERTIES
    FallbackKept
    InstallNotOlderThanBuild
    KeepsHost

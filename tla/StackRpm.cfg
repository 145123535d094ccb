SPECIFICATION Spec
CONSTANTS
    Order <- ThreeOrder
    BuildDeps <- ThreeBuildDeps
    RunDeps <- ThreeRunDeps
    PcNames = {"hdf5"}
    HostPc = {"cmake"}
    Sourceless <- MetaOnly
    Format = "rpm"
    MaxVersion = 2
    Commands = {"all", "build", "install", "next"}
    Events = {"kill", "bump", "revert", "remove", "wipe", "unregister", "break"}
    MaxEvents = 3
INVARIANTS
    InstalledHasSource
PROPERTIES
    BuildsInDependencyOrder
    DoneIsComplete
    KeepsHost

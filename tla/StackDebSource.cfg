SPECIFICATION Spec
CONSTANTS
    Order <- ChainOrder
    BuildDeps <- ChainBuildDeps
    RunDeps <- ChainRunDeps
    PcNames = {"zlib", "hdf5"}
    HostPc = {}
    Sourceless <- MetaOnly
    Format = "deb"
    MaxVersion = 1
    Commands = {"all"}
    Events = {}
    MaxEvents = 0
INVARIANTS
    InstalledHasSource

\* scls.py on rpm, deb, macOS and plain hosts, `install next' until all is there.
SPECIFICATION FairSpec
CONSTANTS
    Archives <- PairArchives
    Order <- PairOrder
    BuildDeps <- PairDeps
    RunDeps <- PairDeps
    PcNames <- ShortPc
    PlainNames <- ShortPlain
    Hosts <- SomeHosts
    Configs <- SomeConfigs
    MaxVersion = 2
    Events <- AnyEvents
    MaxEvents = 2
INVARIANTS
    TypeOK
PROPERTIES
    DeliversItsBuild
    NextBringsSomething
    InstallNextCompletes

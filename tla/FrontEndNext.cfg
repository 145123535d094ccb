\* scls.py on an rpm host where a transaction may fail: what `next' then says.
SPECIFICATION Spec
CONSTANTS
    Archives <- PairArchives
    Order <- PairOrder
    BuildDeps <- NoDeps
    RunDeps <- NoDeps
    PcNames <- ShortPc
    PlainNames <- ShortPlain
    Hosts <- RedHat
    Configs <- NoConfig
    MaxVersion = 1
    Events <- RefusedOnce
    MaxEvents = 1
PROPERTIES
    AllInstalledIsTrue

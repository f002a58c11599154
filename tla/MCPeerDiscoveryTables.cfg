SPECIFICATION Spec
CONSTANTS
    Tables <- AllTables
    MaxSvcs = 2
    MaxChrs = 3
    MaxDscs = 3
    GattProcs = 3
    MaxChains = 2
    Overlap = FALSE
INVARIANTS
    TypeOK
    MirrorOnComplete
    RunningIsDriven
    NoLeak
    NoAssertFailure
    OkIsUsable
    NoDuplicateChr
PROPERTIES
    ImplementsService
    DiscoveryEnds
    FailedLinkGoesDown
    NeverReturns

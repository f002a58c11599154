SPECIFICATION Spec
CONSTANTS
    Tables <- TwoServices
    MaxSvcs = 4
    MaxChrs = 4
    MaxDscs = 4
    GattProcs = 4
    MaxChains = 2
    Overlap = TRUE
INVARIANTS
    NoAssertFailure
CHECK_DEADLOCK FALSE

SPECIFICATION Spec
CONSTANTS
    Tables <- OverlapTables
    MaxSvcs = 2
    MaxChrs = 3
    MaxDscs = 3
    GattProcs = 3
    MaxChains = 2
    Overlap = TRUE
INVARIANTS
    NoDoubleFree
CHECK_DEADLOCK FALSE

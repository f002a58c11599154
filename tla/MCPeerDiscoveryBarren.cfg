SPECIFICATION Spec
CONSTANTS
    Tables <- BarrenTables
    MaxSvcs = 4
    MaxChrs = 4
    MaxDscs = 4
    GattProcs = 4
    MaxChains = 1
    Overlap = FALSE
PROPERTIES
    DiscoveryEnds

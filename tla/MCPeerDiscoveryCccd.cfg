SPECIFICATION Spec
CONSTANTS
    Tables <- HeroCamera
    MaxSvcs = 4
    MaxChrs = 4
    MaxDscs = 4
    GattProcs = 4
    MaxChains = 1
    Overlap = FALSE
INVARIANTS
    NotificationsEnabled

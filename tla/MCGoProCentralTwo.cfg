SPECIFICATION Spec
CONSTANTS
    hero9 = hero9
    hero12 = hero12
    max = max
    Dev = {hero9, hero12}
    NoDev = NoDev
    Handles <- TwoHandles
    MaxConn = 2
    Cmd <- TwoLayouts
INVARIANTS
    TypeOK
    PeersMirrorLinks
    ReadyMeansShutter
    HandlesKnown

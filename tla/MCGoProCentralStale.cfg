SPECIFICATION Spec
CONSTANTS
    hero9 = hero9
    hero12 = hero12
    max = max
    Dev = {hero9, hero12, max}
    NoDev = NoDev
    Handles <- TwoHandles
    MaxConn = 1
    Cmd <- WithoutCommand
INVARIANTS
    ShutterHitsCommand

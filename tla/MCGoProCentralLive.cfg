SPECIFICATION Spec
CONSTANTS
    hero9 = hero9
    hero12 = hero12
    max = max
    Dev = {hero9, max}
    NoDev = NoDev
    Handles = {0}
    MaxConn = 1
    Cmd <- OneWithout
PROPERTIES
    LinkResolves
    ProcedureFrees

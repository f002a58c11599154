SPECIFICATION Spec
CONSTANTS
    stack = stack
    zeros = zeros
    Junk = {stack, zeros}
    MaxStaConn = 2
    MaxJoins = 3
    MaxEvents = 2
    MaxPresses = 3
INVARIANTS
    TypeOK
    LastJoinSaved
    OncePerPress
PROPERTIES
    StoredGoesForward
    JoinSaved

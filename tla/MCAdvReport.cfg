SPECIFICATION Spec
CONSTANTS
    MaxFields = 3
    Reports <- AllReports
INVARIANTS
    Recognised
    ReadsBounded
PROPERTIES
    Decides
CHECK_DEADLOCK FALSE

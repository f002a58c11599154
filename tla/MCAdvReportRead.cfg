SPECIFICATION Spec
CONSTANTS
    MaxFields = 1
    Reports <- AllReports
INVARIANTS
    ReadsInside
CHECK_DEADLOCK FALSE

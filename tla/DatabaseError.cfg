SPECIFICATION Spec
CONSTANTS
    Primary = p
    Secondary = {}
INVARIANTS
    DatabaseErrorsShow
CHECK_DEADLOCK FALSE

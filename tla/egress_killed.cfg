CONSTANTS
    Secondary = TRUE
    MaxSwitches = 1
    FaultMixes <- OneKill
SPECIFICATION Spec
INVARIANTS ShownIsEnforced
CHECK_DEADLOCK FALSE

SPECIFICATION Spec
CONSTANTS
    Action0 <- InheritedActions
    OtherHandler = TRUE
    MaxCalls = 1
INVARIANTS
    NoChildError
CHECK_DEADLOCK FALSE

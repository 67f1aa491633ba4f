SPECIFICATION Spec
CONSTANTS
    Action0 <- AllActions
    OtherHandler = TRUE
    MaxCalls = 2
INVARIANTS
    TypeOK
    CallerSurvives
    CommandSignals
    RestoredOnReturn
    StatusIsTheCommands
CHECK_DEADLOCK FALSE

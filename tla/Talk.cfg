SPECIFICATION Spec
CONSTANTS
    Requests = {"q"}
    Ages <- MCAges
    Wants <- MCWants
    Cap = 3
INVARIANT RefusalCostsNothing
INVARIANT AnsweredOnce
INVARIANT TailIsTrue
PROPERTY GoesQuiet
CHECK_DEADLOCK FALSE

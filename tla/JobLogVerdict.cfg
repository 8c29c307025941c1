SPECIFICATION Spec
CONSTANTS
    Steps = 1
    Cancels = TRUE
    Kills = FALSE
    Tears = FALSE
INVARIANT CancelledNotFailed
CHECK_DEADLOCK FALSE

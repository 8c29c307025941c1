SPECIFICATION FairSpec
CONSTANTS
    Steps = 1
    Cancels = TRUE
    Kills = TRUE
    Tears = TRUE
INVARIANT SeqsGrow
INVARIANT StatusWhole
INVARIANT StatusMergesAll
INVARIANT CursorMissesNothing
PROPERTY EndSettles
PROPERTY PollersGoHome
CHECK_DEADLOCK FALSE

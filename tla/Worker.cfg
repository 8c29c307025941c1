SPECIFICATION FairSpec
CONSTANTS
    a = a
    b = b
    c = c
    NoTask = NoTask
    Tasks = {a, b}
    Capacity = 1
    Prefetch = 1
    OnceModes = {TRUE, FALSE}
    MaxClaims = 2
    Served = {a, b}
    NeedModels = {a}
    Timed = {a}
    Hangs = {a}
    FallbackApp = {a}
    Revocable = {a}
    Rehand = FALSE
INVARIANT HandlersWithinCapacity
INVARIANT OnlyGiveUpAbandons
INVARIANT ExitQuiet
PROPERTY LedgerSpec
PROPERTY ClaimedEnds
PROPERTY WorkerExits
CHECK_DEADLOCK FALSE

SPECIFICATION Spec
CONSTANTS
    a = a
    b = b
    c = c
    NoTask = NoTask
    Tasks = {a, b}
    Capacity = 1
    Prefetch = 0
    OnceModes = {FALSE}
    MaxClaims = 3
    Served = {a, b}
    NeedModels = {}
    Timed = {}
    Hangs = {}
    FallbackApp = {}
    Revocable = {a}
    Rehand = TRUE
INVARIANT HandlersWithinCapacity
CHECK_DEADLOCK FALSE

SPECIFICATION Spec
CONSTANTS
    Tasks = {"a", "b"}
    Timed = {"a"}
    Guarded = {"b"}
    Stopped = {"b"}
    Picky = {"a"}
    MaxDeaths = 1
INVARIANT NothingLeftGoing
PROPERTY TimedEnd
PROPERTY StalledEnd
CHECK_DEADLOCK FALSE

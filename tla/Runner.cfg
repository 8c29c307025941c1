SPECIFICATION Spec
CONSTANTS
    Registry <- MCRegistry
    Size <- MCSize
    Specs <- MCSpecs
    Budget = 3
    MaxFaults = 1
    MaxWrites = 1
INVARIANT PlanFits
INVARIANT NothingOverAHole
INVARIANT DoneIsWhole
INVARIANT OneResident
INVARIANT DoneIsDurable
PROPERTY EvictsPublished
CHECK_DEADLOCK FALSE

SPECIFICATION Spec
CONSTANTS
    Registry <- MCRegistry
    Size <- MCSize
    Specs <- MCSpecs
    Budget = 3
    MaxFaults = 1
    MaxWrites = 1
PROPERTY RawNeverModified
CHECK_DEADLOCK FALSE

SPECIFICATION Spec
CONSTANTS
    Boots <- MCBoots
    Askers <- MCAskers
    MaxAsks = 0
PROPERTY LogsBeforeDone
CHECK_DEADLOCK FALSE

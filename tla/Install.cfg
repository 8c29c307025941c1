SPECIFICATION Spec
CONSTANTS
    Plans <- MCPlans
    Blocks <- MCBlocks
    Pins <- MCPins
    Order <- MCOrder
    Optional = {"extra"}
    Retries = 1
    Attempts = 2
    MaxBoots = 2
    MaxTurns = 1
INVARIANT AsAsked
INVARIANT KitIsWhole
PROPERTY FileIsWhole
PROPERTY BootEnds
CHECK_DEADLOCK FALSE

SPECIFICATION BudgetSpec
CONSTANTS
    Paths <- MCPaths
    GatewaysOf <- MCGatewaysOf
    Preference <- MCPreference
    Levels = {0, 1, 3}
    DegradeFor = 2
    UnusableFor = 1
    StableFor = 1
    MinDwell = 1
    MaxMoves = 1
    Window = 3
    HoldAfter = 1
PROPERTIES MovesAreRationed
CHECK_DEADLOCK FALSE

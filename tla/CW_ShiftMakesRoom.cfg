CONSTANTS
    NCtx = 8
    NCells = 9
    BatchSize = 4
    Headroom = 2
    HasTemplate = TRUE
    SystemSizes <- MCSystemSizes
    UserSizes <- MCUserSizes
    PredictLengths <- MCPredictLengths
    MaxDecoded = 14
SPECIFICATION CacheSpec
INVARIANT
    ShiftMakesRoom
CHECK_DEADLOCK FALSE

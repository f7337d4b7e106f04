CONSTANTS
    NCtx = 8
    NCells = 9
    BatchSize = 4
    Headroom = 2
    HasTemplate = TRUE
    SystemSizes <- MCSystemSizes
    UserSizes <- MCUserSizes
    PredictLengths <- MCPredictLengths
    MaxDecoded = 14
SPECIFICATION CacheSpec
INVARIANTS
    SystemPromptKept
    RecentHistory
    GenerationFits
    ReplyBudget
    FreshContext
    ChatWellFormed
    CellsHoldWindow
    KeysFollowPositions
    NothingFreeBehindHead
    SlotIsFound
CHECK_DEADLOCK FALSE

CONSTANTS
    MaxLoads = 3
    MaxQueue = 2
SPECIFICATION FairSpec
INVARIANTS
    LoadedIsLive
    NoStaleUse
    SuspendedOwnsEngine
    NothingLeaks
PROPERTIES
    CancelSticks
    CancelEndsReply
    ImplementsLifecycle
CHECK_DEADLOCK FALSE

CONSTANTS
    MaxLoads = 2
    MaxQueue = 2
SPECIFICATION Spec
INVARIANT
    NoOperationLeftBehind
CHECK_DEADLOCK FALSE

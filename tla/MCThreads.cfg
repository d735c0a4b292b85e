SPECIFICATION Spec
CONSTANTS
    MaxTid = 3
    MaxThreads = 3
    Late = {"signal"}
    Requests <- AllRequests
    MaxMoves = 2
    MaxRequests = 2
INVARIANTS
    AllStopped
PROPERTIES
    RegistersRestored
CHECK_DEADLOCK FALSE

SPECIFICATION Spec
CONSTANTS
    MaxTid = 3
    MaxThreads = 2
    Late = {"clone", "exit"}
    Requests <- Restores
    MaxMoves = 1
    MaxRequests = 2
INVARIANTS
    NothingHeld
PROPERTIES
    OperationEnds
CHECK_DEADLOCK FALSE

SPECIFICATION Spec
CONSTANTS
    MaxRequests = 5
    MaxOutstanding = 1
    Keepalive = 4
    Calls <- SerialCalls
    MaxCalls = 2
INVARIANT
    NoRequestLost
PROPERTY
    EveryRequestAnswered
CHECK_DEADLOCK FALSE

SPECIFICATION Spec
CONSTANTS
    MaxRequests = 3
    MaxOutstanding = 2
    Keepalive = 3
    Calls = {}
    MaxCalls = 0
INVARIANT
    NoRequestLost
CHECK_DEADLOCK FALSE

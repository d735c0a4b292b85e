SPECIFICATION Spec
CONSTANTS
    MaxRequests = 5
    MaxOutstanding = 3
    Keepalive = 4
    Calls <- QuietCalls
    MaxCalls = 2
INVARIANTS
    Isolated
    OneConversation
    KeptAliveLongEnough
PROPERTIES
    ImplementsContainer
    EveryAskAnswered
CHECK_DEADLOCK FALSE

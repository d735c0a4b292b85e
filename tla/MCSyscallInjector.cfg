SPECIFICATION InjectorSpec
CONSTANTS
    mmap = mmap
    brk = brk
    Call <- TwoCalls
    MaxCalls = 3
    MaxSignals = 2
INVARIANTS
    CallsAreClean
PROPERTIES
    NotHalfRestored
    CallEnds
CHECK_DEADLOCK FALSE

SPECIFICATION Spec
CONSTANTS
    w1 = w1
    w2 = w2
    w3 = w3
    Workers <- ThreeWorkers
    MaxJobs = 4
INVARIANTS
    TypeOK
    JobsAccounted
    ResultsComplete
    FreedAfterLoops
PROPERTIES
    WaitReturns
    DestroyReturns
CHECK_DEADLOCK FALSE

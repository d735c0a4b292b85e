SPECIFICATION Spec
CONSTANTS
    MaxLines = 4
    MaxPages = 2
    Workers = 2
INVARIANTS
    Listed
    PagesInPlace
PROPERTIES
    TableStays
CHECK_DEADLOCK FALSE

SPECIFICATION Spec
CONSTANTS
    Programs <- BothPrograms
    Inherited = {0, 1, 2, 3, 4}
    MaxFd = 14
    Id = {0, 1, 2}
INVARIANTS
    Wired
    HeldOnce
    PrivilegesDropped
PROPERTIES
    LauncherEnds
CHECK_DEADLOCK FALSE

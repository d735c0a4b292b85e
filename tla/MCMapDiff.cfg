SPECIFICATION Spec
CONSTANTS
    Pages = 4
    Prot <- MCProt
    Tag <- MCTag
    InitialLayouts <- MCInitialLayouts
    FinalLayouts <- MCFinalLayouts
INVARIANTS
    RestoresShape
    ListsMatch
    MunmapIsRepaired
    ChangeIsRestored
    RemapOnlyTheMissing
PROPERTIES
    Terminates
CHECK_DEADLOCK FALSE

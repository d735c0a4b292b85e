SPECIFICATION Spec
CONSTANTS
    LastPage = 7
    HeapStart = 0
    Prot <- MCProt
    Tag <- MCTag
    InitialSpaces <- Plain
    FunctionOps <- BenignOps
    MmapProts = {{"r", "w"}}
    MprotectProts = {{}, {"r"}, {"r", "w"}}
    MapArea <- MCMapArea
    HeapMax = 3
    StackMin = 6
    MaxOps = 2
    MaxRestores = 2
INVARIANTS
    RestoredIdentical
    NeverAborts
    CleanMeansUnchanged
PROPERTIES
    WrittenFramesDropped
CHECK_DEADLOCK FALSE

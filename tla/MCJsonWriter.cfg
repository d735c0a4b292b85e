SPECIFICATION Spec
CONSTANTS
    JWRITE_STACK_DEPTH = 3
    BufLens = {0, 2, 7, 16, 30}
    Texts = {"plain"}
    GoesOn = FALSE
    NStats = 42
    StatsBufLen = 16384
    NameLen = 54
    NumberLens = {1, 18}
INVARIANTS
    ClosedIsJson
    StackIsText
    StatsFit
CHECK_DEADLOCK FALSE

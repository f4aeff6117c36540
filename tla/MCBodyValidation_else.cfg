CONSTANTS
    FloatTypes = {}
    Locals <- NoVariables
    Globals <- NoVariables
    HasMemory = FALSE
    HasTable = FALSE
    Families = {"const32", "drop"}
    Callees <- OneParam
    BodyResults = {"i32"}
    BlockTypes = {"i32"}
    MaxStack = 2
    MaxDepth = 2
    MaxBlocks = 5
    MaxTargets = 0
SPECIFICATION LockSpec
INVARIANTS
    ElseRequired
CHECK_DEADLOCK FALSE

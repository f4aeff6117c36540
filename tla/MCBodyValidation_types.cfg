CONSTANTS
    FloatTypes = {"f32"}
    Locals <- OneLocal
    Globals <- OneGlobal
    HasMemory = TRUE
    HasTable = TRUE
    Families = {"nop", "drop", "select", "eqz", "const", "const32", "local", "global", "memory",
                "access", "trunc", "compare", "binary", "shift", "divide", "srem", "minmax",
                "unary", "cast", "signext"}
    Callees <- OneParam
    BodyResults = {"void"}
    BlockTypes = {"i32", "void"}
    MaxStack = 2
    MaxDepth = 2
    MaxBlocks = 4
    MaxTargets = 1
SPECIFICATION LockSpec
INVARIANTS
    TypeOK
    FunctionEndsClean
    StacksAgree
    ValidBodiesAccepted
    IllTypedBodiesRefused
CHECK_DEADLOCK FALSE

CONSTANTS
    FloatTypes = {}
    Locals <- NoVariables
    Globals <- NoVariables
    HasMemory = FALSE
    HasTable = FALSE
    Families = {"drop", "srem"}
    Callees <- Giver
    BodyResults = {"i32"}
    BlockTypes = {"i32"}
    MaxStack = 2
    MaxDepth = 3
    MaxBlocks = 6
    MaxTargets = 0
SPECIFICATION LockSpec
INVARIANTS
    OpenBlocks
    PhiPerEdge
    FramesAligned
    OnlyTopSkipped
    StacksAgree
    OperandsDominate
    ValidBodiesAccepted
    IllTypedBodiesRefused
PROPERTIES
    TerminatorsFinal
CHECK_DEADLOCK FALSE

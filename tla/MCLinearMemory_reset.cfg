CONSTANTS
    PageSize = 2
    MaxPages = 4
    Contexts = {c1, c2}
    Modules <- FittingModules
    Bytes = {0, 1}
    Operands = {0, 3, 6}
    Widths = {1, 2}
SPECIFICATION ResetSpec
INVARIANTS
    Zeroed
CHECK_DEADLOCK FALSE

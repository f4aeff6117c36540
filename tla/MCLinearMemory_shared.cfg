CONSTANTS
    PageSize = 2
    MaxPages = 4
    Contexts = {c1, c2}
    Modules <- AllModules
    Bytes = {0, 1}
    Operands = {0, 3, 6}
    Widths = {1, 2}
SYMMETRY Symmetry
SPECIFICATION Spec
INVARIANTS
    TypeOK
    LinkedLimits
    Zeroed
PROPERTIES
    Promise
CHECK_DEADLOCK FALSE

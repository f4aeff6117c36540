CONSTANTS
    Contexts = {c1, c2}
    Modules <- AllModules
    TableSize = 3
    TableMaximum = 4
SPECIFICATION Spec
INVARIANTS
    IndicesReplaced
CHECK_DEADLOCK FALSE

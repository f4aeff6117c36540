CONSTANTS
    Contexts = {c1, c2, c3}
    Modules <- AllModules
    TableSize = 3
    TableMaximum = 4
SPECIFICATION Spec
INVARIANTS
    TypeOK
    SlotsBound
    AddressesTyped
    IndicesTransient
CHECK_DEADLOCK FALSE

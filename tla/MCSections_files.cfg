SPECIFICATION Spec
CONSTANTS
    Files <- SomeFiles
    HostValue = 2
    TableSize = 4
    MemoryBytes = 5
    Modulus = 16
INVARIANTS TypeOK InStep ImportsKeepNoBody BodiesBelong StartSeesAll SegmentsAllOrNone LateOffsetsRefused
PROPERTIES Terminates
CHECK_DEADLOCK FALSE

SPECIFICATION Spec
CONSTANTS
    Width = 4
    MaxExponent = 7
    MaxMantissa = 3
    QuietBit = 2
    PayloadBits = 3
    IntWidth = 5
    MaxBytes = 4
    Ranges <- MCRanges
INVARIANTS Decodes IntegersExact MinMaxExact NansQuieted TruncExact
CHECK_DEADLOCK FALSE

SPECIFICATION Spec
CONSTANTS
    Contexts <- Three
    ProgramsOf <- SomePrograms
    HostExports <- SpecTest
    Values = {0, 1}
INVARIANTS ImportsHonoured RelaysMayGo
PROPERTIES RefusedForCause ImmutableKept
CHECK_DEADLOCK FALSE

SPECIFICATION Spec
CONSTANTS
    AtomOrder <- MCAtomOrder
    Name <- MCName
    Source <- MCSource
    Indexed <- resources_of
    Allocated <- Allocates
    Generated <- generate_code
    Object <- write_object
    Before <- Precedes
    MaxRuns = 1
    MaxDepth = 4
INVARIANTS
    ReadsBack EveryFunctionFound JumpsLand RegistersApart ListsCode
PROPERTIES
    WritesAsBuild
CHECK_DEADLOCK FALSE

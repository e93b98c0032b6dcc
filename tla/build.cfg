SPECIFICATION Spec
CONSTANTS
    app = app
    base = base
    core = core
    lib = lib
    Name <- MCName
    Source <- MCSource
    Before <- Alphabetical
    MaxRuns = 3
    MaxDepth = 5
INVARIANTS
    TypeOK ImportsFirst FailuresTruncateNothing
PROPERTIES
    QbcEnds
CHECK_DEADLOCK FALSE

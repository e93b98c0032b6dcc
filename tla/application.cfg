CONSTANTS
    NumWorkers = 2
    MaxPid = 4
SPECIFICATION FairSpec
INVARIANTS
    TypeOK
    OneOwner
    QueuedOnce
    PidsUnique
    PidsKnown
    Balanced
PROPERTIES
    NewProcessAssigned
    Stops
CHECK_DEADLOCK FALSE

CONSTANTS
    Frame = {f1, f2, f3}
    Stream = {s1, s2}
    None = None
    Allowed = {}
SPECIFICATION FairSpec
INVARIANTS
    TypeOK
    OneHome
    NoLostFrame
    NoDangling
    CallOutlivesPaths
    CallStack
    ForkTree
    IoAccounting
    EmptyWorkerIsDone
PROPERTIES
    QueueOrder
    QueuedFrameRuns
    EveryFrameEnds
CHECK_DEADLOCK FALSE

CONSTANTS
    NumWorkers = 2
    MaxPid = 3
SPECIFICATION Spec
INVARIANT NoProcessForgotten
CHECK_DEADLOCK FALSE

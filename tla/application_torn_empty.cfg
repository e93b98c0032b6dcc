CONSTANTS
    NumWorkers = 2
    MaxPid = 3
SPECIFICATION Spec
INVARIANT NoProcessCutOff
CHECK_DEADLOCK FALSE

CONSTANTS
  Function <- MCFunction
  Construct <- MCConstruct
  Override <- MCOverride
  Main <- MCMain
  Known <- MCKnown
  Meaning <- MCMeaning
  Stuck <- MCStuck
  NumWorkers = 2
  MaxFrames = 8
  MaxRefs = 3
SPECIFICATION Spec
INVARIANTS TypeOK Determinate PromisesKept RoomForRegisters
PROPERTIES DispatchFresh FailuresReachCaller ProgramEnds
CHECK_DEADLOCK FALSE

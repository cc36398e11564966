SPECIFICATION EvalFairSpec
CONSTANTS
  Jobs = 2
  N = 4
  Counted = {0, 2, 3}
  Detectors = {d1, d2, d3}
  NoDetector = NoDetector
  Free = Free
INVARIANTS
  RoomForEveryError
  EachJobOnce
  ErrorTellsAll
  OneUserPerDetector
  JudgedAlone
  NothingUncounted
PROPERTY
  EvaluateReturns
CHECK_DEADLOCK FALSE

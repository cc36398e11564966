SPECIFICATION Spec
CONSTANTS
  Bits = 8
  ElementBits = 4
  IntegerBits = 2
  SampleBits = 6
  WindowBits = 3
  AccBits = 12
  SignalBits = 8
  SmoothBits = 4
  SizeBits = 4
  FmtSize = 3
  MaxOutput = 7
  Parts = 20
  FrameStep = 10
  NumChannels = 2
  Calls <- MCCalls
INVARIANTS
  TransformIsDFT
  FilterbankCovers
  RootsAreNearest
  ScaledUpWithoutWrap
  NoiseBounded
  GainInterpolates
  RequantizesNearest
  ReadsWhatWasWritten
  SettingsDecide
CHECK_DEADLOCK FALSE

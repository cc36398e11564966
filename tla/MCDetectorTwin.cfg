SPECIFICATION TwinSpec
CONSTANTS
  MinSlices = 2
  MaxProb = 2
  Frames = {f, g}
  Blank = Blank
  Wake <- MCWake
  Vad <- MCVad
  HasVad = TRUE
  FrameWrap = 1
  NoEvent = NoEvent
  NoReport = NoReport
INVARIANTS
  ResetMakesNew

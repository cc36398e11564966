SPECIFICATION Spec
CONSTANTS
  MinSlices = 3
  MaxProb = 3
  Frames = {f}
  Blank = Blank
  Wake <- MCWake
  Vad <- MCVad
  HasVad = TRUE
  FrameWrap = 2
  NoEvent = NoEvent
  NoReport = NoReport
INVARIANTS
  TypeOK
  EventAboveCutoff
PROPERTY
  ImplementsRule

SPECIFICATION AuditSpec
CONSTANTS
  MinSlices = 3
  MaxProb = 2
  Frames = {f, g}
  Blank = Blank
  Wake <- MCWake
  Vad <- MCVad
  HasVad = TRUE
  FrameWrap = 1
  NoEvent = NoEvent
  NoReport = NoReport
INVARIANTS
  EventsAreSpaced
  ScoresLatestFrames
  SameStrideTogether

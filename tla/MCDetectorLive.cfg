SPECIFICATION LiveSpec
CONSTANTS
  MinSlices = 2
  MaxProb = 2
  Frames = {f}
  Blank = Blank
  Wake <- MCWake
  Vad <- MCVad
  HasVad = TRUE
  FrameWrap = 1
  NoEvent = NoEvent
  NoReport = NoReport
PROPERTIES
  QuietRearms
  SustainedWordReported
  SpeechUnblocks

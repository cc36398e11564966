SPECIFICATION FairSpec
CONSTANTS
  Size = 5
  Step = 2
  MaxChunk = 8
  MaxSamples = 16
  MaxEvents = 2
  FrameWrap = 8
  NoWindow = NoWindow
INVARIANTS
  FramesFollowSamples
  SampleIsWindowEnd
PROPERTIES
  ImplementsFraming
  FeedEnds

SPECIFICATION FairSpec
CONSTANTS
  Size = 3
  Step = 0
  MaxChunk = 4
  MaxSamples = 8
  MaxEvents = 0
  FrameWrap = 2
  NoWindow = NoWindow
PROPERTY
  FeedEnds

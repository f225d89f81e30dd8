CONSTANTS
  Options <- SomeOptions
  LeftOver <- SomeLeftOver
  MaxIdx = 2
  MaxRaw <- SomeRaw
  MaxFaults = 1
  OpenRetry = 1
  FreshFor = 1
SPECIFICATION FairSpec
PROPERTIES
  FallsBackToRaw

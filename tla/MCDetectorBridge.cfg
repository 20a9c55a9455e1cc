CONSTANTS
  Frames <- MCFrames
  MaxDetections = 3
  MaxInbox = 2
  MaxInputs = 3
  MaxDrops = 1
SPECIFICATION FairSpec
CHECK_DEADLOCK FALSE
INVARIANTS TypeOK PublishedIsWorstDetection PublishedIsState
PROPERTIES EchoesEnd PollingGoesOn StateIsRepublished

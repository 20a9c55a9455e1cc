CONSTANTS
  Frames <- MCShortFrames
  MaxDetections = 3
  MaxInbox = 1
  MaxInputs = 0
  MaxDrops = 0
SPECIFICATION Spec
CHECK_DEADLOCK FALSE
PROPERTIES HealthFailureOnlyStopsPipeline

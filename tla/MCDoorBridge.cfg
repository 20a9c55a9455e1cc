CONSTANTS
  CommandThreads = {net}
  Poller = poller
  NoThread = none
  Callers <- MCCallers
  VendorData <- MCDoorStates
  Requests <- MCRequests
  MaxEpoch = 2
  MaxRequests = 1
  MaxDrops = 1
  MaxFailedWrites = 1
SPECIFICATION Spec
CHECK_DEADLOCK FALSE
INVARIANTS TypeOK LockIsHeldInside SerializedUntilStop SuccessIsPublished PanelShowsLastPoll RetainedIsOneStatus
PROPERTIES NoStalePublish

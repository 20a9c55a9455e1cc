CONSTANTS
  CommandThreads = {net}
  Poller = poller
  NoThread = none
  Callers <- MCCallers
  VendorData <- MCDoorStates
  Requests <- MCOneRequest
  MaxEpoch = 1
  MaxRequests = 0
  MaxDrops = 0
  MaxFailedWrites = 1
SPECIFICATION FairSpec
CHECK_DEADLOCK FALSE
PROPERTY PanelShowsLatestPolledState

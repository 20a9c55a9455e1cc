CONSTANTS
  CommandThreads = {net}
  Poller = poller
  NoThread = none
  Callers <- MCCallers
  VendorData <- MCDoorStates
  Requests <- MCOneRequest
  MaxEpoch = 1
  MaxRequests = 1
  MaxDrops = 1
  MaxFailedWrites = 0
SPECIFICATION FairSpec
CHECK_DEADLOCK FALSE
PROPERTIES CommandsEnd StopEnds RetainedConverges

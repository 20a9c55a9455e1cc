CONSTANTS
  Callers = {net, poller}
  Texts <- MCTexts
  Letters <- MCLetters
  Devices <- MCDevices
  PendingTexts <- MCPendingTexts
  MaxEpoch = 2
  MaxLate = 1
SPECIFICATION FairSpec
CHECK_DEADLOCK FALSE
INVARIANT TypeOK
PROPERTIES ImplementsDoorGateway CallsEnd

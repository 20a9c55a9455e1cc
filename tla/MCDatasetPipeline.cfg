CONSTANTS
  lila = lila
  roboflow = roboflow
  a = a
  b = b
  c = c
  NoFile = NoFile
  Sources <- MCSources
  Required = {lila}
  Resuming = {lila}
  Images <- MCImages
  Source <- MCSource
  Split <- MCSplit
  Order <- MCOrder
  Digests = {d1, d2, bad}
  Broken = {bad}
  Group <- SharedGroup
  Twins = {b}
  MaxRuns = 2
  MaxBuilds = 1
  MaxInterrupts = 1
SPECIFICATION Spec
SYMMETRY Interchangeable
INVARIANTS TypeOK SuccessIsComplete AcceptedIsComplete NoLeakage
PROPERTIES FinishedWorkIsKept
CHECK_DEADLOCK FALSE

CONSTANTS
  lila = lila
  roboflow = roboflow
  a = a
  b = b
  c = c
  NoFile = NoFile
  Sources <- MCSources
  Required = {lila}
  Resuming = {lila}
  Images <- MCImages
  Source <- MCSource
  Split <- MCSplit
  Order <- MCOrder
  Digests = {d1, d2, d3}
  Broken = {}
  Group <- OwnGroup
  Twins = {}
  MaxRuns = 3
  MaxBuilds = 0
  MaxInterrupts = 1
SPECIFICATION Spec
SYMMETRY Interchangeable
INVARIANTS CoverageRejectsOmissions
CHECK_DEADLOCK FALSE

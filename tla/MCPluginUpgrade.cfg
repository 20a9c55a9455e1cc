CONSTANTS
  Page = Page
  Upgrader = Upgrader
  NoPid = NoPid
  NoRuntime = NoRuntime
  Legacy = Legacy
  Callers = {Page, Upgrader}
  Pids = {p1, p2}
  Runtimes = {r1, r2, r3}
  MaxUpgrades = 2
  MaxCalls = 1
  MaxPowerCuts = 1
  MaxSignals = 1
SPECIFICATION Spec
SYMMETRY Interchangeable
INVARIANTS TypeOK BridgeIsTracked  VenvIsValidated PreviousIsAWayBack
PROPERTIES FailedStartLeavesNothing UpgradeRunsNewCode

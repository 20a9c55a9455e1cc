CONSTANTS
  Page = Page
  Upgrader = Upgrader
  NoPid = NoPid
  NoRuntime = NoRuntime
  Legacy = Legacy
  Callers = {Page, Upgrader}
  Pids = {p1, p2}
  Runtimes = {r1, r2, r3}
  MaxUpgrades = 2
  MaxCalls = 0
  MaxPowerCuts = 0
  MaxSignals = 0
SPECIFICATION Spec
SYMMETRY Interchangeable
PROPERTIES PreviousUntilSuccess

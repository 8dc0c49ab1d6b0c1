SPECIFICATION FaultSpec
CONSTANTS
  N = 2
  Duration <- MCDuration
  Intervals = {1}
  TimeCap = 2
  Clients = {c1}
  Main = main
INVARIANTS FaultTypeOK OffHasNoCurrent RestUnlessHalf LeavesUnloaded
PROPERTIES ImplementsFaultGame

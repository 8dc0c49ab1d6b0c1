SPECIFICATION Spec
CONSTANTS
  N = 2
  Duration <- MCDuration
  Intervals = {1}
  TimeCap = 3
  Clients = {c1}
  Main = main
INVARIANTS TickHasPuzzle

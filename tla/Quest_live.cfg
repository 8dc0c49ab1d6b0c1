SPECIFICATION FairSpec
CONSTANTS
  N = 2
  Duration <- MCShort
  Intervals = {1}
  TimeCap = 2
  Clients = {c1}
  Main = main
PROPERTIES RunEnds SessionEnds

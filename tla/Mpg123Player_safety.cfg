SPECIFICATION Spec
CONSTANTS
  Players = {background, oneShot}
  Pids = {1, 2, 3, 4}
  Stranger = stranger
  Nobody = nobody
INVARIANTS TypeOK NoOrphan
PROPERTIES KillsOne

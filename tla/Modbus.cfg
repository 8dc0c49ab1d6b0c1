SPECIFICATION FairSpec
CONSTANTS
  Threads = {t1, t2}
  Slaves = {door, board}
  Active = {board}
  Values = {v1, v2}
  RetryCount = 10
  Free = free
  Garbage = garbage
INVARIANTS TypeOK OwnSlave SuccessIsReal WriteIsolated RetriesUsed
PROPERTIES CallsReturn ImplementsLine

SPECIFICATION Spec
CONSTANTS
  Scripts = {s1, s2}
  MaxObjects = 1
  Clients = {c1}
  Main = main
  None = none
INVARIANTS SavedScriptRuns

SPECIFICATION Spec
CONSTANTS
  Scripts = {s1, s2}
  MaxObjects = 2
  Clients = {c1, c2}
  Main = main
  None = none
SYMMETRY Symmetry
INVARIANTS TypeOK SavedSurvives PythonNeedsInterpreter LoopYieldsGil LoopIteratorValid BindingAlone OnlyLoadingBlocks

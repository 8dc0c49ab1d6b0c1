SPECIFICATION FairSpec
CONSTANTS
  Scripts = {s1}
  MaxObjects = 1
  Clients = {c1}
  Main = main
  None = none
PROPERTIES Unloads

CONSTANTS
  p1 = p1  p2 = p2
  c1 = c1  c2 = c2
  main = main  feature = feature
  none = none
  Procs = {p1, p2}
  Conns = {c1, c2}
  ReadSlots = 1
  Branches = {main, feature}
  Main = main
  NoConn = none
SPECIFICATION FairSpec
INVARIANTS CleanPool LandsOnceOnTarget OkIsDurable RegistryIsExact
           QuietWhenDown
PROPERTIES KeepsPromise CloseTerminates

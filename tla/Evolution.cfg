CONSTANTS
  p1 = p1  p2 = p2
  main = main  feature = feature
  t1 = t1
  s1 = s1
  none = none
  Procs = {p1, p2}
  Branches = {main, feature}
  Main = main
  Tags = {t1}
  Sessions = {s1}
  None = none
  MaxCommits = 5
  MaxRefCommits = 3
  MaxRevision = 2
SPECIFICATION MCSpec
INVARIANTS NothingOutdated KernelKeepsValid RefsStayValid StagedOnHead
PROPERTIES KeepsHistory HeadsOnlyAdvance
SYMMETRY Callers
\* The bound on commits can be used up with nothing left to do.
CHECK_DEADLOCK FALSE

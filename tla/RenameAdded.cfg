CONSTANTS
  A = A  B = B  C = C
  n1 = n1
  none = none
  Names = {A, B, C}
  Base = {A, B}
  Aliases = {n1}
  None = none
  MaxEntries = 3
  MaxRefs = 2
SPECIFICATION Spec
INVARIANT NoDuplicateAccepted
\* Planning ends: the plan is accepted or the patch is refused.
CHECK_DEADLOCK FALSE

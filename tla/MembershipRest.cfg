SPECIFICATION Spec
INVARIANT WholeSetComesBack
CHECK_DEADLOCK FALSE

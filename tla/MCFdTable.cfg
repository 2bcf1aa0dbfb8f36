SPECIFICATION Spec
CONSTANTS
  p1 = p1
  p2 = p2
  f1 = f1
  f2 = f2
  con = con
  NULL = NULL
  Procs = {p1, p2}
  init = p1
  Files = {con, f1, f2}
  FD_MAX = 3
SYMMETRY FileSymmetry
INVARIANTS TypeOK RefsExact ExistsIffReferenced OnlyLiveHold
PROPERTY LifeByHolders
\* Every process may exit.
CHECK_DEADLOCK FALSE

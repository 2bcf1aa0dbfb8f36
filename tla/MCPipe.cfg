CONSTANTS
  p1 = p1
  p2 = p2
  p3 = p3
  Procs = {p1, p2, p3}
  root = p1
  Bytes = {0, 1}
  PIPE_BUF_SIZE = 2
  SIZE_MOD = 4
  MaxLen = 2
SPECIFICATION Spec
SYMMETRY Forked
VIEW LiveView
INVARIANTS TypeOK CountersAgree NoLostWakeup FreedUnused
PROPERTIES IsQueue

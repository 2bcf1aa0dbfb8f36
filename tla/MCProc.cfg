CONSTANTS
  idle = idle
  init = init
  a = a
  b = b
  c = c
  NULL = NULL
  Procs = {idle, init, a, b, c}
  PID_MAX = 6
  SCHED_TIMESLICE = 1
  Codes = {1}
  KillPids <- KillOne
  KillSignals = {19}
  WaitPids <- WaitAnyOrOne
  Faults = {}
  SigActions = {}
  Masks = {}
SPECIFICATION Spec
SYMMETRY Interchangeable
INVARIANTS TypeOK RunqConsistent ReadyIffQueued OnlyCurrentRuns FamilyTree PidTableSound WaiterWoken
PROPERTIES ZombieStaysDead OnlyParentReaps

CONSTANTS
  idle = idle
  init = init
  a = a
  b = b
  c = c
  NULL = NULL
  Procs = {idle, init, a}
  PID_MAX = 4
  SCHED_TIMESLICE = 1
  Codes = {1}
  KillPids <- KillOne
  KillSignals = {9}
  WaitPids <- WaitAnyOrOne
  Faults = {}
  SigActions = {}
  Masks = {}
SPECIFICATION Spec
INVARIANT WaitSurvivesWakeup

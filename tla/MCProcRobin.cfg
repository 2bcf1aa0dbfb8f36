CONSTANTS
  idle = idle
  init = init
  a = a
  b = b
  c = c
  NULL = NULL
  Procs = {idle, init, a, b}
  PID_MAX = 5
  SCHED_TIMESLICE = 1
  Codes = {1}
  KillPids <- KillOne
  KillSignals = {9}
  WaitPids <- WaitAnyOrOne
  Faults = {}
  SigActions = {}
  Masks = {}
SPECIFICATION FairSpec
PROPERTIES ReadyRuns KillTakesEffect

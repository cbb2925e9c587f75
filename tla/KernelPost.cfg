SPECIFICATION Spec
CONSTANTS
  t1 = t1
  t2 = t2
  idle = idle
  Task = {t1, t2, idle}
  Idle = idle
  OS_LOWEST_PRIO = 3
  Ticks = {1}
  CNT_MAX = 1
  NEST_MAX = 0
  LOCK_MAX = 0
  FRESH = FALSE
SYMMETRY Symmetry
PROPERTY PostSignals
CHECK_DEADLOCK FALSE

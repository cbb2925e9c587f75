SPECIFICATION Spec
CONSTANTS
  t1 = t1
  t2 = t2
  idle = idle
  Task = {t1, t2, idle}
  Idle = idle
  OS_LOWEST_PRIO = 3
  Ticks = {2}
  CNT_MAX = 1
  NEST_MAX = 2
  LOCK_MAX = 2
  FRESH = TRUE
SYMMETRY Symmetry
INVARIANTS TypeOK ReadyExact WaitersPend HighestRuns
PROPERTY ImplementsSemaphore

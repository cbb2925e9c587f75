SPECIFICATION FairSpec
CONSTANTS
  LAST = 1
  Delay <- MCDelay
  BUSY <- MCBusy
  STAT_DLY = 1
  TIME_MOD = 16
  U16 = 16
  MSG_INTERVAL = 8
  MESSAGE_NUM = 3
  IWDG_TICKS = 8
INVARIANTS LoopTypeOK NoDrift HandledNextTick WatchdogFed
PROPERTIES PeriodExact NeverEarly EveryLoopRuns

SPECIFICATION MutexSpec
CONSTANTS
  PIP = 0
  OS_LOWEST_PRIO = 4
  Timeout = {1, 2}
  CAREFUL = FALSE
PROPERTY NoneMeansOwner

SPECIFICATION Spec
CONSTANTS
  NBlks = 4
  Full = Full
  NoBlock = NoBlock
  OSQSize = 3
  Message = {a, b, c}
  Ok = Ok
  QFull = QFull
  QEmpty = QEmpty
  Key = {0, 1}
  inputOffTime = 2
  inputLongTime = 4
  BLINK = 4
  Period = {1, 3}
  PIP = 0
  OS_LOWEST_PRIO = 5
  Timeout = {1, 2}
  CAREFUL = TRUE
  at_cmdLenMax = 4
  Byte = {"A", "T", "E", "0", "1", "=", "?", "CR", "LF"}
  ExeName <- MCExe
  QueryName <- MCQuery
  TestName <- MCQuery
  SetupName <- MCSetup
  EchoName <- MCEcho
  DebugName <- MCDebug
  Datum <- MCDatum
  Buffer <- MCBuffer
  Wanted = {0, 1}
INVARIANTS
  MemTypeOK FreeListWhole
  QTypeOK PointersAgree
  InputTypeOK
  MutexTypeOK MutexReadyExact PriorityInheritance MutualExclusion WaitListWaits HighestRunsOncePosted
  AtTypeOK
  ToolsMeetTheirDocs
PROPERTIES ImplementsPool ImplementsDeque ImplementsDebouncer ImplementsLock ExecutesLine

SPECIFICATION StructuresSpec
CONSTANTS
  v1 = v1
  v2 = v2
  v3 = v3
  x = x
  y = y
  main = main
  RQueues <- MCVariables
  RItems <- MCContents
  Raw = Raw
  Width = 8
  Caps = {2, 4, 8}
  MaxItems = 4
  MaxArgs = 2
  LQueues <- MCVariables
  LItems <- MCContents
  BlockItems = 2
  SizeWidth = 16
  MaxHeld = 5
  MaxReserve = 5
  MaxMoves = 1
  Acts <- MCContents
  Cleaners <- MCVariables
  Buffers <- MCVariables
  BlockLen = 2
  Timers <- MCContents
  Digits = 3
  Horizon = 6
  Loggers <- MCLoggers
  GivenNames <- MCNames
  Levels <- MCLevels
  DefaultLevel = "info"
  NoLogger = NoLogger
  MaxIdx = 2
SYMMETRY Symmetry
INVARIANTS
  RueueIsADeque
  LueueIsAFifo
  OwnersKeepMemory
  TimersExpireOnTime
  RegistryHoldsTheLiving
CHECK_DEADLOCK FALSE

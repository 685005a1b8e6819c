SPECIFICATION Spec
CONSTANTS
  Modes = {"grid"}
  Count = 2
  Stride = 2
  L = 3
  D = 2
  DL = 2
  NumMod = 16
  Low = 3
  High = 12
  CacheSize = 7
  Start = 13
  MaxPackets = 8
  MaxFlight = 3
  MaxLate = 0
  MaxLateGrid = 0
  MaxDelay = 4
CHECK_DEADLOCK FALSE
INVARIANT RecoveredIsForwarded

SPECIFICATION Spec
CONSTANTS
  Modes = {"mask", "grid"}
  Count = 2
  Stride = 2
  L = 3
  D = 2
  DL = 2
  NumMod = 16
  Low = 3
  High = 12
  CacheSize = 6
  Start = 12
  MaxPackets = 10
  MaxFlight = 3
  MaxLate = 1
  MaxLateGrid = 0
  MaxDelay = 4
CHECK_DEADLOCK FALSE
INVARIANT RecoveredIsGenuine

SPECIFICATION SentSpec
CONSTANTS
  Datagrams <- MCDatagrams
  Compounds <- MCCompounds
  PidMod = 16
  MaskBits = 3
  AppWords = 2
  MaxNacks = 20
  MaxWords = 60
  MantissaBits = 3
  MaxExp = 7
CHECK_DEADLOCK FALSE
INVARIANTS StaysInside ReadAsWritten
PROPERTY ReadingEnds

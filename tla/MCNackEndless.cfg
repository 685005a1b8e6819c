SPECIFICATION FairSpec
CONSTANTS
  SeqMod = 16
  First = 1
  Count = 5
  JumpAt = 3
  MaxSize = 2
  MaxAge = 3
  ResetBelow = 0
  ResetAbove = 15
  MaxRequests = 2
  SureRequests = 1
  MaxAnswers = 1
PROPERTIES TrafficEnds

SPECIFICATION FairSpec
CONSTANTS
  SeqMod = 16
  First = 1
  Count = 3
  JumpAt = 9
  MaxSize = 4
  MaxAge = 4
  ResetBelow = 0
  ResetAbove = 15
  MaxRequests = 2
  SureRequests = 1
  MaxAnswers = 1
PROPERTIES RequestedAgain

SPECIFICATION Spec
CONSTANTS
  SeqMod = 16
  First = 13
  Count = 4
  JumpAt = 9
  MaxSize = 4
  MaxAge = 4
  ResetBelow = 2
  ResetAbove = 12
  MaxRequests = 1
  SureRequests = 1
  MaxAnswers = 1
PROPERTIES DroppedOnlyWhenLate

SPECIFICATION Spec
CONSTANTS
  SeqMod = 32
  First = 1
  Count = 11
  PerFrame = 2
  FrameTime = 10
  JumpAt = 8
  JumpTime = 100
  Duration = 20
  Threshold = 4
  MaxCopies = 2
INVARIANTS LostIsTheGaps HoldIsBounded
PROPERTIES OutputInOrder

SPECIFICATION Spec
CONSTANTS
  SeqMod = 32
  First = 1
  Count = 9
  PerFrame = 2
  FrameTime = 10
  JumpAt = 7
  JumpTime = 100
  Duration = 20
  Threshold = 100
  MaxCopies = 2
INVARIANTS JitterIsContiguous

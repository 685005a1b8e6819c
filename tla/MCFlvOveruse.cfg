\* A player that reads slowly; its buffer is smaller than the overuse limit.
SPECIFICATION Spec
CONSTANTS
  Prompt = {}
  Viewers = {q}
  None = None
  Duration = 1
  Gaps = {0, 2}
  MaxSpan = 3
  StoreTicks = 2
  WbSize = 2
  OveruseSize = 3
  SendMax = 1
  MaxTags = 4
  MaxStores = 1
INVARIANT GapsEndAtKeys

\* One player that keeps up, one that does not; three tags, two stores.
SPECIFICATION MCSpec
CONSTANTS
  Prompt = {p}
  Viewers = {p, q}
  p = p
  None = None
  Duration = 1
  Gaps = {0, 2}
  MaxSpan = 1
  StoreTicks = 2
  WbSize = 2
  OveruseSize = 3
  SendMax = 1
  MaxTags = 3
  MaxStores = 2
INVARIANTS NumbersAreDense SentInOrder StartsAtKey NothingLeftUnsent
  PromptKeepsUp
PROPERTY ViewerStarts

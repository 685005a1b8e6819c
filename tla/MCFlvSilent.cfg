\* One player that keeps up; the store times out, and the uploader stays.
SPECIFICATION MCSpec
CONSTANTS
  Prompt = {p}
  Viewers = {p}
  p = p
  None = None
  Duration = 1
  Gaps = {0}
  MaxSpan = 1
  StoreTicks = 1
  WbSize = 2
  OveruseSize = 3
  SendMax = 1
  MaxTags = 1
  MaxStores = 2
PROPERTY UploaderSuffices

SPECIFICATION Spec
CONSTANTS
  SeqMod = 12
  MaxSize = 5
  TsMod = 8
  TsJump = 3
  Timestamps = {0, 1, 4}
  Ssrcs = {1, 2}
  Payloads = {"a"}
  NoBlock = NoBlock
INVARIANTS TypeOK ContiguousWindow ReadsBack
PROPERTIES ImplementsWindow

SPECIFICATION Spec
CONSTANTS
  Streams = {s1}
  Bare = {}
  Movers = {}
  Clients = {c1, c2}
  PullConns = {k1}
  Requests = {}
  Viewers = {}
  NoConn = NoConn
  None = None
  SessionTicks = 1
  UselessTicks = 1
  CacheTicks = 2
  RetryTicks = 3
INVARIANTS StreamsHaveOneUploader

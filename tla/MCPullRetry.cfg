SPECIFICATION FairSpec
CONSTANTS
  Streams = {s1}
  Bare = {}
  Movers = {}
  Clients = {}
  PullConns = {k1}
  Requests = {}
  Viewers = {v1}
  NoConn = NoConn
  None = None
  SessionTicks = 1
  UselessTicks = 1
  CacheTicks = 2
  RetryTicks = 3
PROPERTIES FailedPullIsRetried

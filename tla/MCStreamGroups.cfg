SPECIFICATION MCFairSpec
CONSTANTS
  Streams = {s1, s2}
  Bare = {s2}
  Movers = {c1}
  Clients = {c1, c2}
  PullConns = {k1}
  Requests = {r1}
  Viewers = {v1}
  NoConn = NoConn
  None = None
  SessionTicks = 1
  UselessTicks = 1
  CacheTicks = 1
  RetryTicks = 1
INVARIANTS TypeOK ClosedMembersMoved PullConnectionKnown NobodyWaitsForKnownSdp
PROPERTIES NewcomerReplaces PlayersAreKept UselessPullStops

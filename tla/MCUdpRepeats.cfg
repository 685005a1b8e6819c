SPECIFICATION Spec
CONSTANTS
  Tcp = {c1, c2}
  Udp = {u1, u2}
  Addrs = {a1, a2}
  None = None
  MaxAge = 0
  MaxOut = 1
  MaxQueue = 2
INVARIANT OpenAreReached

SPECIFICATION Spec
SYMMETRY Symmetry
CONSTANTS
  b1 = b1
  b2 = b2
  p1 = p1
  p2 = p2
  r1 = r1
  r2 = r2
  v1 = v1
  Keys = {v1, proxy}
  Nobody = Nobody
  Limit = 1
  Window = 2
  Browsers = {b1, b2}
  proxy = proxy
  Peer <- MCPeer
  RealIP <- MCRealIP
  TrustProxy = TRUE
  Requests = {r1, r2}
  Plans = {p1, p2}
  Nil = Nil
  MaxClicks = 5
  MaxNow = 3
INVARIANTS SafeToRepeat NoStuckPage WindowHolds
CHECK_DEADLOCK FALSE

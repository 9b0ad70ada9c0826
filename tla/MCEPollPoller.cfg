SPECIFICATION PollerFairSpec
CONSTANTS
  Connections = {c1, c2}
  Connectors = {k1}
  Fds = {f1, f2}
  kInitEventListSize = 1
  Misuses = {}
  None = None
INVARIANTS NoAssertFails TablesAgree
PROPERTY ReadyIsHandled

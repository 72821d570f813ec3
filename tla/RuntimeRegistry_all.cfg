SPECIFICATION FairSpec
CONSTANTS
  Clients = {p1, p2}
  Runtimes = {i1, i2}
  Events = {"close", "disconnect", "fail", "stop"}
  MaxOps = 4
  None = None
INVARIANTS  ReadyIsReachable
PROPERTY OperationsReturn
CHECK_DEADLOCK FALSE

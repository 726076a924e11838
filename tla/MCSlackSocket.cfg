SPECIFICATION SockFairSpec
CONSTANTS
  Conns = {"a", "b", "c"}
CHECK_DEADLOCK FALSE
INVARIANTS OneHeir AllClosed
PROPERTIES NoGap Reconnects

SPECIFICATION AnySpec
CONSTANTS
  NoTask = NoTask
  NoNode = NoNode
  NoTime = NoTime
  Conns = {c1, c2}
  Ops = {o1}
  PageSize = 2
  MaxKeys = 3
  MaxTime = 2
  MaxCalls = 5
  Rto = 1
  Items = {p, q}
  None = None
  N = 4
  Region = 37
  ItemBytes = 4
  WordBytes = 8
  Nodes = {n1, n2, n3}
INVARIANTS NoLostWakeup TimersFollowDeadlines SlotsHold
PROPERTIES WaitsEnd IsQueue IsWaitQueue

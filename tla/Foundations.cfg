\* Every packet, every byte of its frame changed to one of three values; and a
\* switch with two backends and three clients, each of which may send two SYNs.
SPECIFICATION PathSpec
CONSTANTS
  Packets <- MCPackets
  Connections <- MCConnections
  NewBytes = {0, 90, 255}
  Dst <- MCDst
  Src <- MCSrc
  HeaderMbufs = {h1, h2}
  BodyMbufs = {b1, b2, b3, b4, b5, b6}
  Arcs = {a1, a2}
  Room = 5
  InlineBody = 2
  MaxBody = 6
  InlineSpace = 1
  Headers = 1
  Mss = 3
  TxRing = 2
  Workers = 2
  Me = 1
  Sizes = {1, 3, 5, 7}
  Loads = {2, 3}
  MaxArrays = 2
  MaxFrames = 1
  MaxPushes = 2
  MaxAllocs = 1
  MaxStates = 1
  Reuses = FALSE
  Echoes = TRUE
  FreesMoved = FALSE
  None = None
  Clients = {"client1", "client2", "client3"}
  Vip = "switch"
  MaxSyns = 2
INVARIANTS Delivered Caught RefsAreHeld SentIsPushed
CHECK_DEADLOCK FALSE

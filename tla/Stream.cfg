\* Safety: small stores and queues, resets, ARP entries that go, a lagging peer.
SPECIFICATION TransportSpec
CONSTANTS
  Modulus = 32
  Parts = {"receive", "send"}
  Isn = 30
  MaxMigrations = 1
  None = None
  Length = 5
  Window = 4
  MaxSegment = 3
  MaxAge = 5
  MaxOutOfOrder = 2
  MayClose = FALSE
  MayReset = TRUE
  ArpExpires = TRUE
  Outgoing = 3
  MaxBuffer = 2
  Mss = 1
  Cutoff = 1
  Capacity = 2
  PeerLags = TRUE
  PeerNumbers <- NumbersMixed
  MaxLoss = 0
  MaxExpiries = 1
  Sizes = {1}
  MaxFragment = 2
  Offsets = 8
  MaxLost = 0
  MaxDup = 0
INVARIANTS Intact WindowKept QueuesAreStream 
CHECK_DEADLOCK FALSE

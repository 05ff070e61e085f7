\* Liveness: nobody resets or lags for ever; losses, and fragments that come twice.
SPECIFICATION FairTransportSpec
CONSTANTS
  Modulus = 32
  Parts = {"receive", "send", "fragments"}
  Isn = 30
  MaxMigrations = 1
  None = None
  Length = 4
  Window = 3
  MaxSegment = 2
  MaxAge = 4
  MaxOutOfOrder = 4
  MayClose = TRUE
  MayReset = FALSE
  ArpExpires = FALSE
  Outgoing = 4
  MaxBuffer = 2
  Mss = 1
  Cutoff = 0
  Capacity = 3
  PeerLags = FALSE
  PeerNumbers <- NumbersBefore
  MaxLoss = 2
  MaxExpiries = 1
  Sizes = {1, 2, 3, 4, 7, 8, 11, 15}
  MaxFragment = 2
  Offsets = 8
  MaxLost = 1
  MaxDup = 1
INVARIANTS StateFollowsFin Faithful
PROPERTIES EverythingArrives AckGetsSent
CHECK_DEADLOCK FALSE

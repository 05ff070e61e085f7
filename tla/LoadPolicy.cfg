SPECIFICATION Spec
CONSTANTS
    Conns = {k1, k2, k3}
    None = None
    BucketSize = 2
    MaxExtracted = 2
    Allowances <- MCAllowances
    Thresholds <- MCThresholds
    MaxQueue = 1
    MaxRequests = 3
    MaxTotal = 3
SYMMETRY Symmetry
INVARIANTS LoadIsTrue HandlesHold
PROPERTIES SelectionRelieves

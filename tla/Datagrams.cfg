SPECIFICATION FairSpec
CONSTANTS
    a1 = a1
    a2 = a2
    host = host
    auto = auto
    any = any
    ping1 = ping1
    Addrs = {a1, a2}
    Queries <- MCQueries
    AddrOf <- MCAddrOf
    RetryCount = 1
    QDs = {1, 2}
    Endpoints = {host, any, auto}
    Ephemeral = {auto}
    CorePorts = {host, any}
    Fallback <- MCFallback
    Pings = {ping1}
    Capacity = 2
    Loads <- MCLoads
INVARIANTS WaitersAreQueued SlowPathInOrder OwnersRead
PROPERTIES SendersEnd
CHECK_DEADLOCK FALSE

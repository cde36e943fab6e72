CONSTANTS
    a1 = a1
    a2 = a2
    a3 = a3
    m1 = m1
    m2 = m2
    Addrs = {a1, a2, a3}
    Macs = {m1, m2}
    CacheSize = 2
    MaxPending = 2
    Timeout = 1
    Ways = {"FRAME", "EVENT"}
    Free = Free
    MaxPayloads = 3
    MaxArrivals = 1
    MaxFlaps = 1
SPECIFICATION Spec
SYMMETRY Symmetric
INVARIANTS TypeOK PayloadHasOneOwner NothingWaitsForKnown SentToLatestMac
CHECK_DEADLOCK FALSE

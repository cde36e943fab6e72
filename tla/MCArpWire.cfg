CONSTANTS
    a1 = a1
    a2 = a2
    a3 = a3
    m1 = m1
    m2 = m2
    Addrs = {a1}
    Macs = {m1}
    CacheSize = 1
    MaxPending = 1
    Timeout = 1
    Ways = {"FRAME"}
    Free = Free
    MaxPayloads = 1
    MaxArrivals = 1
    MaxFlaps = 0
SPECIFICATION LiveSpec
PROPERTIES RequestIsAnswered
CHECK_DEADLOCK FALSE

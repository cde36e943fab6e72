CONSTANTS
    p1 = p1
    p2 = p2
    a = a
    b = b
    x = x
    y = y
    Ports = {p1, p2}
    Station <- StationOf
    PortMac <- PortMacOf
    Broadcast = Broadcast
    Others = {a, c}
    NoEntry = NoEntry
    TableSize = 2
    MacAge = 2
    Interval = 2
    MaxWire = 1
SPECIFICATION Spec
INVARIANTS TypeOK TableAgrees TableIsMemory EntriesExpire NoEntryForDownPort

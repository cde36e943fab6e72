CONSTANTS
    client = client
    server = server
    Hosts = {client, server}
    Peer <- PeerOf
    MaxConns = 2
    MSS = 2
    SeqSpace = 16
    Listens <- ServerListens
    Dials <- TwoDials
    Closers = {client, server}
    Senders = {client, server}
    Lens = {3}
    MaxConnects = 2
    MaxSends = 2
    MaxFlaps = 2
    MaxLosses = 0
    MaxInNet = 2
SPECIFICATION Spec
INVARIANTS TypeOK  QueueCoversUnacked StreamIntact
           AckedIsConsumed NumbersAgree EstablishedHasPeer
PROPERTIES NumbersNeverRegress
CHECK_DEADLOCK FALSE

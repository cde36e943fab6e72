CONSTANTS
    client = client
    server = server
    Hosts = {client, server}
    Peer <- PeerOf
    MaxConns = 2
    MSS = 2
    SeqSpace = 4
    Listens <- ServerListens
    Dials <- ClientDials
    Closers = {}
    Senders = {client, server}
    Lens = {1}
    MaxConnects = 1
    MaxSends = 3
    MaxFlaps = 0
    MaxLosses = 0
    MaxInNet = 2
SPECIFICATION LiveSpec
PROPERTIES DataIsAcked
CHECK_DEADLOCK FALSE

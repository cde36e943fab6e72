CONSTANTS
    client = client
    server = server
    Hosts = {client, server}
    Peer <- PeerOf
    MaxConns = 2
    MSS = 2
    SeqSpace = 16
    Listens <- ServerListens
    Dials <- ClientDials
    Closers = {client, server}
    Senders = {client, server}
    Lens = {1, 3}
    MaxConnects = 2
    MaxSends = 2
    MaxFlaps = 2
    MaxLosses = 1
    MaxInNet = 2
SPECIFICATION Spec
INVARIANT QueuedHasTimer
CHECK_DEADLOCK FALSE

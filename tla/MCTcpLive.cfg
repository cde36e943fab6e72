CONSTANTS
    client = client
    server = server
    Hosts = {client, server}
    Peer <- PeerOf
    MaxConns = 2
    MSS = 2
    SeqSpace = 16
    Listens <- ServerListens
    Dials <- ClientDials
    Closers = {client}
    Senders = {client, server}
    Lens = {1}
    MaxConnects = 2
    MaxSends = 2
    MaxFlaps = 0
    MaxLosses = 2
    MaxInNet = 2
SPECIFICATION LiveSpec
PROPERTIES OpenCompletes CloseCompletes DataIsAcked
CHECK_DEADLOCK FALSE

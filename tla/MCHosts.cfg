CONSTANTS
    Hosts = {1, 2}
    Width = 3
    PrefixLen = 1
    Dests = {1, 2, 4}
    Pairs <- Sent
    Claims <- Replies
    Ports = {1}
    Binds <- Sockets
    Handlers <- Registrations
    MaxSockets = 2
    MaxPending = 2
    Ids = {1, 2, 3, 4, 5, 6}
    MaxSends = 3
    MaxChanges = 3
SPECIFICATION Spec
INVARIANTS TypeOK OwnedOnce LayoutOK ErrorGoesBack
PROPERTIES NothingElseLost ImplementsDatagrams
CHECK_DEADLOCK FALSE

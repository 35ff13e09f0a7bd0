SPECIFICATION Spec
CONSTANTS
    p1 = p1
    p2 = p2
    Peers <- TwoPeers
    Fds <- ThreeFds
    MaxOther = 1
    MaxStops = 1
    MaxEvents = 1
    None = None
PROPERTY
    EventsReachConnections
CHECK_DEADLOCK FALSE

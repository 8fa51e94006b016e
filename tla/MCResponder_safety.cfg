\* Three connections compete for two places.
CONSTANTS
    c1 = c1  c2 = c2  c3 = c3
    Connections = {c1, c2, c3}
    Server = Server
    maxConnections = 2
    SizeModulus = 64
    maxSizeOfMessage = 3
    ListenBacklog = 2
    MaxQueries = 1
SPECIFICATION Spec
SYMMETRY Symmetry
INVARIANTS
    TypeOK
    ConnectionLimit
    DescriptorsTracked
    RoundVisitsEveryone
    AtMostOneLateReply
CHECK_DEADLOCK FALSE

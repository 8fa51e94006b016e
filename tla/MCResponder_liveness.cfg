\* Two connections, one place; liveness, so no symmetry.
CONSTANTS
    c1 = c1  c2 = c2  
    Connections = {c1, c2}
    Server = Server
    maxConnections = 1
    SizeModulus = 64
    maxSizeOfMessage = 3
    ListenBacklog = 1
    MaxQueries = 2
SPECIFICATION FairSpec
INVARIANT
    AnswersMatchQueries
PROPERTIES
    ImplementsService
    DeadPeerReleased
    UnreliableClockStopsServing
CHECK_DEADLOCK FALSE

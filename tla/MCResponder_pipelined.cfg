\* One client that sends two queries in a row.
CONSTANTS
    c1 = c1  
    Connections = {c1}
    Server = Server
    maxConnections = 2
    SizeModulus = 64
    maxSizeOfMessage = 3
    ListenBacklog = 2
    MaxQueries = 2
SPECIFICATION Spec
PROPERTY FirstMessageAnswered
CHECK_DEADLOCK FALSE

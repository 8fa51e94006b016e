\* Every short body, and every check of the header; time stands still.
CONSTANTS
    id1 = id1
    Queries <- FormatQueries
    DeviceIDs = {id1}
    NoQuery = NoQuery
    NoID = NoID
    maxResponseSize = 61440
    MaxTime = 0
SPECIFICATION Spec
INVARIANT BodyErrorGetsHeaderOnly

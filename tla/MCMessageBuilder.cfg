\* Every short body and every check of the header, and a query for everything,
\* which races the clock and the TPM updates.
CONSTANTS
    id1 = id1  id2 = id2
    Queries <- AllQueries
    DeviceIDs = {id1, id2}
    NoQuery = NoQuery
    NoID = NoID
    maxResponseSize = 61440
    MaxTime = 3
SPECIFICATION Spec
CONSTRAINT OthersStandStill
INVARIANTS
    ParseStaysInBody
    SizeFieldExact
    ReplyMatchesQuery
    ChecksumKeyIsReportedID
    TimesBracketAssembly

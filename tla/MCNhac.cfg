\* Calls with one or two queries, comments, faults in the description and sizes at their limits.
CONSTANTS
    MD5 <- Digest
    XorDeviceID <- Xored
    Calls <- AllCalls
    bufferSize = 298
    Portions = {3, 40}
SPECIFICATION FairSpec
INVARIANTS
    TypeOK
    AskedAsDescribed
    ResponseIsolated
    PrintedAnswers
    ExitStatusHonest
PROPERTIES
    Terminates
CHECK_DEADLOCK FALSE

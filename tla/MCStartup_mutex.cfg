SPECIFICATION Spec
CONSTANTS
    Files <- MCFiles
    CommentWords = {"#", "#port"}
    Cores = {0, 1}
    ArgVectors <- MCArgVectors
    IntWords <- MCIntWords
    LongWords <- MCLongWords
    DoubleWords <- MCDoubleWords
    StartLimit = 3
    MaxFaults = 2
INVARIANT MutexOutlivesUpdate
\* The manager gives up after StartLimit starts.
CHECK_DEADLOCK FALSE

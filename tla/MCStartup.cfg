SPECIFICATION FairSpec
CONSTANTS
    Files <- MCFiles
    CommentWords = {"#", "#port"}
    Cores = {0, 1}
    ArgVectors <- MCArgVectors
    IntWords <- MCIntWords
    LongWords <- MCLongWords
    DoubleWords <- MCDoubleWords
    StartLimit = 3
    MaxFaults = 2
INVARIANTS
    LastDefinitionWins SingleCore SetupReleasesAll ReadyMeansComplete
    TimersOutliveThreads RestartsOnlyAfterFaults
PROPERTY Settles
\* The manager gives up after StartLimit starts.
CHECK_DEADLOCK FALSE

SPECIFICATION Spec
CONSTANTS
    MaxCommit = 2
    MaxRuns = 3
    MaxFaults = 2
    MaxMoves = 1
    Requests <- AllRequests
    Folders <- AllFolders
INVARIANTS
    TypeOK
    SuccessIsFresh
    FailsForCause
    NoTempLeft
PROPERTY ReplacedWhenReady
\* Nobody has to start another run.
CHECK_DEADLOCK FALSE

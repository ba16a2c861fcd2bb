SPECIFICATION Spec
CONSTANTS
    MaxCommit = 2
    MaxRuns = 2
    MaxFaults = 2
    MaxMoves = 1
    Requests <- AllRequests
    Folders <- AllFolders
INVARIANT AutoRepairRepairs
\* Nobody has to start another run.
CHECK_DEADLOCK FALSE

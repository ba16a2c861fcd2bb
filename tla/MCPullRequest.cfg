SPECIFICATION Spec
CONSTANTS
    HeadLine = {"h1", "h2"}
    BaseLine = {"fork", "main"}
    Fork = "fork"
    MaxFile = 2
    Line = {1, 2, 3}
    Contents <- AllContents
    PageSize = 1
    Requests <- AllRequests
    MaxRetries = 1
    MaxOps = 3
    MaxPushes = 2
    MaxFaults = 1
INVARIANTS
    TypeOK
    VerdictOnScanned
    FetchIsOneCommit
    
    CommentOnce
\* Nobody has to give another command.
CHECK_DEADLOCK FALSE

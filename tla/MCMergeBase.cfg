SPECIFICATION Spec
CONSTANTS
    MaxCommit = 5
    MaxDepth = 3
    Histories <- AllHistories
    CloneDepths = {0, 1}
    HeadLadder <- MCLadder
    MaxFaults = 1
    MaxRuns = 2
    Near <- MCNear
INVARIANTS
    TypeOK
    NoBrokenLink
    BaselineUsable
    BaselineCommon
    ForkPointExact
    AbsentForCause
\* Nobody has to fetch the pull request again.
CHECK_DEADLOCK FALSE

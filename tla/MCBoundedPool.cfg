SPECIFICATION FairSpec
CONSTANTS
    MaxRequests = 3
    Options <- AllWays
INVARIANTS
    TypeOK
    AtMostLimit
    SendsAreSafe
    NoPluginLeft
PROPERTIES
    ImplementsFanOut
    CommandEnds
    OthersProgress
\* A single target with no thread really waits for ever.
CHECK_DEADLOCK FALSE

SPECIFICATION Spec
CONSTANTS
    HostKind <- MCHostKind
    Home <- MCHome
    Services <- MCServices
    PageSize = 1
    MaxFaults = 2
    MaxMoves = 2
    MaxPath = 8
INVARIANT AnalysedWhereFetched
\* A command that has ended need not be followed by another.
CHECK_DEADLOCK FALSE

SPECIFICATION Spec
CONSTANTS
    j1 = j1
    j2 = j2
    j3 = j3
    Jobs = {j1, j2, j3}
    Names = {"app", "webapp", "third"}
    Others = {"earlier"}
    ProductOf <- MCProductOf
    Matches <- MCMatches
    Holdings <- MCHoldings
    MaxFaults = 2
INVARIANTS
    ImportedWhereAsked
    DuplicatesFromOverlap
\* When every job has ended nothing is left to do.
CHECK_DEADLOCK FALSE

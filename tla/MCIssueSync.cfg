SPECIFICATION Spec
CONSTANTS
    r1 = r1
    r2 = r2
    Runs = {r1, r2}
    MaxIssue = 9
    PageSize = 2
    MaxFaults = 1
    MaxByHand = 1
    Inputs <- AllInputs
    Stores <- AllStores
    Inside <- MCInside
    ParsedFile <- MCParsedFile
INVARIANTS
    TypeOK
    CoveredBeforeClose
    ListingComplete
    RescanIdle
PROPERTIES
    ClosesOnlySuperseded
    OpensOnlyUncovered

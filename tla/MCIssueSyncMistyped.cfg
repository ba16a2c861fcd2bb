SPECIFICATION Spec
CONSTANTS
    r1 = r1
    r2 = r2
    Runs = {r1, r2}
    MaxIssue = 7
    PageSize = 2
    MaxFaults = 1
    MaxByHand = 1
    Inputs <- MistypedInputs
    Stores <- RootStores
    Inside <- MCInside
    ParsedFile <- MCParsedFile
PROPERTY UnparsableReportClosesNothing

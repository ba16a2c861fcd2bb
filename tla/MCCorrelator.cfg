SPECIFICATION TwiceSpec
CONSTANTS
    Scanners = {"semgrep"}
    Starts = {1, 2}
    Ends = {2, 3}
    Hashes = {"", "h1"}
    MaxKnown = 2
    MaxNew = 3
INVARIANTS
    NoChurnInv
    EarlierStageWinsInv
    RescanIsIdleInv
CHECK_DEADLOCK FALSE

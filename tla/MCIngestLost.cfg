CONSTANTS
    MessageIds = {}
    Unfit = {}
    Unpostable = {}
    Commits = {1, 2}
    Ancestry <- Line
    Budget = 2
    InitialItems = 1
    ScanLimit = 2
    Configurations = {{"git"}}
    NoCommit = NoCommit
    MaxRenumberings = 0
    MaxIngRuns = 3
SPECIFICATION IngSpec
INVARIANTS NoCommitPassedOver
CHECK_DEADLOCK FALSE

CONSTANTS
    i1 = i1
    Invites = {i1}
    MaxUses = 2
    LastAddress = 3
    MaxKeys = 3
    NoEnrTx = NoEnrTx
SPECIFICATION EnrSpec
INVARIANTS
    ReenrollmentPossible
CHECK_DEADLOCK FALSE

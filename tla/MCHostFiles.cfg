CONSTANTS
    h1 = h1
    h2 = h2
    h3 = h3
    stop1 = stop1
    start1 = start1
    stop2 = stop2
    help = help
    stop3 = stop3
    a1 = a1
    a2 = a2
    stage = stage
    n1 = n1
    n2 = n2
    \* Consent
    NoCommand = NoCommand
    Handlers = {h1, h2, h3}
    Commands = {stop1, start1, stop2, help, stop3}
    Addresses = {a1, a2}
    AddressOf <- Address
    ActionOf <- Action
    TimeOf <- Time
    IdOf <- Id
    \* ReleaseController
    Releases = {n1, n2}
    NoRelease = NoRelease
    Legacy = Legacy
    MaxTransactions = 3
    \* MailPilot
    MailEventIds = {"e1", "e2"}
    MaxPilotRuns = 2
    \* CookieActivation
    MaxApplies = 2
    \* StagedProposals
    Stages = {stage}
    FsCommands = {n1, n2}
    MaxSnapshots = 2
    Original = Original
    Torn = Torn
    \* CommsIngest
    MessageIds = {"a", "b", "c"}
    Unfit = {"c"}
    Unpostable <- RefusedItems
    Commits = {1, 2, 3}
    Ancestry <- Branches
    Budget = 2
    InitialItems = 1
    ScanLimit = 2
    Configurations = {{"bootstrap", "nntp"}, {"git"}}
    NoCommit = NoCommit
    MaxRenumberings = 1
    MaxIngRuns = 3
    \* MediaQuarantine
    QWorkers = {n1, n2}
    \* RepositoryController
    RepoProcs = {n1, n2}
    RepoRequests <- Bodies
    NoCommitYet = NoCommitYet
    \* ConnectorSessions
    CgThreads = {n1, n2}
    CgIds = {1}
    NoId = 0
    MaxPool = 1
    MaxChildren = 2
    MaxMessages = 3
    \* ConnectorSignIn
    SgThreads = {n1, n2}
    PendingTtl = 2
    CodeTtl = 1
    AccessTtl = 1
    RefreshTtl = 2
    LockoutFailures = 2
    LockoutTime = 1
    StepsAhead = 0
    MaxSgTime = 2
    MaxSerial = 4
SPECIFICATION HostSpec
SYMMETRY HostSymmetry
INVARIANTS
    NewestDecisionIsEnforced
    PromotionIsSound
    SuppressionHolds PilotIsReversible
    ActivationIsReversible
    ApplyIsAccountable
    EveryItemOnce
    CommittedIsThere
    SessionsAreAccounted
    SignInIsAccountable
PROPERTIES
    ManualSuppressionStays ImplementsLatestWins
    QuarantineHolds
\* The instances have a finite amount of work and then stop.
CHECK_DEADLOCK FALSE

CONSTANTS
    j1 = j1
    j2 = j2
    j3 = j3
    j4 = j4
    s1 = s1
    s2 = s2
    fen = fen
    gus = gus
    conv = conv
    k1 = k1
    k2 = k2
    why = why
    proof = proof
    n1 = n1
    n2 = n2
    \* SendRateLimiter
    Jobs = {j1, j2, j3, j4}
    Clients = {n1, n2}
    Senders = {s1, s2}
    SenderOf <- BusySender
    Hour = 1
    Day = 3
    HourlyLimit = 1
    DailyLimit = 2
    MaxClock = 4
    NoTx = NoTx
    \* TurnState
    Agents = {fen, gus}
    Conversations = {conv}
    Callers = {n1, n2}
    Keys = {k1, k2}
    Reasons = {why}
    NoTurn = NoTurn
    MaxEpoch = 2
    MaxSeeds = 2
    \* SecurityAuth
    Assertions = {proof}
    AssertionExpiry <- EarlyExpiry
    AuthRequests = {n1, n2}
    AuthIdle = 2
    AuthAbsolute = 2
    ClockSkew = 2
    InFlight = 2
    Cooldown = 1
    CallMax = 1
    MaxSessions = 2
    MaxAuthTime = 2
    \* VpnEnrollment
    Invites = {n1, n2}
    MaxUses = 2
    LastAddress = 3
    MaxKeys = 3
    NoEnrTx = NoEnrTx
    \* VpnRegistration
    RegKeys = {1}
    RegAddresses = {1, 2}
    PolicyVersions = {"p1", "p2"}
    NoPolicy = NoPolicy
    NoRegDevice = NoRegDevice
    \* OperationsControl
    OpThreads = {n1, n2}
    OpKeys = {"k1", "k2"}
    MaxInst = 3
    MaxOpRequests = 2
    \* PreparationNonces
    PnThreads = {n1, n2}
    Nonces = {k1, k2}
    PnSkew = 1
    NonceTtl = 3
    LockWait = 1
    MaxPnTime = 5
SPECIFICATION StoresSpec
SYMMETRY StoresSymmetry
INVARIANTS
    WindowsBounded
    TurnsAreAccounted
    SessionsAreSound OneCallAtATime
    PeersFollowDevices
    ReloadsAreExact
    AcceptedOnce
PROPERTIES
    ImplementsLedger
    RegistrationIsStable
\* The instances have a finite amount of work and then stop.
CHECK_DEADLOCK FALSE

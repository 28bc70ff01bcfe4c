CONSTANTS
    h1 = h1
    h2 = h2
    w1 = w1
    w2 = w2
    m1 = m1
    m2 = m2
    e1 = e1
    e2 = e2
    e3 = e3
    e4 = e4
    i1 = i1
    \* DeliveryStatus
    NoEvent = NoEvent
    NoMessage = NoMessage
    Handlers <- TwoHandlers
    Workers <- TwoWorkers
    Messages = {m1, m2}
    Events = {e1, e2, e3, e4}
    MessageOf <- Message
    StatusOf <- Status
    TimeOf <- Time
    IdOf <- Id
    \* VpnSync
    Invites = {i1}
    LastAddress = 2
    MaxKeys = 2
    RegAddresses = {1, 2}
    RegKeys = {1, 2}
    PolicyVersions = {"p1", "p2"}
    NoPolicy = NoPolicy
    NoRegDevice = NoRegDevice
SPECIFICATION ReconcilersSpec
INVARIANTS
    StatusIsTrue
PROPERTIES
    ImplementsLatestWins EventuallyShown
    RegistryFollows

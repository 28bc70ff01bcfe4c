CONSTANTS
    j1 = j1
    j2 = j2
    j3 = j3
    j4 = j4
    w1 = w1
    w2 = w2
    s1 = s1
    a1 = a1
    NoTx = NoTx
    NoJob = NoJob
    Jobs = {j1, j2, j3, j4}
    Workers <- TwoWorkers
    Adapter <- Bandwidth
    Allowed = {j1, j2, j3, j4}
    PolicyRefuses = {j3}
    MmsMedia = {j4}
    Senders = {s1}
    SenderOf <- OneSender
    Recipients = {a1}
    RecipientsOf <- OneRecipient
    MaxAttempts = 2
    RetryDelay = 1
    Hour = 1
    Day = 2
    HourlyLimit = 1
    DailyLimit = 2
    MaxClock = 2
    \* ApacheRoute
    RuntimeFiles <- SomeFiles
    MaxEdits = 1
SPECIFICATION OutboundSpec
SYMMETRY WorkerSymmetry
INVARIANTS
    AtMostOnce
    RowsAgreeWithCarrier
    JobsAreAccounted
    GatesHold
    RolloutIsReversible
PROPERTIES
    TerminalIsFinal StoppedStaysUnsent
    ImplementsLimiter

CONSTANTS
    s1 = s1
    s2 = s2
    w1 = w1
    w2 = w2
    k1 = k1
    b1 = b1
    b2 = b2
    p1 = p1
    p2 = p2
    \* WebhookIntake
    Servers <- TwoServers
    Workers <- OneWorker
    Keys = {k1}
    Bodies = {b1, b2}
    MaxAttempts = 2
    MaxDeliveries = 2
    \* TelegraphQueue
    Telegrams = {1}
    TgProducers = {p1, p2}
    TgWorkers = {w1, w2}
    MaxQueued = 1
    MaxTries = 2
    TgLease = 1
    TgExpiry = 2
    NoTelegram = NoTelegram
    MaxTgTime = 2
SPECIFICATION QueuesSpec
INVARIANTS
    ReceiptsAreTrue
    TelegramsAreSound
PROPERTIES
    TerminalReceiptIsFinal
    RecoveryEnds
    EveryTelegramEnds

CONSTANTS
    j1 = j1
    j2 = j2
    w1 = w1
    w2 = w2
    s1 = s1
    a1 = a1
    NoTx = NoTx
    NoJob = NoJob
    Jobs <- TwoJobs
    Workers <- OneWorker
    Adapter <- Bandwidth
    Allowed <- TwoJobs
    PolicyRefuses = {}
    MmsMedia = {}
    Senders = {s1}
    SenderOf <- OneSender
    Recipients = {a1}
    RecipientsOf <- OneRecipient
    MaxAttempts = 2
    RetryDelay = 3
    Hour = 2
    Day = 6
    HourlyLimit = 1
    DailyLimit = 2
    MaxClock = 4
SPECIFICATION PromptSpec
INVARIANTS
    HourlySubmissionsBounded

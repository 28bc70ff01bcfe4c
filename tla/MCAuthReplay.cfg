CONSTANTS
    proof = proof
    r1 = r1
    r2 = r2
    Assertions = {proof}
    AssertionExpiry <- EarlyExpiry
    AuthRequests = {r1, r2}
    AuthIdle = 2
    AuthAbsolute = 2
    ClockSkew = 2
    InFlight = 2
    Cooldown = 1
    CallMax = 1
    MaxSessions = 2
    MaxAuthTime = 2
SPECIFICATION AuthSpec
INVARIANTS
    OneSessionPerAssertion
CHECK_DEADLOCK FALSE

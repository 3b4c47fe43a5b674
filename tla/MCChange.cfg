CONSTANTS
    Sessions = {s1}
    Challenges = {ch1, ch2}
    Tickets = {}
    NoId = NoId
    MaxVersion = 3
    VerificationTtl = 2
    ResetTtl = 2
    AbsoluteTtl = 3
    IdleTtl = 2
    TicketTtl = 1
    Requests = {r1, r2}
    Ops = {"register", "verify", "login", "request_reset", "change"}
    MaxTime = 1
SPECIFICATION MCSpec
INVARIANT ChangeIsDecided

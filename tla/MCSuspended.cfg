CONSTANTS
    Sessions = {}
    Challenges = {ch1, ch2}
    Tickets = {}
    NoId = NoId
    MaxVersion = 3
    VerificationTtl = 2
    ResetTtl = 2
    AbsoluteTtl = 3
    IdleTtl = 2
    TicketTtl = 1
    Requests = {r1}
    Ops = {"register", "request_reset"}
    MaxTime = 1
SPECIFICATION MCSpec
PROPERTY InactiveIsStale

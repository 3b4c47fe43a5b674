CONSTANTS
    Sessions = {s1, s2}
    Challenges = {ch1, ch2, ch3}
    Tickets = {t1}
    NoId = NoId
    MaxVersion = 3
    VerificationTtl = 1
    ResetTtl = 2
    AbsoluteTtl = 3
    IdleTtl = 2
    TicketTtl = 1
    Requests = {r1, r2}
    Ops = {"register", "login", "request_verification", "request_reset", "verify", "reset",
           "logout", "logout_all", "change", "ticket", "upgrade"}
    MaxTime = 3
SPECIFICATION MCSpec
INVARIANTS
    TypeOK
    SessionsAreCurrent
    ChallengesAreCurrent
    UsedOnce
    VerifiedByChallenge
PROPERTIES
    ActivityMovesForward
    KeepsPromise
SYMMETRY IdSymmetry

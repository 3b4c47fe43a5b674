CONSTANTS
    Parts = {"process", "exchange", "log", "hashing", "mail", "sockets", "organizations", "browser"}
    Conns = {"c1", "c2"}
    Slots = 1
    Probes = {"p1", "p2"}
    Budget = 2
    BrokerTime = 1
    WorkTime = 1
    Transports = {"postgres", "jetstream"}
    Routes <- TwoTemplates
    Requests <- AllRequests
    Responses <- SomeResponses
    Emitters = {"e1", "e2"}
    Capacity = 1
    MaxEmits = 4
    SinkFaults = 1
    Callers = {"a", "b", "c"}
    MaxConcurrent = 1
    MaxQueued = 1
    Senders = {"r1", "r2"}
    Changes = 1
    NoId = NoId
SPECIFICATION MCSpec
INVARIANTS
    ShutdownInOrder
    NothingIsLeaked
PROPERTIES
    ReadyIsCurrent
    ExchangeIsTold
    LogIsExact
    MailIsHonest
    RequestsEnd
    ShutdownEnds
    ConnectionsEnd
    LoginIsReachable
CHECK_DEADLOCK FALSE

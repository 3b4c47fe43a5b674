CONSTANTS
    NaN <- MCNaN
    MaxTime <- MCMaxTime
    Safe <- MCSafe
    Malformed <- MCMalformed
    Loopback <- MCLoopback
    Short <- MCShort
    Envs <- SomeEnvs
    Width <- MCWidth
    Lists <- SomeLists
    Nodes <- SomeNodes
    Forged <- SomeHeaders
    MaxHops = 2
    Processes = {"p1", "p2"}
    Plans <- ManyPlans
    MaxStarts = 2
    MaxMs = 2
    CounterMax = 2
    StartMax = 1
    MaxU32 = 2
    MaxScopes = 3
    MaxWorks = 1
    Foreign = {99}
    Initiators = {"ann", "bob"}
    Calls = {"k1", "k2"}
    CallSlots = 1
    MaxResponse = 1
    Lengths = {0, 1, 2}
    Conns = {"c1", "c2"}
    ConnSlots = 1
    Tabs = {"t1", "t2"}
    Sessions = {"s1", "s2"}
    Owner <- MCOwner
    Used = {"csrf", "register", "login", "session", "websocket_ticket", "logout", "logout_all", "change", "reset", "org_write"}
    Copies = {1, 2}
    Origins = {"app", "other"}
    Ttl = 3
    Second = 2
    RetryTimes = {0, 1, 2, 3, 4, 5, 7}
    Nonces = {1, 2, 3, 4, 5, 6, 7, 8, 9, 10}
    LastTime = 4
    Faults = 1
    Keys <- SomeKeys
    Attempts <- TwoSubjects
    Window = 4
    MaxCount = 3
    MaxKeys = 2
    Requests <- Callers
    Skew <- FirstAhead
    MaxSkew = 1
    MaxDelay = 1
    MaxLog = 2
    EndTime = 5
    Parts = {"sources"}
SPECIFICATION MCSpec
INVARIANTS
    SourceIsDerived
CHECK_DEADLOCK FALSE

CONSTANTS
    Events = {e1}
    Bodies = {good, skipped, bad}
    NoEvent = NoEvent
    NoBody = NoBody
    MaxAttempts = 2
    Consumers = {audit}
    Recordable = {good}
    Malformed = {bad}
    StreamMax = 0
    MaxDeliver = 1
    Workers = {w1, w2}
    ConsumerOf <- MCConsumerOf
    HasBroker = FALSE
    Closing = {w2}
    Crashing = {w1}
SPECIFICATION FairSpec
INVARIANTS
    RecordsMatchReceipts
PROPERTIES
    LeaseProtects
    SettledIsFinal
    KeepsPromise
    OutboxSettles
    MailboxDrains
    StopIsHonoured

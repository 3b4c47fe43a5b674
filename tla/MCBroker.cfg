CONSTANTS
    Events = {e1}
    Bodies = {good}
    NoEvent = NoEvent
    NoBody = NoBody
    MaxAttempts = 2
    Consumers = {audit}
    Recordable = {good}
    Malformed = {}
    StreamMax = 2
    MaxDeliver = 2
    Workers = {w1, w2}
    ConsumerOf <- MCConsumerOf
    HasBroker = TRUE
    Closing = {w2}
    Crashing = {w1}
SPECIFICATION Spec
INVARIANTS TypeOK SentIsDurable AckedIsInMailbox
PROPERTIES KeepsPromise

CONSTANTS
    Events = {e1}
    Bodies = {good}
    NoEvent = NoEvent
    NoBody = NoBody
    MaxAttempts = 2
    Consumers = {audit}
    Recordable = {good}
    Malformed = {}
    StreamMax = 2
    MaxDeliver = 2
    Workers = {w1}
    ConsumerOf <- MCConsumerOf
    HasBroker = TRUE
    Closing = {}
    Crashing = {w1}
SPECIFICATION FairSpec
PROPERTIES StreamDrains

CONSTANTS
    Publisher = {p1}
    Topic = {t1}
    TopicSize <- MCTopicSize
    PayloadSize = {2, 5}
    HeaderSize = 12
    Mtu = 15
    SizeMod = 65536
    IdMod = 4
    MaxFragments = 2
    MaxPublish = 2
    NoTopic = NoTopic
    Caller = {c1, c2}
    Handler = {h1}
    NoHandler = NoHandler
    NoMessage = NoMessage
    Garbled = Garbled
    ReassemblyTimeout = 1
    CleanupPeriod = 0
    PollTimeout = 0
    MaxSockets = 2
SYMMETRY Callers
SPECIFICATION Spec
INVARIANT DeliveredWasPublished
PROPERTIES NoCallbackAfterStop ImplementsLossyChannel

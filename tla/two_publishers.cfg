CONSTANTS
    Publisher = {p1, p2}
    Topic = {t1}
    TopicSize <- MCTopicSize
    PayloadSize = {5}
    HeaderSize = 12
    Mtu = 15
    SizeMod = 65536
    IdMod = 4
    MaxFragments = 2
    MaxPublish = 1
    NoTopic = NoTopic
    Caller = {c1}
    Handler = {h1}
    NoHandler = NoHandler
    NoMessage = NoMessage
    Garbled = Garbled
    ReassemblyTimeout = 1
    CleanupPeriod = 0
    PollTimeout = 0
    MaxSockets = 1
SPECIFICATION Spec
INVARIANT DeliveredWasPublished

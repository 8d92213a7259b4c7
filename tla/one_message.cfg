CONSTANTS
    Publisher = {p1}
    Topic = {"short", "full"}
    TopicSize <- MCTopicSizes
    PayloadSize = {0, 3, 4, 7, 8}
    HeaderSize = 12
    Mtu = 16
    SizeMod = 65536
    IdMod = 2
    MaxFragments = 3
    MaxPublish = 1
    NoTopic = NoTopic
    Caller = {c1}
    Handler = {h1}
    NoHandler = NoHandler
    NoMessage = NoMessage
    Garbled = Garbled
    ReassemblyTimeout = 1
    CleanupPeriod = 1
    PollTimeout = 1
    MaxSockets = 1
SPECIFICATION FairSpec

PROPERTIES StopReturns PollTimeoutsDrain
INVARIANTS FragmentsPartitionPayload PacketsFitMtu

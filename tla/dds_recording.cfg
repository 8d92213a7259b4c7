CONSTANTS
    Free = Free
    DdsTopic = {d1}
    DdsInstance = {k1, k2}
    InstanceTopic <- MCInstanceTopic
    Depth <- MCDepth2
    ZyreTopic = {}
    Worker = {w1, w2}
    Receiver = Receiver
    NoTopic = NoTopic
    MaxMessages = 3
    MaxCommands = 6
SPECIFICATION Spec
INVARIANT RecordingComplete
SYMMETRY ClientsAndKeys
CHECK_DEADLOCK FALSE
PROPERTY DdsImplementsTransport

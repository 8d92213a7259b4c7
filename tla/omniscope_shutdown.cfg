CONSTANTS
    Free = Free
    DdsTopic = {d1}
    DdsInstance = {k1}
    InstanceTopic <- MCInstanceTopic
    Depth <- MCDepth
    ZyreTopic = {z1}
    Worker = {w1, w2}
    Receiver = Receiver
    NoTopic = NoTopic
    MaxMessages = 2
    MaxCommands = 4
SPECIFICATION Spec
INVARIANT NoUseAfterDestruction
CHECK_DEADLOCK FALSE

CONSTANTS
    SizeBits = 5
    HalfBits = 3
    SampleRun <- MCSampleRun
    FieldSet <- MCFieldSet
    Stamp <- MCStamp
    Start = {15}
    StreamId = {4}
    Scale = {0, 2}
    OtherPacket <- MCOtherPacket
    MaxCalls = 2
SPECIFICATION Spec
INVARIANTS TypeOK SamplesSurvive PacketsNumbered HeadersSurvive FieldsSurvive ParsesEveryWholePacket RoundTripExact

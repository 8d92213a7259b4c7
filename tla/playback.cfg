CONSTANTS
    Caller = {c1}
    BadLine = BadLine
    Missing = Missing
    Recording <- MCRecording
SPECIFICATION FairSpec
INVARIANTS TypeOK ReplaysRecording EndsOnce
PROPERTIES NothingPublishedAfterStop StopReturns PlaybackEnds
CHECK_DEADLOCK FALSE

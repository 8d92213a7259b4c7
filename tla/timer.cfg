CONSTANTS
    Caller = {c1}
SPECIFICATION FairSpec
INVARIANT RestartSafe
PROPERTIES NoCallAfterStop OneShotFiresOnce StopReturns TimerFires
CHECK_DEADLOCK FALSE

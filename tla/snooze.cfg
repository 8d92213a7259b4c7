CONSTANTS
    User = {u1, u2}
    Period = {0, 2}
    MaxPeriod = 2
SPECIFICATION FairSpec
PROPERTIES NoEarlyCall NoStrayCall StopReturns SnoozeFires
CHECK_DEADLOCK FALSE

CONSTANTS
    Client = {c1, c2}
    NoOne = NoOne
    MaxData = 3
    MaxListeners = 2
SPECIFICATION FairSpec
INVARIANT HeardInOrder
PROPERTIES NoCallAfterUnregister QueueDrains DestroyReturns
CHECK_DEADLOCK FALSE

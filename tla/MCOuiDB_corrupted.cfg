CONSTANTS
    Waiters = {w1, w2}
    None = None
    MaxVersion = 2
    MaxFailures = 3
SPECIFICATION FairSpec
PROPERTIES CorruptedRequested
CHECK_DEADLOCK FALSE

CONSTANTS
    Waiters = {w1, w2}
    None = None
    MaxVersion = 2
    MaxFailures = 3
SPECIFICATION FairSpec
INVARIANTS UpToDate WaitEnsuresLookup
PROPERTIES WaitReturns
CHECK_DEADLOCK FALSE

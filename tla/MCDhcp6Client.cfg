CONSTANTS
    Servers = {s, t}
    Leases <- Two
    Xids = {1, 2, 3, 4, 5}
    None = None
    MaxLate = 1
    MaxFailures = 1
SPECIFICATION FairSpec
INVARIANTS ReleaseFindsServer FileIsLease Paced
PROPERTIES BoundAgain
CHECK_DEADLOCK FALSE

CONSTANTS
    Leases <- Some
    Subnet <- SubnetOf
    Prefixes = {p}
    Static = lan0
    None = None
    MaxWrites = 3
    MaxFailures = 1
SPECIFICATION FairSpec
INVARIANTS  DefaultRouteUsable ListenersNotified
PROPERTIES UplinkKept  LeaseApplied
CHECK_DEADLOCK FALSE

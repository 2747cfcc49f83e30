CONSTANTS
    a = a
    b = b
    c = c
    HW = {a, b, c}
    Names <- MCNames
    NoName = ""
    Torn = "torn"
    Hostnames <- MCHostnames
    Overrides <- MCOverrides
    LeaseRange = 2
    LeasePeriod = 1
    NintendoPeriod = 2
    Nintendo = {b}
    Preloaded <- MCPreloaded
    NoLease = NoLease
    MaxTime = 3
SPECIFICATION Spec
INVARIANTS IndexConsistent CheckStillValid OldLeaseKept OfferSafe NoInheritance
PROPERTIES LeaseNotTaken ImplementsAllocator

CONSTANTS
    a = a
    b = b
    HW = {a, b}
    Names = {"", "torn", "over"}
    NoName = ""
    Torn = "torn"
    Hostnames <- MCHostnames
    Overrides <- MCOverrides
    LeaseRange = 2
    LeasePeriod = 1
    NintendoPeriod = 2
    Nintendo = {b}
    Preloaded = {}
    NoLease = NoLease
    MaxTime = 4
    MaxRestarts = 1
SPECIFICATION ServerSpec
INVARIANTS NoTwoHolders HolderRecorded HolderOnDisk GaugeNotLow
VIEW View

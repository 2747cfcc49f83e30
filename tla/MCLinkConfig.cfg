CONSTANTS
    Configs <- Some
    Hardware = {"m1", "m2"}
    KernelNames <- Eths
    RandomMac = "r"
    None <- NoValue
    MaxFailures = 2
SPECIFICATION FairSpec
INVARIANTS TypeOK LinksAsMeant DoneMeansConfigured
PROPERTIES SettledStays ConfiguredAtLast
CHECK_DEADLOCK FALSE

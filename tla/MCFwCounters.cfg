CONSTANTS
    Scrapers = {s1, s2}
    None = None
    MaxTraffic = 4
    MaxApplies = 3
    MaxFailures = 2
SPECIFICATION Spec
INVARIANT CountedOnce
PROPERTIES ReportedGrows
SYMMETRY Symmetry

CONSTANTS
    Interfaces = {uplink0, lan0}
    Sessions = {s1}
    None = None
    Size = 2
    MaxPackets = 4
    MaxFailures = 1
SPECIFICATION FairSpec
INVARIANTS TypeOK BufferIsLatest SentInOrder
PROPERTIES Delivered
CHECK_DEADLOCK FALSE

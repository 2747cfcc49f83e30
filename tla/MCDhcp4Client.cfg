CONSTANTS
    Upstreams <- Renumbered
    Xids = {1, 2, 3, 4}
    None = None
    UnhealthyLimit = 2
    MaxLate = 1
    MaxChanges = 1
    MaxFailures = 1
SPECIFICATION FairSpec
INVARIANTS AckAnswersRequest
PROPERTIES ForgottenForAReason LeaseAgain
CHECK_DEADLOCK FALSE

SPECIFICATION Spec
CONSTANTS
    MaxDrives = 3
    MaxRequests = 2
    Kinds = {"resume", "approve", "reject"}
    Starters = {"api", "worker"}
INVARIANTS
    TypeOK
    PublishedWasApproved
PROPERTIES
    ClosedIsFinal
    RunningIsSettled
CHECK_DEADLOCK FALSE

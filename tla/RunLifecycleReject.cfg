SPECIFICATION Spec
CONSTANTS
    MaxDrives = 2
    MaxRequests = 2
    Kinds = {"approve", "reject"}
    Starters = {"api"}
PROPERTIES
    RejectionSticks
CHECK_DEADLOCK FALSE

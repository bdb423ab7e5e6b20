SPECIFICATION Spec
CONSTANTS
    MaxDrives = 3
    MaxRequests = 2
    Kinds = {"resume"}
    Starters = {"api"}
INVARIANTS
    OneDrivePerProcess
CHECK_DEADLOCK FALSE

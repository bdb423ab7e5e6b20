SPECIFICATION CourseSpec
CONSTANTS
    MaxDrives = 4
    MaxRequests = 3
    Kinds = {"resume", "approve"}
    Starters = {"worker"}
INVARIANTS
    OnlyApprovedCopyIsPublished
CHECK_DEADLOCK FALSE

SPECIFICATION Spec
CONSTANTS
    Runtimes = {"builtin", "langgraph"}
    MaxSteps = 14
    MaxUsd = 2
    MaxLoops = 2
    Charges = {0, 1}
    MaxDrives = 4
INVARIANTS
    TypeOK
    PublishedWasApproved
    FreshDriveReviewsJudgedText
    ExportedOnceCheckpointed
    ApprovedRunFinishes
PROPERTIES
    DriveEnds
    ImplementsGate
CHECK_DEADLOCK FALSE

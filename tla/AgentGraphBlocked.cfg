SPECIFICATION Spec
CONSTANTS
    Runtimes = {"langgraph"}
    MaxSteps = 14
    MaxUsd = 2
    MaxLoops = 2
    Charges = {0}
    MaxDrives = 2
INVARIANTS
    BlockedRunNeverReachesReview
CHECK_DEADLOCK FALSE

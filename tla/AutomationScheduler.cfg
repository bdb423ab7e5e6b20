SPECIFICATION Spec
CONSTANTS
    w1 = w1
    w2 = w2
    tab = tab
    HoursPerDay = 2
    DaysPerWeek = 2
    DaysPerMonth = 3
    OffsetBefore = 0
    OffsetAfter = 1
    ClockChange = 4
    Workers = {w1, w2}
    Owners = {tab}
    Choices = {"weekly", "monthly"}
    Days = {0, 1}
    Hours = {1}
    MaxTime = 5
    MaxLag = 1
    MaxTick = 2
    MaxSaves = 1
    MaxDeaths = 1
INVARIANTS
    TypeOK
    NextRunIsOnSchedule
PROPERTIES
    OffStopsClaims
    ReachedSlotIsClaimedOnce
    DueIsHandled
CHECK_DEADLOCK FALSE

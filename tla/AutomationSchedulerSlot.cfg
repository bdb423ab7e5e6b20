SPECIFICATION Spec
CONSTANTS
    w1 = w1
    tab = tab
    HoursPerDay = 2
    DaysPerWeek = 2
    DaysPerMonth = 3
    OffsetBefore = 0
    OffsetAfter = 1
    ClockChange = 4
    Workers = {w1}
    Owners = {tab}
    Choices = {"biweekly", "monthly"}
    Days = {0, 1}
    Hours = {1}
    MaxTime = 8
    MaxLag = 1
    MaxTick = 3
    MaxSaves = 0
    MaxDeaths = 0
PROPERTIES
    SlotIsClaimedOnce
CHECK_DEADLOCK FALSE

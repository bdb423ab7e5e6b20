SPECIFICATION Spec
CONSTANTS
    w1 = w1
    tab = tab
    HoursPerDay = 2
    DaysPerWeek = 2
    DaysPerMonth = 3
    OffsetBefore = 0
    OffsetAfter = 1
    ClockChange = 40
    Workers = {w1}
    Owners = {tab}
    Choices = {"biweekly"}
    Days = {0, 1}
    Hours = {1}
    MaxTime = 24
    MaxLag = 0
    MaxTick = 3
    MaxSaves = 0
    MaxDeaths = 0
PROPERTIES
    FortnightsApart
CHECK_DEADLOCK FALSE

CONSTANTS
    Exprs <- MCExprs
    Starts <- MCStarts
    HoursPerDay = 2
    MinutesPerHour = 3
    Months = 2
    DaysPerMonth = 3
    DaysPerWeek = 3
    MonthOf <- MCMonthOf
    DayOfMonth <- MCDayOfMonth
    DayOfWeek <- MCDayOfWeek
    NextMonth <- MCNextMonth
    ZoneHour = 0
    ZoneMin = 0
    MaxIter = 30
    LastDay = 70
SPECIFICATION Spec
INVARIANTS NextIsLater NothingSkipped FoundIsAccepted YearIsSearched
CHECK_DEADLOCK FALSE

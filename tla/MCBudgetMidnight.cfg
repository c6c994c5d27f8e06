\* Two ticks straddling midnight.
CONSTANTS
    t1 = t1
    t2 = t2
    Ticks = {t1, t2}
    Rates = {3}
    Requests = {2}
    DailyCap = 3
    MinutesPerDay = 2
    LastMinute = 2
    MaxCrashes = 0
SPECIFICATION BudgetSpec
SYMMETRY MCTicks
INVARIANTS
    DayKeepsCap
CHECK_DEADLOCK FALSE

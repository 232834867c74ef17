SPECIFICATION Spec
CONSTANTS
    Jobs = {j1}
    Broken = {}
    Ticks = {p1}
    Expressions <- Hourly
    MinutesPerHour = 60
    HoursPerDay = 24
    MaxTime = 120
    MaxEdits = 0
    MaxFaults = 0
INVARIANTS
    NextRunIsNextMatch
CHECK_DEADLOCK FALSE

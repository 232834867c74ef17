SPECIFICATION Spec
CONSTANTS
    Jobs = {j1, j2}
    Broken = {j2}
    Ticks = {p1, p2}
    Expressions <- Schedules
    MinutesPerHour = 6
    HoursPerDay = 4
    MaxTime = 3
    MaxEdits = 1
    MaxFaults = 1
INVARIANTS
    TypeOK
    NextRunIsAhead
    SimpleSchedulesAreExact
    OneRunPerDueTime
PROPERTIES
    ScheduleFollowsExpression
    DueJobIsServed
CHECK_DEADLOCK FALSE

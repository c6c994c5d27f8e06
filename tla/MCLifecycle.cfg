\* Two setups, two requests of admins and one tick; the first part has one date
\* and a clock of 3, the second one request, a second date for a schedule made anew
\* after the first has come, and a tick that dies or a change of the deployment's
\* mode.  Nothing goes on after a campaign is deleted on a disabled deployment.
CONSTANTS
    l1 = l1
    l2 = l2
    a1 = a1
    a2 = a2
    t1 = t1
    Setups = {l1, l2}
    Sessions = {a1, a2}
    Ticks = {t1}
    Grace = 1
    Lead = 2
    LastTime = 5
    Dates = {2, 4}
    MaxFaults = 1
SPECIFICATION MCSpec
INVARIANTS
    LaunchedAsApproved
    LaunchIsHistory
PROPERTIES
    LaunchesOnTime
    LaunchedAsJudged
    ScheduleIsDecided
CHECK_DEADLOCK FALSE

\* The requests are a finite set and so are the days: when all are over
\* nothing is left to do, which is not a deadlock of the system.
CHECK_DEADLOCK FALSE
SPECIFICATION Spec
CONSTANTS
    s1 = s1
    r1 = r1
    r2 = r2
    c1 = c1
    c2 = c2
    c3 = c3
    UserTasks = {s1}
    Clicks = {r1, r2}
    Claims = {c1, c2}
    TaskOf <- MCTaskOf
    MaxDay = 2
    MaxFaults = 0
    MaxCrashes = 0
INVARIANTS
    ClaimedOnce

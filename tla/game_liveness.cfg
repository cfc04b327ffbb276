\* The set of play requests is finite: when all are answered nothing is left
\* to do, which is not a deadlock of the system.
CHECK_DEADLOCK FALSE
SPECIFICATION FairSpec
CONSTANTS
    Users = {u1}
    Turns = {t1}
    UserOf <- MCUserOf
    SideOf <- MCSideOf
    Pollers = {p1}
    Prices = {1, 2}
    TurnDuration = 1
    LockSlack = 1
    InitBalance = 20
    InitStreaks = {9}
    MaxFaults = 2
    MaxCrashes = 1
PROPERTIES
    EveryTurnCloses
    EveryTurnPaid

CHECK_DEADLOCK FALSE
SPECIFICATION Spec
CONSTANTS
    Users = {u1}
    Turns = {t1, t2}
    UserOf <- MCUserOf
    SideOf <- MCSideOf
    Pollers = {p1}
    Prices = {1}
    TurnDuration = 1
    LockSlack = 1
    InitBalance = 20
    InitStreaks = {0}
    MaxFaults = 0
    MaxCrashes = 0
INVARIANTS
    OneOpenTurn

\* The commands are a finite set: when all are answered nothing is left to
\* do, which is not a deadlock of the system.
CHECK_DEADLOCK FALSE
SPECIFICATION FairSpec
CONSTANTS
    u1 = u1
    u2 = u2
    m1 = m1
    m2 = m2
    t1 = t1
    Bot = Bot
    NoOne = NoOne
    Users = {u1, u2}
    Blesses = {m1, m2}
    PlayerOf <- MCPlayerOf
    TargetOf <- MCTargetOf
    Prices = {14, 20}
    Tips = {t1}
    SenderOf <- MCSenderOf
    InitBalance = 20
    MaxFaults = 1
    MaxCrashes = 1
INVARIANTS
    TypeOK
    RoomSaysWhatWasTold
    AnnouncedAsSettled
    BooksBalance
    TipAnswersAreTrue
PROPERTIES
    QueuedIsTold

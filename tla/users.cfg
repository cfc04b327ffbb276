\* The requests are a finite set: when all are answered nothing is left to
\* do, which is not a deadlock of the system.
CHECK_DEADLOCK FALSE
SPECIFICATION Spec
CONSTANTS
    u1 = u1
    u2 = u2
    u3 = u3
    u4 = u4
    g1 = g1
    s1 = s1
    r1 = r1
    r2 = r2
    b1 = b1
    k1 = k1
    k2 = k2
    k3 = k3
    addr1 = addr1
    addr2 = addr2
    None = None
    NaN = NaN
    nids <- MCnids
    ages <- MCages
    ThisYear = 15
    Ids <- MCIds
    Users = {u1, u2, u3, u4}
    Premium = {u1}
    Registered = {u2, u4}
    Profiles = {g1}
    Starts = {s1}
    Refers = {r1, r2}
    UserOf <- MCUserOf
    ParentOf <- MCParentOf
    Plays = {b1}
    PlayerOf <- MCPlayerOf
    Connects = {k1, k2, k3}
    Wanted <- MCWanted
    RandomScores = {1}
    MaxFaults = 1
    MaxCrashes = 1
SYMMETRY Symmetry
CONSTRAINT OneKind
INVARIANTS
    TypeOK
    PaidParentIsLinked
    BonusesInStep
    UsersHaveWallets
    ScoreFitsAge
    AddressOfOneUser
PROPERTIES
    AddressIsKept

\* The requests are a finite set: when all are answered nothing is left to
\* do, which is not a deadlock of the system.
CHECK_DEADLOCK FALSE
SPECIFICATION FairSpec
CONSTANTS
    u1 = u1
    u2 = u2
    u3 = u3
    chat1 = chat1
    web1 = web1
    tap1 = tap1
    tap2 = tap2
    put1 = put1
    put2 = put2
    NoOne = NoOne
    Users = {u1, u2}
    Challenges = {chat1}
    CreatorOf <- MCCreatorOf
    TypeOf <- MCTypeOf
    TargetOf <- MCTargetOf
    Accepts = {tap1, tap2}
    ChallengeOf <- MCChallengeOf
    AcceptorOf <- MCAcceptorOf
    IdPrefixOf <- MCIdPrefixOf
    MaxOpen = 1
    Prices = {0, 1}
    InitBalance = 20
    MaxFaults = 1
    MaxCrashes = 2
    MaxTroubles = 2
INVARIANTS
    OneRoomPerChat
PROPERTIES
    JobsEnd
    StakeNotForgotten

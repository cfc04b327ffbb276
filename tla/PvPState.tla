------------------------------ MODULE PvPState ------------------------------
(***************************************************************************)
(* What the parts of the player-versus-player game share: a challenge is   *)
(* data under a key of redis, an accepted challenge is a document of the   *)
(* pvprooms collection, and a BullMQ job settles the room five seconds     *)
(* later.  PvPChallenge has the steps up to the job, PvPSettlement the job *)
(* itself, PvP puts them together.                                         *)
(*                                                                         *)
(* Every await is a step of its own.  A call to redis, the database, the   *)
(* queue or the wallet may fail without effect (a fault).                  *)
(***************************************************************************)
EXTENDS Integers, FiniteSets, Sequences, Wallet

CONSTANTS
    Users,          \* players
    Challenges,     \* requests to open a challenge, each with a key of its own
    CreatorOf,      \* the player who makes each
    TypeOf,         \* where it is made: "WEB", or "CHAT" with the /bless command
    TargetOf,       \* the side it bets on
    Accepts,        \* requests to accept one; the room it makes has its identity
    ChallengeOf,    \* the challenge each wants
    AcceptorOf,     \* the player who makes each
    IdPrefixOf,     \* the players whose id begins with the id of a player
    MaxOpen,        \* open web challenges a player may have, 3 in the code
    Prices,         \* the prices getLastPrice may return, 0 in a process that has had none
    InitBalance,    \* balance of every player at first
    NoOne           \* not a player

CONSTANTS           \* bounds of the model, not of the system
    MaxFaults,      \* failed calls
    MaxCrashes,     \* crashes of the process
    MaxTroubles     \* failed calls and crashes together

Targets == {"PUMP", "DUMP"}

ASSUME UsersAssumption == IsFiniteSet(Users)
ASSUME RequestsAssumption ==
    /\ CreatorOf \in [Challenges -> Users]
    /\ TypeOf \in [Challenges -> {"WEB", "CHAT"}]
    /\ TargetOf \in [Challenges -> Targets]
    /\ ChallengeOf \in [Accepts -> Challenges]
    /\ AcceptorOf \in [Accepts -> Users]
    /\ IdPrefixOf \in [Users -> SUBSET Users]
    /\ NoOne \notin Users \cup Accepts
ASSUME LimitsAssumption ==
    /\ MaxOpen \in Nat /\ MaxFaults \in Nat /\ MaxCrashes \in Nat /\ MaxTroubles \in Nat
    /\ InitBalance \in Int /\ Prices \subseteq Nat

VARIABLES
    create,     \* where each request to open a challenge is
    pvpKeys,    \* the challenges that are in redis
    stale,      \* the challenges made more than TIME_CANCEL_PVP ago
    accept,     \* where each request to accept is
    botQueue,   \* PVP_ACCEPT_ROOM jobs of the chat's queue; the first is being served
    cancel,     \* where the cron's cancellation of each challenge is
    refunds,    \* PVP_CANCEL transactions of each challenge in the wallet service
    rooms,      \* the pvprooms collection
    jobs,       \* the PVP_EVENT job of each room
    stalled,    \* jobs of either queue that a crash interrupted once
    settle,     \* what the worker of the PVP_EVENT jobs does, with its local variables
    moved,      \* for each room and winner, how often each wallet call of playPvP stands
    pointPvP,   \* points credited to each player
    wallet,     \* the wallet service's accounts
    faults, crashes

vars == <<create, pvpKeys, stale, accept, botQueue, cancel, refunds, rooms, jobs,
          stalled, settle, moved, pointPvP, wallet, faults, crashes>>
createVars == <<create, stale>>
acceptVars == <<accept, botQueue>>
cancelVars == <<cancel, refunds>>
settleVars == <<settle, moved, pointPvP>>

-----------------------------------------------------------------------------
(* The stake of every challenge, in units of which the tax is a whole one. *)
amount == 10
totalAmount == 2 * amount
tax == totalAmount \div 20              \* TAX_PVP, 5 %
totalPrize == totalAmount - tax

Creator(a) == CreatorOf[ChallengeOf[a]]

NoRoom == [saved |-> FALSE, openPrice |-> 0, winner |-> NoOne]
AtRest == [pc |-> "idle", room |-> NoOne, winner |-> NoOne, calls |-> 0]

Room == [saved : BOOLEAN, openPrice : Prices \cup {0}, winner : Users \cup {NoOne}]
SettleRun == [pc : {"idle", "price", "call", "record", "undo", "over", "broken"},
              room : Accepts \cup {NoOne}, winner : Users \cup {NoOne}, calls : 0..4]

TypeOK ==
    /\ create \in [Challenges -> {"idle", "lock", "set", "done", "failed", "refused"}]
    /\ pvpKeys \subseteq Challenges /\ stale \subseteq Challenges
    /\ accept \in [Accepts -> {"idle", "tapped", "queued", "get", "lock", "del", "save",
                               "enqueue", "done", "notFound", "failed"}]
    /\ botQueue \in Seq(Accepts)
    /\ cancel \in [Challenges -> {"idle", "again", "del", "refund"}]
    /\ refunds \in [Challenges -> Nat]
    /\ rooms \in [Accepts -> Room]
    /\ jobs \in [Accepts -> {"none", "waiting", "active", "completed", "failed"}]
    /\ stalled \subseteq (Accepts \X {"accept", "settle"})
    /\ settle \in SettleRun
    /\ moved \in [Accepts -> [Users -> [1..4 -> 0..2]]]
    /\ pointPvP \in [Users -> Int]
    /\ wallet \in [Users -> Account]
    /\ faults \in 0..MaxFaults /\ crashes \in 0..MaxCrashes

Init ==
    /\ create = [c \in Challenges |-> "idle"]
    /\ pvpKeys = {} /\ stale = {}
    /\ accept = [a \in Accepts |-> "idle"]
    /\ botQueue = <<>>
    /\ cancel = [c \in Challenges |-> "idle"]
    /\ refunds = [c \in Challenges |-> 0]
    /\ rooms = [a \in Accepts |-> NoRoom]
    /\ jobs = [a \in Accepts |-> "none"]
    /\ stalled = {}
    /\ settle = AtRest
    /\ moved = [a \in Accepts |-> [u \in Users |-> [i \in 1..4 |-> 0]]]
    /\ pointPvP = [u \in Users |-> 0]
    /\ wallet = [u \in Users |-> [balance |-> InitBalance, locked |-> 0]]
    /\ faults = 0 /\ crashes = 0

-----------------------------------------------------------------------------
MoreTrouble == faults + crashes < MaxTroubles

(* A call fails although nothing in the state makes it fail. *)
Fault == faults < MaxFaults /\ MoreTrouble /\ faults' = faults + 1

(* A wallet call that the service accepts fails only by a fault. *)
Refused(ok) == IF ok THEN Fault ELSE UNCHANGED faults

Lock(u) == wallet' = [wallet EXCEPT ![u] = ChangeLocked(@, amount)]
Release(u) == wallet' = [wallet EXCEPT ![u] = ChangeLocked(@, -amount)]
=============================================================================

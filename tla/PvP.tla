-------------------------------- MODULE PvP ---------------------------------
(***************************************************************************)
(* The player-versus-player game as a whole: challenges and their          *)
(* settlement on the same wallet, one process that may crash.  docker      *)
(* starts it again, and since nothing else happens meanwhile a crash and   *)
(* the restart are one step.  What the queues hold survives: a job the     *)
(* crash interrupted is run again, once.                                   *)
(***************************************************************************)
EXTENDS PvPChallenge, PvPSettlement, FiniteSetsExt

InFlight == {"get", "lock", "del", "save", "enqueue"}

(* What a worker was doing, and what it had done but BullMQ had not marked  *)
(* as ended: the job waits again, or is given up the second time.           *)
Served(a) == botQueue # <<>> /\ Head(botQueue) = a /\ accept[a] # "queued"
Interrupted ==
    {<<a, "accept">> : a \in {x \in Accepts : Served(x)}}
    \cup {<<a, "settle">> : a \in {x \in Accepts : jobs[x] = "active"}}

AfterCrash(a) ==
    IF Served(a) /\ <<a, "accept">> \notin stalled THEN "queued"
    ELSE IF accept[a] \in InFlight \cup {"tapped"} THEN "failed" ELSE accept[a]

JobAfterCrash(a) ==
    IF jobs[a] # "active" THEN jobs[a]
    ELSE IF <<a, "settle">> \in stalled THEN "failed" ELSE "waiting"

Crash ==
    /\ crashes < MaxCrashes /\ MoreTrouble
    /\ crashes' = crashes + 1
    /\ create' = [c \in Challenges |->
                    IF create[c] \in {"lock", "set"} THEN "failed" ELSE create[c]]
    /\ accept' = [a \in Accepts |-> AfterCrash(a)]
    /\ botQueue' = IF botQueue # <<>> /\ AfterCrash(Head(botQueue)) # "queued"
                   THEN Tail(botQueue) ELSE botQueue
    /\ cancel' = [c \in Challenges |-> "idle"]
    /\ jobs' = [a \in Accepts |-> JobAfterCrash(a)]
    /\ stalled' = stalled \cup Interrupted
    /\ settle' = AtRest
    /\ UNCHANGED <<pvpKeys, stale, refunds, rooms, moved, pointPvP, wallet, faults>>

Next ==
    \/ \E c \in Challenges : CreateStep(c) \/ CancelStep(c) \/ GrowsStale(c)
    \/ \E a \in Accepts : ChatTap(a) \/ AcceptStart(a) \/ AcceptStep(a) \/ SettleStart(a)
    \/ SettleStep \/ Crash

Spec == Init /\ [][Next]_vars

(* Nobody has to open or accept a challenge, but what the process has begun *)
(* goes on: time passes, the cron sweeps, the workers take their jobs.      *)
Fairness ==
    /\ \A c \in Challenges :
          /\ WF_vars(GrowsStale(c)) /\ WF_vars(CancelStep(c))
          /\ WF_vars(create[c] # "idle" /\ CreateStep(c))
    /\ \A a \in Accepts :
          /\ WF_vars(AcceptStep(a))
          /\ WF_vars(accept[a] = "queued" /\ AcceptStart(a))
          /\ WF_vars(SettleStart(a))
    /\ WF_vars(SettleStep)

FairSpec == Spec /\ Fairness

-----------------------------------------------------------------------------
(* Properties. *)

RoomsOf(c) == {a \in Accepts : ChallengeOf[a] = c /\ rooms[a].saved}

(* A challenge of the chat becomes one room at most, however often the      *)
(* button is tapped and even when a crash makes the queue run an acceptance *)
(* again (acceptPvPRoom deletes the key before it saves the room).          *)
OneRoomPerChat ==
    \A c \in Challenges : TypeOf[c] = "CHAT" => Cardinality(RoomsOf(c)) <= 1

(* 'PvP room not found' (game.service.ts:529) is what a second acceptor of  *)
(* any challenge is told.  It does not hold: two web requests may both have *)
(* read the challenge before either deletes it.                             *)
OneRoomPerChallenge == \A c \in Challenges : Cardinality(RoomsOf(c)) <= 1

(* 'canceled because no one joined after 5 minutes' (game-pvp.service.ts:   *)
(* 432): a challenge that was cancelled and refunded has no room.  It does  *)
(* not hold: the cron and an acceptor may both have read the challenge.     *)
CanceledMeansNobodyJoined == \A c \in Challenges : refunds[c] > 0 => RoomsOf(c) = {}

(* The margin of a challenge goes back at most once by cancellation, though *)
(* sweeps, failed calls and crashes follow each other.                      *)
RefundedOnce == \A c \in Challenges : refunds[c] <= 1

(* A settlement that ran to its end, and only once, has made all four       *)
(* wallet calls for the winner the room names, or none of them and names no *)
(* winner: playPvP's rollback leaves nothing half paid.                     *)
SettledAsRecorded ==
    \A a \in Accepts : jobs[a] = "completed" /\ <<a, "settle">> \notin stalled =>
        \A u \in Users, i \in 1..4 : moved[a][u][i] = IF u = rooms[a].winner THEN 1 ELSE 0

(* Money leaves the players only as the tax of a settled room: unless a     *)
(* rollback failed or a crash cut a settlement, the balances between two    *)
(* jobs add up to the first ones less one tax per room with a winner.       *)
SettlementsClean ==
    /\ settle = AtRest
    /\ \A a \in Accepts : jobs[a] # "failed" /\ <<a, "settle">> \notin stalled
TaxIsAllThatLeaves ==
    SettlementsClean =>
        SumFunction([u \in Users |-> wallet[u].balance])
            = Cardinality(Users) * InitBalance
                - tax * Cardinality({a \in Accepts : rooms[a].winner # NoOne})

(* The settlements implement RoomLedger: the four wallet calls of playPvP   *)
(* and its update of the room are one step, or none, whatever is staked,    *)
(* accepted and cancelled by the same players in between; only a failed     *)
(* rollback or a crash leaves a settlement half made, and a crash, even     *)
(* one after the last call, has a room settled again once.  The accounts    *)
(* are those a rollback would leave, until the room names its winner.       *)
SettledAccounts ==
    LET w == settle.winner
        l == LoserOf(settle.room, w)
        n == settle.calls
    IN  IF n = 0 THEN wallet
        ELSE [u \in Users |->
                [balance |-> wallet[u].balance - (IF u = w /\ n >= 2 THEN totalPrize - amount ELSE 0)
                                               + (IF u = l /\ n >= 3 THEN amount ELSE 0),
                 locked |-> wallet[u].locked
                              + (IF (u = w /\ n >= 1) \/ (u = l /\ n = 4) THEN amount ELSE 0)]]
Winners == [a \in Accepts |-> rooms[a].winner]
Ended == IF settle.pc \in {"over", "broken"} THEN {settle.room} ELSE {}
ToSettle == {a \in Accepts : jobs[a] \notin {"completed", "failed"}} \ Ended
CutOnce == {a \in Accepts : <<a, "settle">> \in stalled}
HalfMade ==
    {a \in Accepts : jobs[a] = "failed"} \cup (IF settle.pc = "broken" THEN Ended ELSE {})
PlayersOf(a) == {Creator(a), AcceptorOf[a]}
Books == INSTANCE RoomLedger WITH
    Rooms <- Accepts, PlayersOf <- PlayersOf,
    Stake <- amount, Tax <- tax, accounts <- SettledAccounts,
    winnerOf <- Winners, due <- ToSettle, retried <- CutOnce, failed <- HalfMade
SettlementsAtomic == Books!LedgerSpec

(* As long as no challenge was released twice and no settlement cut by a    *)
(* crash, each player has locked at least his stakes in the challenges that *)
(* are open and the rooms that wait: nobody's margin is freed early and no  *)
(* call of one room takes the margin of another.                            *)
ReleasedOnce ==
    /\ \A c \in Challenges : Cardinality(RoomsOf(c)) + refunds[c] <= 1
    /\ \A a \in Accepts : <<a, "settle">> \notin stalled
StakesOf(u) ==
    Cardinality({c \in pvpKeys : CreatorOf[c] = u})
    + Cardinality({a \in Accepts : jobs[a] = "waiting" /\ u \in {Creator(a), AcceptorOf[a]}})
StakesAreLocked ==
    ReleasedOnce => \A u \in Users : wallet[u].locked >= amount * StakesOf(u)

(* Every job of the settlement queue ends, over crashes and failed calls.   *)
JobsEnd ==
    \A a \in Accepts : jobs[a] = "waiting" ~> jobs[a] \in {"completed", "failed"}

(* The margin of a challenge is not forgotten: in the end it is the stake   *)
(* of a room or goes back, unless a call failed or the process crashed.     *)
StakeNotForgotten ==
    \A c \in Challenges : create[c] = "done" ~>
        (RoomsOf(c) # {} \/ refunds[c] > 0 \/ faults > 0 \/ crashes > 0)
=============================================================================

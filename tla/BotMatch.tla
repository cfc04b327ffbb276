------------------------------ MODULE BotMatch ------------------------------
(***************************************************************************)
(* Matches against the bot: the /bless command of the bot in a private     *)
(* chat (telegram-bot.service.ts) locks a margin, saves a room and adds a  *)
(* delayed job; the queue's one worker runs handlePvPResultWithBot         *)
(* (game-pvp.service.ts), which pays a winning player, stores the result   *)
(* in the first room with the same players and open price, and has it      *)
(* announced.  A player who loses is not charged and his margin not freed. *)
(* That BullMQ marks the job as ended is a step of its own, before which a *)
(* crash has the whole job run again.                                      *)
(***************************************************************************)
EXTENDS BotState, Sequences

CONSTANTS
    Blesses,        \* /bless commands; the room and the job have their identity
    PlayerOf,       \* the player who sends each
    TargetOf,       \* the side it bets on
    Prices,         \* the prices getLastPrice may return, in tenths of a cent
    Bot,            \* the bot, whose id is 0
    NoOne

ASSUME BlessesAssumption ==
    /\ PlayerOf \in [Blesses -> Users]
    /\ TargetOf \in [Blesses -> {"Pump", "Dump"}]
    /\ Prices \subseteq Nat
    /\ Bot \notin Users /\ NoOne \notin Users \cup Blesses /\ NoOne # Bot

VARIABLES
    bless,          \* where each command is
    openPrice,      \* the price each match was opened at
    pvprooms,       \* the collection, in the order of insertion
    result,         \* winner and close price in each room
    jobs,           \* the HANDLE_PVP_RESULT job of each match
    stalled,        \* jobs a crash interrupted once
    worker,         \* what the queue's worker does, with its local variables
    told,           \* what was announced of each match
    upset           \* matches of which wallet calls stand that no room tells of

matchVars == <<bless, openPrice, pvprooms, result, jobs, stalled, worker, told, upset>>

(* The stake of a match, in units of which the tax is a whole one. *)
amount == 10
totalPrize == 2 * amount - amount \div 10      \* TAX_PVP, 5 %

(* Mutant: rounded to whole dollars. *)
RoundedToDollars(p) == ((p + 500) \div 1000) * 1000
(* round(price, 2): whole cents. *)
Rounded(p) == ((p + 5) \div 10) * 10

NoResult == [winner |-> NoOne, closePrice |-> 0]
NotTold == [result |-> "none", winner |-> NoOne, closePrice |-> 0]
AtRest == [pc |-> "idle", match |-> NoOne, winner |-> NoOne, closePrice |-> 0, calls |-> 0]

Winners == Users \cup {Bot, NoOne}
ClosePrices == {0} \cup {((p + 5) \div 10) * 10 : p \in Prices}

MatchTypeOK ==
    /\ bless \in [Blesses -> {"idle", "balance", "open", "lock", "save", "announce", "enqueue",
                              "done", "refused", "failed", "unsaved"}]
    /\ openPrice \in [Blesses -> Prices \cup {0}]
    /\ pvprooms \in Seq(Blesses)
    /\ result \in [Blesses -> [winner : Winners, closePrice : ClosePrices]]
    /\ jobs \in [Blesses -> {"none", "waiting", "active", "completed", "failed"}]
    /\ stalled \subseteq Blesses /\ upset \subseteq Blesses
    /\ worker \in [pc : {"idle", "price", "call", "record", "tell", "undo", "end", "failing"},
                   match : Blesses \cup {NoOne}, winner : Winners,
                   closePrice : ClosePrices, calls : 0..2]
    /\ told \in [Blesses -> [result : {"none", "Pump", "Dump"}, winner : Winners,
                             closePrice : ClosePrices]]

MatchInit ==
    /\ bless = [m \in Blesses |-> "idle"]
    /\ openPrice = [m \in Blesses |-> 0]
    /\ pvprooms = <<>>
    /\ result = [m \in Blesses |-> NoResult]
    /\ jobs = [m \in Blesses |-> "none"]
    /\ stalled = {} /\ upset = {}
    /\ worker = AtRest
    /\ told = [m \in Blesses |-> NotTold]

-----------------------------------------------------------------------------
(* processPvPCommand and createAndAcceptPvPWithBot. *)

BlessTo(m, pc) == bless' = [bless EXCEPT ![m] = pc]
afterBless == <<result, jobs, stalled, worker, told, upset>>

(* An amount that is not positive or a player who is not registered is *)
(* answered with a message.  Being over the rate limit is not.         *)
BlessStart(m) ==
    /\ bless[m] = "idle"
    /\ \E valid \in BOOLEAN : BlessTo(m, IF valid THEN "balance" ELSE "refused")
    /\ UNCHANGED <<wallet, openPrice, pvprooms, afterBless, faults, crashes>>

BlessBalance(m) ==
    /\ bless[m] = "balance"
    /\ BlessTo(m, IF Available(wallet[PlayerOf[m]]) < amount THEN "refused" ELSE "open")
    /\ UNCHANGED <<wallet, openPrice, pvprooms, afterBless, faults, crashes>>

BlessOpen(m) ==
    /\ bless[m] = "open"
    /\ \E p \in Prices : openPrice' = [openPrice EXCEPT ![m] = p]
    /\ BlessTo(m, "lock")
    /\ UNCHANGED <<wallet, pvprooms, afterBless, faults, crashes>>

BlessLock(m) ==
    LET u == PlayerOf[m] IN
    /\ bless[m] = "lock"
    /\ CanChangeLocked(wallet[u], amount)
    /\ wallet' = [wallet EXCEPT ![u] = ChangeLocked(@, amount)]
    /\ BlessTo(m, "save")
    /\ UNCHANGED <<openPrice, pvprooms, afterBless, faults, crashes>>

BlessSave(m) ==
    /\ bless[m] = "save"
    /\ pvprooms' = Append(pvprooms, m)
    /\ BlessTo(m, "announce")
    /\ UNCHANGED <<wallet, openPrice, afterBless, faults, crashes>>

BlessAnnounce(m) ==
    /\ bless[m] = "announce"
    /\ BlessTo(m, "enqueue")
    /\ UNCHANGED <<wallet, openPrice, pvprooms, afterBless, faults, crashes>>

BlessEnqueue(m) ==
    /\ bless[m] = "enqueue"
    /\ jobs' = [jobs EXCEPT ![m] = "waiting"]
    /\ BlessTo(m, "done")
    /\ UNCHANGED <<wallet, openPrice, pvprooms, result, stalled, worker, told, upset, faults,
                   crashes>>

(* The catch block tells the player and gives nothing back: a margin that   *)
(* was locked stays so, with a room or (unsaved) without one.               *)
Dropped(pc) == IF pc = "save" THEN "unsaved" ELSE "failed"

BlessFails(m) ==
    /\ \/ bless[m] \in {"open", "save", "announce", "enqueue"} /\ Fault
       \/ bless[m] = "lock" /\ Refused(CanChangeLocked(wallet[PlayerOf[m]], amount))
    /\ BlessTo(m, Dropped(bless[m]))
    /\ UNCHANGED <<wallet, openPrice, pvprooms, afterBless, crashes>>

BlessStep(m) ==
    \/ BlessBalance(m) \/ BlessOpen(m) \/ BlessLock(m) \/ BlessSave(m) \/ BlessAnnounce(m)
    \/ BlessEnqueue(m) \/ BlessFails(m)

-----------------------------------------------------------------------------
(* handlePvPResultWithBot, run by the queue's one worker. *)

beforeJob == <<bless, openPrice, pvprooms>>
Working(pc) == worker.pc = pc
WorkTo(pc) == worker' = [worker EXCEPT !.pc = pc]

(* Mutant: the job's name is none of those process knows. *)
DispatchUnknown(m) == jobs' = [jobs EXCEPT ![m] = "failed"] /\ UNCHANGED worker
Dispatch(m) ==
    /\ jobs' = [jobs EXCEPT ![m] = "active"]
    /\ worker' = [AtRest EXCEPT !.pc = "price", !.match = m]

WorkStart(m) ==
    /\ Working("idle") /\ jobs[m] = "waiting"
    /\ Dispatch(m)
    /\ UNCHANGED <<wallet, beforeJob, result, stalled, told, upset, faults, crashes>>

(* determinePvPResult: the bot has the other side and a price that did not *)
(* move.  It compares the exact prices and returns the rounded one.        *)
WinnerOf(m, closePrice) ==
    IF \/ TargetOf[m] = "Pump" /\ closePrice > openPrice[m]
       \/ TargetOf[m] = "Dump" /\ closePrice < openPrice[m]
    THEN PlayerOf[m] ELSE Bot

(* Mutant: the close price stays as it was. *)
determineUnrounded(m, closePrice) ==
    [winner |-> WinnerOf(m, closePrice), closePrice |-> closePrice]
determinePvPResult(m, closePrice) ==
    [winner |-> WinnerOf(m, closePrice), closePrice |-> Rounded(closePrice)]

WorkPrice ==
    /\ Working("price")
    /\ \E p \in Prices :
          LET r == determinePvPResult(worker.match, p) IN
          worker' = [worker EXCEPT !.winner = r.winner, !.closePrice = r.closePrice,
                                   !.pc = IF r.winner = Bot THEN "record" ELSE "call"]
    /\ UNCHANGED <<wallet, beforeJob, result, jobs, stalled, told, upset, faults, crashes>>

(* Free the margin, then add the prize without it. *)
Changed(account, n) ==
    IF n = 1 THEN ChangeLocked(account, -amount) ELSE ChangeBalance(account, totalPrize - amount)
CanChange(account, n) ==
    IF n = 1 THEN CanChangeLocked(account, -amount)
             ELSE CanChangeBalance(account, totalPrize - amount)

WorkCall ==
    LET n == worker.calls + 1
        u == worker.winner
    IN
    /\ Working("call")
    /\ CanChange(wallet[u], n)
    /\ wallet' = [wallet EXCEPT ![u] = Changed(@, n)]
    /\ worker' = [worker EXCEPT !.calls = n, !.pc = IF n = 2 THEN "record" ELSE "call"]
    /\ UNCHANGED <<beforeJob, result, jobs, stalled, told, upset, faults, crashes>>

(* updateOne({creatorId, acceptorId, openPrice}): the first room that fits. *)
(* Mutant: the open price is not asked for. *)
SamePlayers(r, m) == PlayerOf[r] = PlayerOf[m]
Fits(r, m) == PlayerOf[r] = PlayerOf[m] /\ openPrice[r] = openPrice[m]

RoomOf(m) ==
    LET fitting == {i \in DOMAIN pvprooms : Fits(pvprooms[i], m)}
    IN pvprooms[CHOOSE i \in fitting : \A j \in fitting : i <= j]

WorkRecord ==
    /\ Working("record")
    /\ result' = [result EXCEPT ![RoomOf(worker.match)] =
                     [winner |-> worker.winner, closePrice |-> worker.closePrice]]
    /\ WorkTo("tell")
    /\ UNCHANGED <<wallet, beforeJob, jobs, stalled, told, upset, faults, crashes>>

(* The announcement compares the rounded price with the exact one. *)
WorkTell ==
    LET m == worker.match IN
    /\ Working("tell")
    /\ told' = [told EXCEPT ![m] =
                   [result |-> IF worker.closePrice > openPrice[m] THEN "Pump" ELSE "Dump",
                    winner |-> worker.winner, closePrice |-> worker.closePrice]]
    /\ WorkTo("end")
    /\ UNCHANGED <<wallet, beforeJob, result, jobs, stalled, upset, faults, crashes>>

(* The catch block: with nothing to undo the handler returns. *)
(* Mutant: the calls made so far are forgotten. *)
CatchOnly == WorkTo("end")
Catch == IF worker.calls > 0 THEN WorkTo("undo") ELSE WorkTo("end")

(* Price and announcement are outside of the try block: the handler throws. *)
WorkFails ==
    /\ \/ (Working("price") \/ Working("tell")) /\ Fault /\ WorkTo("failing")
       \/ Working("record") /\ Fault /\ Catch
       \/ /\ Working("call")
          /\ Refused(CanChange(wallet[worker.winner], worker.calls + 1))
          /\ Catch
    /\ UNCHANGED <<wallet, beforeJob, result, jobs, stalled, told, upset, crashes>>

(* rollbackWallet *)
WorkUndo ==
    LET a == wallet[worker.winner] IN
    /\ Working("undo")
    /\ wallet' = [wallet EXCEPT ![worker.winner] =
                     [balance |-> IF worker.calls = 2 THEN a.balance - (totalPrize - amount)
                                                      ELSE a.balance,
                      locked |-> a.locked + amount]]
    /\ worker' = [worker EXCEPT !.pc = "end", !.calls = 0]
    /\ UNCHANGED <<beforeJob, result, jobs, stalled, told, upset, faults, crashes>>

WorkUndoFails ==
    /\ Working("undo")
    /\ Fault
    /\ upset' = upset \cup {worker.match}
    /\ WorkTo("failing")
    /\ UNCHANGED <<wallet, beforeJob, result, jobs, stalled, told, crashes>>

(* BullMQ marks the job; one that failed is not tried again. *)
WorkEnds ==
    /\ worker.pc \in {"end", "failing"}
    /\ jobs' = [jobs EXCEPT ![worker.match] = IF Working("end") THEN "completed" ELSE "failed"]
    /\ worker' = AtRest
    /\ UNCHANGED <<wallet, beforeJob, result, stalled, told, upset, faults, crashes>>

WorkStep ==
    \/ WorkPrice \/ WorkCall \/ WorkRecord \/ WorkTell \/ WorkFails \/ WorkUndo
    \/ WorkUndoFails \/ WorkEnds

-----------------------------------------------------------------------------
(* A crash ends the commands that were being served.  The worker's job      *)
(* waits again, or is given up the second time.                             *)
MatchCrash ==
    LET m == worker.match IN
    /\ bless' = [b \in Blesses |->
                    IF bless[b] \in {"balance", "open", "lock", "save", "announce", "enqueue"}
                    THEN Dropped(bless[b]) ELSE bless[b]]
    /\ worker' = AtRest
    /\ IF Working("idle") THEN UNCHANGED <<jobs, stalled, upset>>
       ELSE /\ jobs' = [jobs EXCEPT ![m] = IF m \in stalled THEN "failed" ELSE "waiting"]
            /\ stalled' = stalled \cup {m}
            /\ upset' = IF worker.calls > 0 THEN upset \cup {m} ELSE upset
    /\ UNCHANGED <<openPrice, pvprooms, result, told>>
=============================================================================

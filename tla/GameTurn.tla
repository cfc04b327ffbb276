------------------------------ MODULE GameTurn ------------------------------
(***************************************************************************)
(* The single-player game "Bless" (src/src/game/game.service.ts).  A play  *)
(* request locks a margin in the wallet, takes the price and stores an     *)
(* OPEN turn; turnDuration later a timer of the process, or a poll of the  *)
(* turn by its player, closes it: the turn is marked CLOSED, the margin is *)
(* unlocked and the profit is paid.                                        *)
(*                                                                         *)
(* Every await is a step of its own, so that requests, timers and polls    *)
(* interleave there.  A call to the wallet, the database or the price      *)
(* source may fail without effect (a fault), and the process may crash and *)
(* be restarted by docker between any two steps.  A call that takes effect *)
(* and still reports an error is not modelled.                             *)
(***************************************************************************)
EXTENDS Integers, FiniteSets, Sequences, Wallet

CONSTANTS
    Users,          \* players
    Turns,          \* play requests; the turn a request stores has its identity
    UserOf,         \* the player who makes each request
    SideOf,         \* the side the request bets on
    Pollers,        \* concurrent GET turns/:turnId requests
    Prices,         \* the prices the feed may show
    TurnDuration,   \* turnDuration, in ticks
    LockSlack,      \* how long the user lock outlives the turn, in ticks
    InitBalance,    \* balance of every player at first
    InitStreaks     \* win streaks the players may start with

CONSTANTS           \* bounds of the model, not of the system
    MaxFaults,      \* failed calls
    MaxCrashes      \* crashes of the process that no failed call causes

Side == {"PUMP", "DUMP"}
Callers == {"timer"} \cup Pollers    \* who runs closeTurn: the timer or a poll

ASSUME TurnsAssumption ==
    /\ UserOf \in [Turns -> Users]
    /\ SideOf \in [Turns -> Side]
    /\ "timer" \notin Pollers
ASSUME PricesAssumption == Prices \subseteq Nat \ {0}
ASSUME TimeAssumption == TurnDuration \in Nat /\ LockSlack \in Nat
ASSUME BoundsAssumption == MaxFaults \in Nat /\ MaxCrashes \in Nat
ASSUME FundsAssumption == InitBalance \in Int

VARIABLES
    up,         \* the process runs
    feed,       \* the price service has had a price since the process started
    play,       \* where each play request is
    turn,       \* the turns collection (its fields from when they are computed)
    age,        \* ticks since the turn's openTime, one more than TurnDuration at most
    timer,      \* ticks left on the turn's timer, or NoTimer
    userLock,   \* ticks the lock-user key still lives, 0 when there is none
    wallet,     \* the wallet service's accounts
    paid,       \* the GAME_RESULT transactions in it that each turn's closing made
    points,     \* points credited to each user
    streak,     \* winStreak of each user, in the cache and the users collection
    bonusJobs,  \* turns whose referral bonus is in the game queue
    close,      \* where each run of closeTurn is, with its local variables
    faults, crashes

vars == <<up, feed, play, turn, age, timer, userLock, wallet, paid, points,
          streak, bonusJobs, close, faults, crashes>>
serverVars == <<up, feed>>
playVars == <<play, bonusJobs>>
turnVars == <<turn, age>>
userVars == <<userLock, streak>>
moneyVars == <<wallet, paid, points>>
counters == <<faults, crashes>>

-----------------------------------------------------------------------------
(* The rules of the game. *)

bet == 10
loss == 7                \* loseRate * margin
WIN_STREAK_RATES == <<0, 1, 2, 6, 8, 10, 12, 14, 16, 18, 20>>
MAX_WIN_STREAK == Len(WIN_STREAK_RATES) - 1

(* A streak beyond the table has rate 1 (the `?? 1'). *)
WinStreakRate(n) ==
    IF n \in 0..MAX_WIN_STREAK THEN WIN_STREAK_RATES[n + 1] ELSE 1

(* A turn loses only when the price went strictly against it. *)
TurnResult(side, openPrice, lastPrice) ==
    IF \/ side = "PUMP" /\ lastPrice < openPrice
       \/ side = "DUMP" /\ lastPrice > openPrice
    THEN "MISS" ELSE "WIN"

(* Mutants: the streak never wraps; it wraps to the empty streak. *)
UnwrappedStreak(n) == n + 1
ZeroWrappedStreak(n) == IF n < MAX_WIN_STREAK THEN n + 1 ELSE 0
NextStreak(n) == IF n < MAX_WIN_STREAK THEN n + 1 ELSE 1

Profit(result, winStreak) ==
    IF result = "WIN" THEN bet * WinStreakRate(winStreak) ELSE -loss

(* The users collection never holds a longer streak. *)
ASSUME StreaksAssumption == InitStreaks \subseteq 0..MAX_WIN_STREAK

-----------------------------------------------------------------------------
NoTimer == -1
UserLockTTL == TurnDuration + LockSlack
StartPrice == 0          \* lastPrice in a process that has had no price yet
NoTurn == [state |-> "NONE", openPrice |-> StartPrice, result |-> "NONE",
           winStreak |-> 0, profit |-> 0]
Idle == [pc |-> "idle", result |-> "NONE", winStreak |-> 0]

PlayPCs == {"idle", "checked", "locked", "opening", "aborting",
            "done", "refused", "stuck", "lost"}
ClosePCs == {"idle", "find", "early", "price", "streak", "commit",
             "unlock", "pay", "undo", "cancel", "finish"}
TurnDoc == [state : {"NONE", "OPEN", "CLOSED", "CANCELED"},
            openPrice : Prices \cup {StartPrice}, result : {"NONE", "WIN", "MISS"},
            winStreak : 0..MAX_WIN_STREAK, profit : Int]
Payout == [unlocks : Int, pays : Int, amount : Int]
CloseRun == [pc : ClosePCs, result : {"NONE", "WIN", "MISS"},
             winStreak : 0..MAX_WIN_STREAK]

ServerOK == up \in BOOLEAN /\ feed \in BOOLEAN
TimerOK == timer \in [Turns -> -1..TurnDuration]
PlayOK == play \in [Turns -> PlayPCs] /\ bonusJobs \subseteq Turns
TurnOK == turn \in [Turns -> TurnDoc] /\ age \in [Turns -> 0..(TurnDuration + 1)]
UserOK ==
    /\ userLock \in [Users -> 0..UserLockTTL]
    /\ streak \in [Users -> 0..MAX_WIN_STREAK]
MoneyOK ==
    /\ wallet \in [Users -> Account]
    /\ paid \in [Turns -> Payout]
    /\ points \in [Users -> Int]
CloseOK == close \in [Turns -> [Callers -> CloseRun]]
CountersOK == faults \in 0..MaxFaults /\ crashes \in 0..MaxCrashes

TypeOK ==
    /\ ServerOK /\ TimerOK /\ PlayOK /\ TurnOK
    /\ UserOK /\ MoneyOK /\ CloseOK /\ CountersOK

Init ==
    /\ up = TRUE
    /\ feed = FALSE
    /\ play = [t \in Turns |-> "idle"]
    /\ turn = [t \in Turns |-> NoTurn]
    /\ age = [t \in Turns |-> 0]
    /\ timer = [t \in Turns |-> NoTimer]
    /\ userLock = [u \in Users |-> 0]
    /\ wallet = [u \in Users |-> [balance |-> InitBalance, locked |-> 0]]
    /\ paid = [t \in Turns |-> [unlocks |-> 0, pays |-> 0, amount |-> 0]]
    /\ points = [u \in Users |-> 0]
    /\ streak \in [Users -> InitStreaks]
    /\ bonusJobs = {}
    /\ close = [t \in Turns |-> [k \in Callers |-> Idle]]
    /\ faults = 0
    /\ crashes = 0

-----------------------------------------------------------------------------
(* What the actions share. *)

(* A call fails although nothing in the state makes it fail. *)
Fault == faults < MaxFaults /\ faults' = faults + 1

(* A wallet call that the service accepts fails only by a fault. *)
Refused(ok) == IF ok THEN Fault ELSE UNCHANGED faults

(* getLastPrice.  A stale price is asked for again over HTTP; an answer that *)
(* is no number makes the database refuse the turn it is written to, which  *)
(* is among the faults of PlayFails and CloseFails.                         *)
LastPrice == IF feed THEN Prices ELSE {StartPrice}

isUserLocked(u) == userLock[u] > 0
isTurnExpired(t) == age[t] > TurnDuration

PlayTo(t, pc) == play' = [play EXCEPT ![t] = pc]
CloseTo(t, k, pc) == close' = [close EXCEPT ![t][k].pc = pc]
Return(t, k) == close' = [close EXCEPT ![t][k] = Idle]

(* Everything the process holds in memory is gone. *)
ProcessDies ==
    /\ up' = FALSE
    /\ feed' = FALSE
    /\ timer' = [t \in Turns |-> NoTimer]
    /\ close' = [t \in Turns |-> [k \in Callers |-> Idle]]
    /\ play' = [t \in Turns |->
                   IF play[t] \in {"checked", "locked", "opening", "aborting"}
                   THEN "lost" ELSE play[t]]

-----------------------------------------------------------------------------
(* play: POST game/play. *)

PlayCheck(t) ==
    /\ up /\ play[t] = "idle"
    /\ PlayTo(t, IF isUserLocked(UserOf[t]) THEN "refused" ELSE "checked")
    /\ UNCHANGED <<serverVars, timer, turnVars, userVars, moneyVars, bonusJobs, close, counters>>

PlayLock(t) ==
    LET u == UserOf[t] IN
    /\ up /\ play[t] = "checked"
    /\ CanChangeLocked(wallet[u], bet)
    /\ wallet' = [wallet EXCEPT ![u] = ChangeLocked(@, bet)]
    /\ userLock' = [userLock EXCEPT ![u] = UserLockTTL]
    /\ PlayTo(t, "locked")
    /\ UNCHANGED <<serverVars, timer, turnVars, streak, paid, points, bonusJobs, close, counters>>

PlayLockRefused(t) ==
    /\ up /\ play[t] = "checked"
    /\ Refused(CanChangeLocked(wallet[UserOf[t]], bet))
    /\ PlayTo(t, "refused")
    /\ UNCHANGED <<serverVars, timer, turnVars, userVars, moneyVars, bonusJobs, close, crashes>>

(* openTime is taken here, before the turn is stored. *)
PlayPrice(t) ==
    /\ up /\ play[t] = "locked"
    /\ \E p \in LastPrice : turn' = [turn EXCEPT ![t].openPrice = p]
    /\ PlayTo(t, "opening")
    /\ age' = [age EXCEPT ![t] = 0]
    /\ UNCHANGED <<serverVars, timer, userVars, moneyVars, bonusJobs, close, counters>>

(* Mutant: no timer is set. *)
addNoTimeout(t, timeout) == UNCHANGED timer
addTimeoutCloseTurn(t, timeout) == timer' = [timer EXCEPT ![t] = timeout]

PlayCreate(t) ==
    LET u == UserOf[t] IN
    /\ up /\ play[t] = "opening"
    /\ turn' = [turn EXCEPT ![t].state = "OPEN"]
    /\ addTimeoutCloseTurn(t, TurnDuration)
    /\ bonusJobs' = bonusJobs \cup {t}
    /\ points' = [points EXCEPT ![u] = @ + bet]
    /\ PlayTo(t, "done")
    /\ UNCHANGED <<serverVars, age, userVars, wallet, paid, close, counters>>

PlayFails(t) ==
    /\ up /\ play[t] \in {"locked", "opening"}
    /\ Fault
    /\ PlayTo(t, "aborting")
    /\ UNCHANGED <<serverVars, timer, turnVars, userVars, moneyVars, bonusJobs, close, crashes>>

(* The catch block: give the margin back, then drop the user lock. *)
PlayAbort(t) ==
    LET u == UserOf[t] IN
    /\ up /\ play[t] = "aborting"
    /\ wallet' = [wallet EXCEPT ![u] = ChangeLocked(@, -bet)]
    /\ userLock' = [userLock EXCEPT ![u] = 0]
    /\ PlayTo(t, "refused")
    /\ UNCHANGED <<serverVars, timer, turnVars, streak, paid, points, bonusJobs, close, counters>>

PlayAbortFails(t) ==
    /\ up /\ play[t] = "aborting"
    /\ Fault
    /\ PlayTo(t, "stuck")
    /\ UNCHANGED <<serverVars, timer, turnVars, userVars, moneyVars, bonusJobs, close, crashes>>

-----------------------------------------------------------------------------
(* closeTurn, run by the turn's timer (its promise is nobody's) or by a poll. *)

(* The callback may run in the very tick the timer is due.                  *)
Fire(t) ==
    /\ up /\ timer[t] = 0
    /\ timer' = [timer EXCEPT ![t] = NoTimer]
    /\ CloseTo(t, "timer", "find")
    /\ UNCHANGED <<serverVars, playVars, turnVars, userVars, moneyVars, counters>>

(* getTurn of game.controller.ts. *)
Poll(t, k) ==
    /\ up /\ k \in Pollers /\ close[t][k].pc = "idle"
    /\ turn[t].state = "OPEN" /\ isTurnExpired(t)
    /\ CloseTo(t, k, "find")
    /\ UNCHANGED <<serverVars, timer, playVars, turnVars, userVars, moneyVars, counters>>

Closable(t) == turn[t].state # "CLOSED" /\ isTurnExpired(t)

(* 'Turn is still in progress' is answered to the timer when it ran in the  *)
(* tick it was due and openTime is no longer ago: nothing tries again.      *)
TooEarly(t, k) == k = "timer" /\ turn[t].state # "CLOSED" /\ ~isTurnExpired(t)

Find(t, k) ==
    /\ up /\ close[t][k].pc = "find"
    /\ CloseTo(t, k, IF Closable(t) THEN "price" ELSE IF TooEarly(t, k) THEN "early" ELSE "idle")
    /\ UNCHANGED <<serverVars, timer, playVars, turnVars, userVars, moneyVars, counters>>

Price(t, k) ==
    /\ up /\ close[t][k].pc = "price"
    /\ \E p \in LastPrice :
          LET result == TurnResult(SideOf[t], turn[t].openPrice, p) IN
          close' = [close EXCEPT ![t][k] =
                      [pc |-> IF result = "WIN" THEN "streak" ELSE "commit",
                       result |-> result, winStreak |-> 0]]
    /\ UNCHANGED <<serverVars, timer, playVars, turnVars, userVars, moneyVars, counters>>

Streak(t, k) ==
    /\ up /\ close[t][k].pc = "streak"
    /\ close' = [close EXCEPT ![t][k] =
                   [@ EXCEPT !.pc = "commit", !.winStreak = NextStreak(streak[UserOf[t]])]]
    /\ UNCHANGED <<serverVars, timer, playVars, turnVars, userVars, moneyVars, counters>>

(* findOneAndUpdate matches a turn in any state but CLOSED. *)
(* Mutant: it matches the turn by its id alone. *)
ClaimableById(t) == TRUE
Claimable(t) == turn[t].state # "CLOSED"

Commit(t, k) ==
    LET run == close[t][k] IN
    /\ up /\ run.pc = "commit"
    /\ IF Claimable(t)
       THEN /\ turn' = [turn EXCEPT ![t] =
                          [@ EXCEPT !.state = "CLOSED", !.result = run.result,
                                    !.winStreak = run.winStreak,
                                    !.profit = Profit(run.result, run.winStreak)]]
            /\ CloseTo(t, k, "unlock")
       ELSE UNCHANGED turn /\ Return(t, k)
    /\ UNCHANGED <<serverVars, timer, playVars, age, userVars, moneyVars, counters>>

Unlock(t, k) ==
    LET u == UserOf[t] IN
    /\ up /\ close[t][k].pc = "unlock"
    /\ CanChangeLocked(wallet[u], -bet)
    /\ wallet' = [wallet EXCEPT ![u] = ChangeLocked(@, -bet)]
    /\ paid' = [paid EXCEPT ![t].unlocks = @ + 1]
    /\ CloseTo(t, k, "pay")
    /\ UNCHANGED <<serverVars, timer, playVars, turnVars, userVars, points, counters>>

(* Nothing was recorded in txns yet: the catch block only cancels the turn. *)
UnlockRefused(t, k) ==
    /\ up /\ close[t][k].pc = "unlock"
    /\ Refused(CanChangeLocked(wallet[UserOf[t]], -bet))
    /\ CloseTo(t, k, "cancel")
    /\ UNCHANGED <<serverVars, timer, playVars, turnVars, userVars, moneyVars, crashes>>

Receipt(record, profit) ==
    [unlocks |-> record.unlocks, pays |-> record.pays + 1, amount |-> profit]

Pay(t, k) ==
    LET u == UserOf[t]
        profit == Profit(close[t][k].result, close[t][k].winStreak)
    IN
    /\ up /\ close[t][k].pc = "pay"
    /\ CanChangeBalance(wallet[u], profit)
    /\ wallet' = [wallet EXCEPT ![u] = ChangeBalance(@, profit)]
    /\ paid' = [paid EXCEPT ![t] = Receipt(@, profit)]
    /\ CloseTo(t, k, "finish")
    /\ UNCHANGED <<serverVars, timer, playVars, turnVars, userVars, points, counters>>

PayRefused(t, k) ==
    LET run == close[t][k] IN
    /\ up /\ run.pc = "pay"
    /\ Refused(MustChangeBalance(wallet[UserOf[t]], Profit(run.result, run.winStreak)))
    /\ CloseTo(t, k, "undo")
    /\ UNCHANGED <<serverVars, timer, playVars, turnVars, userVars, moneyVars, crashes>>

(* rollbackWallet(txns): the margin is locked again. *)
Undo(t, k) ==
    LET u == UserOf[t] IN
    /\ up /\ close[t][k].pc = "undo"
    /\ wallet' = [wallet EXCEPT ![u] = ChangeLocked(@, bet)]
    /\ paid' = [paid EXCEPT ![t].unlocks = @ - 1]
    /\ CloseTo(t, k, "cancel")
    /\ UNCHANGED <<serverVars, timer, playVars, turnVars, userVars, points, counters>>

Cancel(t, k) ==
    /\ up /\ close[t][k].pc = "cancel"
    /\ turn' = [turn EXCEPT ![t].state = "CANCELED"]
    /\ Return(t, k)
    /\ UNCHANGED <<serverVars, timer, playVars, age, userVars, moneyVars, counters>>

(* What closeTurn does at the end without waiting for it: the streak and    *)
(* the user lock, whoever holds that by now.                                *)
WindUp(t, k) ==
    /\ streak' = [streak EXCEPT ![UserOf[t]] = close[t][k].winStreak]
    /\ userLock' = [userLock EXCEPT ![UserOf[t]] = 0]

Finish(t, k) ==
    LET profit == Profit(close[t][k].result, close[t][k].winStreak) IN
    /\ up /\ close[t][k].pc = "finish"
    /\ WindUp(t, k)
    /\ points' = [points EXCEPT ![UserOf[t]] = IF profit > 0 THEN @ + profit ELSE @]
    /\ Return(t, k)
    /\ UNCHANGED <<serverVars, timer, playVars, turnVars, wallet, paid, counters>>

(* An exception that leaves closeTurn: a poll answers with an error, but    *)
(* nothing catches the timer's, and node ends the process.                  *)
(* Mutant: a handler around all of closeTurn cancels the turn. *)
CaughtThrows(t, k) == CloseTo(t, k, "cancel") /\ UNCHANGED <<serverVars, timer, play>>
Throws(t, k) ==
    IF k = "timer" THEN ProcessDies ELSE Return(t, k) /\ UNCHANGED <<serverVars, timer, play>>

FinishFails(t, k) ==
    /\ up /\ close[t][k].pc = "finish" /\ close[t][k].result = "WIN"
    /\ Fault
    /\ WindUp(t, k)
    /\ Throws(t, k)
    /\ UNCHANGED <<turnVars, moneyVars, bonusJobs, crashes>>

CloseFails(t, k) ==
    /\ up /\ close[t][k].pc \in {"find", "price", "streak", "commit", "undo", "cancel"}
    /\ Fault
    /\ Throws(t, k)
    /\ UNCHANGED <<turnVars, userVars, moneyVars, bonusJobs, crashes>>

-----------------------------------------------------------------------------
(* The process and its surroundings. *)

FeedReady ==
    /\ up /\ ~feed
    /\ feed' = TRUE
    /\ UNCHANGED <<up, timer, playVars, turnVars, userVars, moneyVars, close, counters>>

Less(n, floor) == IF n > floor THEN n - 1 ELSE n

Tick ==
    /\ age' = [t \in Turns |->
                 IF (play[t] = "opening" \/ turn[t].state = "OPEN") /\ ~isTurnExpired(t)
                 THEN age[t] + 1 ELSE age[t]]
    /\ timer' = [t \in Turns |-> Less(timer[t], 0)]
    /\ userLock' = [u \in Users |-> Less(userLock[u], 0)]
    /\ <<age', timer', userLock'>> # <<age, timer, userLock>>
    /\ UNCHANGED <<serverVars, playVars, turn, streak, moneyVars, close, counters>>

Crash ==
    /\ up /\ crashes < MaxCrashes
    /\ crashes' = crashes + 1
    /\ ProcessDies
    /\ UNCHANGED <<turnVars, userVars, moneyVars, bonusJobs, faults>>

(* initTimeouts, with schedulesEnabled. *)
(* Mutant: only turns still running are looked after. *)
NeverOverdue(t) == FALSE
Overdue(t) == turn[t].state = "OPEN" /\ isTurnExpired(t)
Boot ==
    /\ ~up
    /\ up' = TRUE
    /\ timer' = [t \in Turns |-> IF turn[t].state = "OPEN" /\ ~isTurnExpired(t)
                                 THEN TurnDuration - age[t] ELSE NoTimer]
    /\ close' = [t \in Turns |-> [k \in Callers |->
                    IF k = "timer" /\ Overdue(t) THEN [Idle EXCEPT !.pc = "find"] ELSE Idle]]
    /\ UNCHANGED <<feed, playVars, turnVars, userVars, moneyVars, counters>>

-----------------------------------------------------------------------------
PlayStep(t) ==
    \/ PlayCheck(t) \/ PlayLock(t) \/ PlayLockRefused(t) \/ PlayPrice(t)
    \/ PlayCreate(t) \/ PlayFails(t) \/ PlayAbort(t) \/ PlayAbortFails(t)

CloseStep(t, k) ==
    \/ Find(t, k) \/ Price(t, k) \/ Streak(t, k) \/ Commit(t, k)
    \/ Unlock(t, k) \/ UnlockRefused(t, k) \/ Pay(t, k) \/ PayRefused(t, k)
    \/ Undo(t, k) \/ Cancel(t, k) \/ Finish(t, k) \/ FinishFails(t, k)
    \/ CloseFails(t, k)

Next ==
    \/ \E t \in Turns : PlayStep(t) \/ Fire(t)
    \/ \E t \in Turns, k \in Callers : Poll(t, k) \/ CloseStep(t, k)
    \/ FeedReady \/ Tick \/ Crash \/ Boot

Spec == Init /\ [][Next]_vars

(* Nobody has to play or poll.  Time passes, docker restarts the process,   *)
(* a due timer fires, and a run of closeTurn that has begun goes on.        *)
Fairness ==
    /\ WF_vars(Tick) /\ WF_vars(Boot)
    /\ \A t \in Turns : WF_vars(Fire(t))
    /\ \A t \in Turns, k \in Callers : WF_vars(CloseStep(t, k))

FairSpec == Spec /\ Fairness

-----------------------------------------------------------------------------
(* Properties. *)

(* However the timer, the polls, failed calls and restarts overlap, the     *)
(* margin of a turn is released at most once, its result is paid at most    *)
(* once, and never before the margin is released (closeTurn's               *)
(* findOneAndUpdate and its rollback).                                      *)
AtMostOnePayout ==
    \A t \in Turns : paid[t].unlocks \in 0..1 /\ paid[t].pays \in 0..paid[t].unlocks

(* What was paid for a turn is what the stored turn says, and the turn is   *)
(* CLOSED: no run of closeTurn pays one result and records another.         *)
PaidAsRecorded ==
    \A t \in Turns : paid[t].pays > 0 =>
        turn[t].state = "CLOSED" /\ paid[t].amount = turn[t].profit

(* Once paid, the stored turn never changes again: neither a late run of    *)
(* closeTurn nor the unconditional CANCELED of a failed one overwrites it.  *)
PaidIsFinal ==
    [][\A t \in Turns : paid[t].pays > 0 => turn'[t] = turn[t]]_vars

(* The margins of all turns a player has open are locked in his wallet,     *)
(* even with several turns open and others half closed, so that the loss    *)
(* of any of them can be taken.                                             *)
OpenTurnsOf(u) == {t \in Turns : UserOf[t] = u /\ turn[t].state = "OPEN"}
OpenTurnsBacked ==
    \A u \in Users : wallet[u].locked >= bet * Cardinality(OpenTurnsOf(u))

(* A win always pays, at every streak a player may come with and across the *)
(* wrap from the last rate of the table to the first: the zero rate of an   *)
(* empty streak is never a winner's.                                        *)
WinnerIsPaid ==
    \A t \in Turns : turn[t].result = "WIN" /\ turn[t].state = "CLOSED" =>
        turn[t].profit = bet * WIN_STREAK_RATES[turn[t].winStreak + 1] /\ turn[t].profit > 0

(* 'User is already playing' (game.service.ts:108): a player has one open   *)
(* turn at a time.  It does not hold.                                       *)
OneOpenTurn == \A u \in Users : Cardinality(OpenTurnsOf(u)) <= 1

(* The turn's timer, set when it was stored or by a boot, ran in the very   *)
(* tick it was due and was told 'Turn is still in progress'.                *)
RanEarly(t) == close[t]["timer"].pc = "early"

(* Every open turn is closed or cancelled in the end, over failed calls and *)
(* restarts, with nobody polling: the boot closes what came due while the   *)
(* process was down.  Only the turn of a timer that was told 'still in      *)
(* progress' stays open, and only for as long as that process lives.        *)
EveryTurnCloses ==
    \A t \in Turns :
        turn[t].state = "OPEN" ~> (turn[t].state # "OPEN" \/ [] RanEarly(t))

(* Every open turn is paid in the end if no call fails, the process does    *)
(* not crash and its timer does not run in the very tick it is due.         *)
EveryTurnPaid ==
    \A t \in Turns :
        turn[t].state = "OPEN" ~>
            (paid[t].pays = 1 \/ RanEarly(t) \/ faults > 0 \/ crashes > 0)

(* The game implements the promise of BetLedger: a turn is settled by the   *)
(* payment of its profit.                                                   *)
Stage == [t \in Turns |-> IF paid[t].pays > 0 THEN "settled"
                          ELSE IF turn[t].state # "NONE" THEN "open" ELSE "none"]
Balances == [u \in Users |-> wallet[u].balance]
Profits == {-loss} \cup {bet * WinStreakRate(n) : n \in 1..MAX_WIN_STREAK}
Ledger == INSTANCE BetLedger WITH
    Bets <- Turns, Owner <- UserOf, Profits <- Profits,
    Start <- [u \in Users |-> InitBalance], stage <- Stage, balance <- Balances
LedgerSpec == Ledger!LedgerSpec
=============================================================================

--------------------------- MODULE GameTurnProofs ---------------------------
(***************************************************************************)
(* Theorems about GameTurn, for every set of users, turns and polls, every *)
(* duration and any number of failed calls and crashes.                    *)
(***************************************************************************)
EXTENDS GameTurn, TLAPS

(* The table of rates holds integers at every streak a turn can record. *)
LEMMA MaxStreak == MAX_WIN_STREAK = 10
BY DEF MAX_WIN_STREAK, WIN_STREAK_RATES

LEMMA RateIsPositive ==
    ASSUME NEW n \in 1..MAX_WIN_STREAK
    PROVE  WinStreakRate(n) \in Nat \ {0}
<1>1. n \in 1..10
  BY MaxStreak
<1>2. WinStreakRate(n) = WIN_STREAK_RATES[n + 1]
  BY <1>1, MaxStreak DEF WinStreakRate
<1> QED
  BY <1>1, <1>2 DEF WIN_STREAK_RATES

LEMMA RateIsInt ==
    ASSUME NEW n \in 0..MAX_WIN_STREAK
    PROVE  WinStreakRate(n) \in Int
<1>1. CASE n = 0
  BY <1>1, MaxStreak DEF WinStreakRate, WIN_STREAK_RATES
<1>2. CASE n # 0
  BY <1>2, RateIsPositive, MaxStreak
<1> QED
  BY <1>1, <1>2

LEMMA ProfitIsInt ==
    ASSUME NEW result, NEW n \in 0..MAX_WIN_STREAK
    PROVE  Profit(result, n) \in Int
BY RateIsInt DEF Profit, bet, loss

LEMMA NextStreakInRange ==
    ASSUME NEW n \in 0..MAX_WIN_STREAK
    PROVE  NextStreak(n) \in 1..MAX_WIN_STREAK
BY MaxStreak DEF NextStreak

-----------------------------------------------------------------------------
(* Type correctness. *)

LEMMA IdleTyped == Idle \in CloseRun
BY MaxStreak DEF Idle, CloseRun, ClosePCs

LEMMA TTLTyped == UserLockTTL \in Nat
BY TimeAssumption DEF UserLockTTL

LEMMA NoTurnTyped == NoTurn \in TurnDoc
BY MaxStreak DEF NoTurn, TurnDoc

LEMMA InitTyped == Init => TypeOK
<1> SUFFICES ASSUME Init PROVE TypeOK
  OBVIOUS
<1>1. ServerOK
  BY DEF Init, ServerOK
<1>2. TimerOK
  BY TimeAssumption DEF Init, TimerOK, NoTimer
<1>3. PlayOK
  BY DEF Init, PlayOK, PlayPCs
<1>4. TurnOK
  BY NoTurnTyped, TimeAssumption DEF Init, TurnOK
<1>5. UserOK
  <2>1. userLock \in [Users -> 0..UserLockTTL]
    BY TTLTyped DEF Init
  <2>2. streak \in [Users -> 0..MAX_WIN_STREAK]
    BY StreaksAssumption DEF Init
  <2> QED
    BY <2>1, <2>2 DEF UserOK
<1>6. MoneyOK
  BY FundsAssumption DEF Init, MoneyOK, Account, Payout
<1>7. CloseOK
  BY IdleTyped DEF Init, CloseOK
<1>8. CountersOK
  BY BoundsAssumption DEF Init, CountersOK
<1> QED
  BY <1>1, <1>2, <1>3, <1>4, <1>5, <1>6, <1>7, <1>8 DEF TypeOK

(* What an action leaves alone stays typed. *)
LEMMA FrameTyped ==
    ASSUME TypeOK
    PROVE  /\ UNCHANGED serverVars => ServerOK'
           /\ UNCHANGED timer => TimerOK'
           /\ UNCHANGED playVars => PlayOK'
           /\ UNCHANGED turnVars => TurnOK'
           /\ UNCHANGED userVars => UserOK'
           /\ UNCHANGED moneyVars => MoneyOK'
           /\ UNCHANGED close => CloseOK'
           /\ UNCHANGED counters => CountersOK'
BY DEF TypeOK, ServerOK, TimerOK, PlayOK, TurnOK, UserOK, MoneyOK, CloseOK, CountersOK,
       serverVars, playVars, turnVars, userVars, moneyVars, counters

(* The moves of a request and of a run of closeTurn are typed. *)
LEMMA PlayToTyped ==
    ASSUME TypeOK, NEW t \in Turns, NEW pc \in PlayPCs, PlayTo(t, pc)
    PROVE  play' \in [Turns -> PlayPCs]
BY DEF TypeOK, PlayOK, PlayTo

LEMMA CloseToTyped ==
    ASSUME TypeOK, NEW t \in Turns, NEW k \in Callers, NEW pc \in ClosePCs, CloseTo(t, k, pc)
    PROVE  CloseOK'
<1>1. /\ close \in [Turns -> [Callers -> CloseRun]]
      /\ close' = [close EXCEPT ![t] = [close[t] EXCEPT ![k] = [close[t][k] EXCEPT !.pc = pc]]]
  BY DEF TypeOK, CloseOK, CloseTo
<1>2. close[t] \in [Callers -> CloseRun] /\ close[t][k] \in CloseRun
  BY <1>1
<1>3. [close[t][k] EXCEPT !.pc = pc] \in CloseRun
  BY <1>2 DEF CloseRun
<1>4. [close[t] EXCEPT ![k] = [close[t][k] EXCEPT !.pc = pc]] \in [Callers -> CloseRun]
  BY <1>2, <1>3
<1> QED
  BY <1>1, <1>4 DEF CloseOK

LEMMA ReturnTyped ==
    ASSUME TypeOK, NEW t \in Turns, NEW k \in Callers, Return(t, k)
    PROVE  CloseOK'
BY IdleTyped DEF TypeOK, CloseOK, Return

LEMMA FaultTyped ==
    ASSUME TypeOK, Fault, UNCHANGED crashes
    PROVE  CountersOK'
BY BoundsAssumption DEF TypeOK, CountersOK, Fault

LEMMA RefusedTyped ==
    ASSUME TypeOK, NEW ok, Refused(ok), UNCHANGED crashes
    PROVE  CountersOK'
BY FaultTyped DEF TypeOK, CountersOK, Refused

LEMMA LockedTyped ==
    ASSUME TypeOK, NEW u \in Users, NEW n \in Int,
           wallet' = [wallet EXCEPT ![u] = ChangeLocked(@, n)]
    PROVE  wallet' \in [Users -> Account]
BY DEF TypeOK, MoneyOK, ChangeLocked, Account

LEMMA PaidTyped ==
    ASSUME TypeOK, NEW u \in Users, NEW n \in Int,
           wallet' = [wallet EXCEPT ![u] = ChangeBalance(@, n)]
    PROVE  wallet' \in [Users -> Account]
BY DEF TypeOK, MoneyOK, ChangeBalance, Account

LEMMA ReceiptTyped ==
    ASSUME NEW record \in Payout, NEW profit \in Int
    PROVE  Receipt(record, profit) \in Payout
BY DEF Receipt, Payout

LEMMA ProcessDiesTyped ==
    ASSUME TypeOK, ProcessDies, UNCHANGED bonusJobs
    PROVE  ServerOK' /\ TimerOK' /\ PlayOK' /\ CloseOK'
<1>1. ServerOK'
  BY DEF ServerOK, ProcessDies
<1>2. TimerOK'
  BY TimeAssumption DEF TimerOK, ProcessDies, NoTimer
<1>3. PlayOK'
  BY DEF TypeOK, PlayOK, ProcessDies, PlayPCs
<1>4. CloseOK'
  BY IdleTyped DEF CloseOK, ProcessDies
<1> QED
  BY <1>1, <1>2, <1>3, <1>4

(* An exception either ends the process or only this run. *)
LEMMA ThrowsTyped ==
    ASSUME TypeOK, NEW t \in Turns, NEW k \in Callers, Throws(t, k), UNCHANGED bonusJobs
    PROVE  ServerOK' /\ TimerOK' /\ PlayOK' /\ CloseOK'
<1>1. CASE k = "timer"
  BY <1>1, ProcessDiesTyped DEF Throws
<1>2. CASE k # "timer"
  BY <1>2, FrameTyped, ReturnTyped DEF Throws, playVars
<1> QED
  BY <1>1, <1>2

-----------------------------------------------------------------------------
(* Each action keeps the types. *)

LEMMA PlayTyped ==
    ASSUME TypeOK, NEW t \in Turns, PlayStep(t)
    PROVE  TypeOK'
<1> DEFINE u == UserOf[t]
<1>u. u \in Users /\ bet \in Int /\ -bet \in Int
  BY TurnsAssumption DEF bet
<1> USE FrameTyped DEF PlayPCs, TypeOK, turnVars, playVars, userVars, moneyVars
<1>1. CASE PlayCheck(t)
  <2>1. PlayOK'
    BY <1>1, PlayToTyped DEF PlayCheck, PlayOK
  <2> QED
    BY <1>1, <2>1 DEF PlayCheck
<1>2. CASE PlayLock(t)
  <2>1. PlayOK'
    BY <1>2, PlayToTyped DEF PlayLock, PlayOK
  <2>2. UserOK'
    BY <1>2, TTLTyped DEF PlayLock, UserOK
  <2>3. wallet' \in [Users -> Account]
    BY <1>2, <1>u, LockedTyped DEF PlayLock
  <2>4. MoneyOK'
    BY <1>2, <2>3 DEF PlayLock, MoneyOK
  <2> QED
    BY <1>2, <2>1, <2>2, <2>4 DEF PlayLock
<1>3. CASE PlayLockRefused(t)
  <2>1. PlayOK'
    BY <1>3, PlayToTyped DEF PlayLockRefused, PlayOK
  <2>2. CountersOK'
    BY <1>3, RefusedTyped DEF PlayLockRefused
  <2> QED
    BY <1>3, <2>1, <2>2 DEF PlayLockRefused
<1>4. CASE PlayPrice(t)
  <2>1. PICK p \in LastPrice : turn' = [turn EXCEPT ![t].openPrice = p]
    BY <1>4 DEF PlayPrice
  <2>2. PlayOK'
    BY <1>4, PlayToTyped DEF PlayPrice, PlayOK
  <2>3. p \in Prices \cup {StartPrice}
    BY DEF LastPrice
  <2>4. TurnOK'
    BY <1>4, <2>1, <2>3, TimeAssumption DEF PlayPrice, TurnOK, TurnDoc
  <2> QED
    BY <1>4, <2>2, <2>4 DEF PlayPrice
<1>5. CASE PlayCreate(t)
  <2>1. PlayOK'
    BY <1>5, PlayToTyped DEF PlayCreate, PlayOK
  <2>2. TurnOK'
    BY <1>5 DEF PlayCreate, TurnOK, TurnDoc
  <2>3. TimerOK'
    BY <1>5, TimeAssumption DEF PlayCreate, addTimeoutCloseTurn, TimerOK
  <2>4. MoneyOK'
    BY <1>5 DEF PlayCreate, MoneyOK, bet
  <2> QED
    BY <1>5, <2>1, <2>2, <2>3, <2>4 DEF PlayCreate
<1>6. CASE PlayFails(t)
  <2>1. PlayOK'
    BY <1>6, PlayToTyped DEF PlayFails, PlayOK
  <2> QED
    BY <1>6, <2>1, FaultTyped DEF PlayFails
<1>7. CASE PlayAbort(t)
  <2>1. PlayOK'
    BY <1>7, PlayToTyped DEF PlayAbort, PlayOK
  <2>2. UserOK'
    BY <1>7, TTLTyped DEF PlayAbort, UserOK
  <2>3. wallet' \in [Users -> Account]
    BY <1>7, <1>u, LockedTyped DEF PlayAbort
  <2>4. MoneyOK'
    BY <1>7, <2>3 DEF PlayAbort, MoneyOK
  <2> QED
    BY <1>7, <2>1, <2>2, <2>4 DEF PlayAbort
<1>8. CASE PlayAbortFails(t)
  <2>1. PlayOK'
    BY <1>8, PlayToTyped DEF PlayAbortFails, PlayOK
  <2> QED
    BY <1>8, <2>1, FaultTyped DEF PlayAbortFails
<1> QED
  BY <1>1, <1>2, <1>3, <1>4, <1>5, <1>6, <1>7, <1>8 DEF PlayStep

LEMMA CloseTyped ==
    ASSUME TypeOK, NEW t \in Turns, NEW k \in Callers, CloseStep(t, k)
    PROVE  TypeOK'
<1> DEFINE run == close[t][k]
           profit == Profit(run.result, run.winStreak)
<1>u. UserOf[t] \in Users /\ bet \in Int /\ -bet \in Int
  BY TurnsAssumption DEF bet
<1>r. run \in CloseRun /\ profit \in Int
  BY ProfitIsInt DEF TypeOK, CloseOK, CloseRun
<1> HIDE DEF profit
<1> USE FrameTyped DEF ClosePCs, TypeOK, turnVars, playVars, userVars, moneyVars
<1>1. CASE Find(t, k)
  BY <1>1, CloseToTyped DEF Find
<1>2. CASE Price(t, k)
  <2>1. PICK p \in LastPrice :
           LET result == TurnResult(SideOf[t], turn[t].openPrice, p) IN
           close' = [close EXCEPT ![t][k] =
                       [pc |-> IF result = "WIN" THEN "streak" ELSE "commit",
                        result |-> result, winStreak |-> 0]]
    BY <1>2 DEF Price
  <2> DEFINE result == TurnResult(SideOf[t], turn[t].openPrice, p)
  <2>2. result \in {"WIN", "MISS"}
    BY DEF TurnResult
  <2> HIDE DEF result
  <2>3. [pc |-> IF result = "WIN" THEN "streak" ELSE "commit",
         result |-> result, winStreak |-> 0] \in CloseRun
    BY <2>2, MaxStreak DEF CloseRun
  <2>4. CloseOK'
    BY <2>1, <2>3 DEF CloseOK, result
  <2> QED
    BY <1>2, <2>4 DEF Price
<1>3. CASE Streak(t, k)
  <2>1. NextStreak(streak[UserOf[t]]) \in 0..MAX_WIN_STREAK
    BY <1>u, NextStreakInRange, MaxStreak DEF UserOK
  <2>2. [run EXCEPT !.pc = "commit", !.winStreak = NextStreak(streak[UserOf[t]])] \in CloseRun
    BY <1>r, <2>1 DEF CloseRun
  <2>3. CloseOK'
    BY <1>3, <2>2 DEF Streak, CloseOK
  <2> QED
    BY <1>3, <2>3 DEF Streak
<1>4. CASE Commit(t, k)
  <2>1. CASE Claimable(t)
    <3>1. [turn[t] EXCEPT !.state = "CLOSED", !.result = run.result,
                          !.winStreak = run.winStreak, !.profit = profit] \in TurnDoc
      BY <1>r DEF TurnOK, TurnDoc, CloseRun
    <3>2. TurnOK'
      BY <1>4, <2>1, <3>1 DEF Commit, TurnOK, profit
    <3> QED
      BY <1>4, <2>1, <3>2, CloseToTyped DEF Commit
  <2>2. CASE ~Claimable(t)
    BY <1>4, <2>2, ReturnTyped DEF Commit
  <2> QED
    BY <2>1, <2>2
<1>5. CASE Unlock(t, k)
  <2>1. wallet' \in [Users -> Account]
    BY <1>5, <1>u, LockedTyped DEF Unlock
  <2>2. MoneyOK'
    BY <1>5, <2>1 DEF Unlock, MoneyOK, Payout
  <2> QED
    BY <1>5, <2>2, CloseToTyped DEF Unlock
<1>6. CASE UnlockRefused(t, k)
  BY <1>6, CloseToTyped, RefusedTyped DEF UnlockRefused
<1>7. CASE Pay(t, k)
  <2>1. wallet' \in [Users -> Account]
    BY <1>7, <1>u, <1>r, PaidTyped DEF Pay, profit
  <2>2. paid' \in [Turns -> Payout]
    BY <1>7, <1>r, ReceiptTyped DEF Pay, MoneyOK, profit
  <2>3. MoneyOK'
    BY <1>7, <2>1, <2>2 DEF Pay, MoneyOK
  <2> QED
    BY <1>7, <2>3, CloseToTyped DEF Pay
<1>8. CASE PayRefused(t, k)
  BY <1>8, CloseToTyped, RefusedTyped DEF PayRefused
<1>9. CASE Undo(t, k)
  <2>1. wallet' \in [Users -> Account]
    BY <1>9, <1>u, LockedTyped DEF Undo
  <2>2. MoneyOK'
    BY <1>9, <2>1 DEF Undo, MoneyOK, Payout
  <2> QED
    BY <1>9, <2>2, CloseToTyped DEF Undo
<1>10. CASE Cancel(t, k)
  <2>1. TurnOK'
    BY <1>10 DEF Cancel, TurnOK, TurnDoc
  <2> QED
    BY <1>10, <2>1, ReturnTyped DEF Cancel
<1>w. WindUp(t, k) => UserOK'
  BY <1>r, TTLTyped DEF WindUp, UserOK, CloseRun
<1>11. CASE Finish(t, k)
  <2>1. MoneyOK'
    BY <1>11, <1>u, <1>r DEF Finish, MoneyOK, profit
  <2> QED
    BY <1>11, <1>w, <2>1, ReturnTyped DEF Finish
<1>12. CASE FinishFails(t, k)
  BY <1>12, <1>w, FaultTyped, ThrowsTyped DEF FinishFails
<1>13. CASE CloseFails(t, k)
  BY <1>13, FaultTyped, ThrowsTyped DEF CloseFails
<1> QED
  BY <1>1, <1>2, <1>3, <1>4, <1>5, <1>6, <1>7, <1>8, <1>9, <1>10, <1>11, <1>12, <1>13
     DEF CloseStep

LEMMA NextTyped == TypeOK /\ [Next]_vars => TypeOK'
<1> SUFFICES ASSUME TypeOK, [Next]_vars PROVE TypeOK'
  OBVIOUS
<1> USE FrameTyped DEF TypeOK, turnVars, playVars, userVars
<1>1. ASSUME NEW t \in Turns, PlayStep(t) PROVE TypeOK'
  BY <1>1, PlayTyped
<1>2. ASSUME NEW t \in Turns, Fire(t) PROVE TypeOK'
  <2>1. TimerOK'
    BY <1>2, TimeAssumption DEF Fire, TimerOK, NoTimer
  <2>2. CloseOK'
    BY <1>2, CloseToTyped DEF Fire, Callers, ClosePCs
  <2> QED
    BY <1>2, <2>1, <2>2 DEF Fire
<1>3. ASSUME NEW t \in Turns, NEW k \in Callers, Poll(t, k) PROVE TypeOK'
  <2>1. CloseOK'
    BY <1>3, CloseToTyped DEF Poll, ClosePCs
  <2> QED
    BY <1>3, <2>1 DEF Poll
<1>4. ASSUME NEW t \in Turns, NEW k \in Callers, CloseStep(t, k) PROVE TypeOK'
  BY <1>4, CloseTyped
<1>5. CASE FeedReady
  <2>1. ServerOK'
    BY <1>5 DEF FeedReady, ServerOK
  <2> QED
    BY <1>5, <2>1 DEF FeedReady
<1>6. CASE Tick
  <2>1. TimerOK'
    BY <1>6, TimeAssumption DEF Tick, TimerOK, Less
  <2>2. TurnOK'
    BY <1>6, TimeAssumption DEF Tick, TurnOK, isTurnExpired
  <2>3. UserOK'
    BY <1>6, TTLTyped DEF Tick, UserOK, Less
  <2> QED
    BY <1>6, <2>1, <2>2, <2>3 DEF Tick
<1>7. CASE Crash
  <2>1. CountersOK'
    BY <1>7, BoundsAssumption DEF Crash, CountersOK
  <2> QED
    BY <1>7, <2>1, ProcessDiesTyped DEF Crash
<1>8. CASE Boot
  <2>1. ServerOK'
    BY <1>8 DEF Boot, ServerOK
  <2>2. TimerOK'
    BY <1>8, TimeAssumption DEF Boot, TimerOK, TurnOK, isTurnExpired, NoTimer
  <2>3. [Idle EXCEPT !.pc = "find"] \in CloseRun
    BY IdleTyped DEF CloseRun, ClosePCs
  <2>4. CloseOK'
    BY <1>8, <2>3, IdleTyped DEF Boot, CloseOK
  <2> QED
    BY <1>8, <2>1, <2>2, <2>4 DEF Boot
<1>9. CASE UNCHANGED vars
  BY <1>9 DEF vars, serverVars, moneyVars, counters
<1> QED
  BY <1>1, <1>2, <1>3, <1>4, <1>5, <1>6, <1>7, <1>8, <1>9 DEF Next

(* Every reachable state is well typed, whatever the constants.             *)
THEOREM TypeCorrect == Spec => []TypeOK
BY InitTyped, NextTyped, PTL DEF Spec

-----------------------------------------------------------------------------
(* The inductive invariant behind the payouts.  The run of closeTurn that   *)
(* closed a turn owns it until it returns: it is the only one, it found     *)
(* nothing paid, and how far it got says exactly what has been paid.        *)

Owning == {"unlock", "pay", "undo", "cancel", "finish"}
Owns(t, k) == close[t][k].pc \in Owning

OwnedIsClosed(t) ==
    \A k \in Callers : Owns(t, k) =>
        /\ turn[t].state = "CLOSED"
        /\ turn[t].profit = Profit(close[t][k].result, close[t][k].winStreak)

OneOwner(t) == \A j, k \in Callers : Owns(t, j) /\ Owns(t, k) => j = k

PaidSoFar(t) ==
    \A k \in Callers :
        /\ close[t][k].pc \in {"unlock", "cancel"} => paid[t].unlocks = 0 /\ paid[t].pays = 0
        /\ close[t][k].pc \in {"pay", "undo"} => paid[t].unlocks = 1 /\ paid[t].pays = 0
        /\ close[t][k].pc = "finish" => paid[t].unlocks = 1 /\ paid[t].pays = 1

OpenIsUnpaid(t) == turn[t].state # "CLOSED" => paid[t].unlocks = 0 /\ paid[t].pays = 0

PaidOnce(t) ==
    /\ paid[t].unlocks \in 0..1
    /\ paid[t].pays \in 0..paid[t].unlocks
    /\ paid[t].pays > 0 => turn[t].state = "CLOSED" /\ paid[t].amount = turn[t].profit

StoredFirst(t) ==
    /\ play[t] \in {"idle", "checked", "locked", "opening"} => turn[t].state = "NONE"
    /\ turn[t].state = "NONE" => timer[t] = NoTimer /\ \A k \in Callers : close[t][k].pc = "idle"

StreakCounted(t) ==
    \A k \in Callers : close[t][k].pc \in Owning \cup {"commit"} /\ close[t][k].result = "WIN" =>
        close[t][k].winStreak \in 1..MAX_WIN_STREAK

TurnInv(t) ==
    /\ OwnedIsClosed(t) /\ OneOwner(t) /\ PaidSoFar(t) /\ OpenIsUnpaid(t)
    /\ PaidOnce(t) /\ StoredFirst(t) /\ StreakCounted(t)

PayoutInv == \A t \in Turns : TurnInv(t)

LEMMA InitPayout == Init => PayoutInv
BY DEF Init, PayoutInv, TurnInv, OwnedIsClosed, OneOwner, PaidSoFar, OpenIsUnpaid, PaidOnce,
       StoredFirst, StreakCounted, Owns, Owning, NoTurn, Idle

(* A step that touches nothing of a turn keeps what holds of it. *)
LEMMA Untouched ==
    ASSUME NEW t \in Turns, TurnInv(t), turn'[t] = turn[t], paid'[t] = paid[t],
           close'[t] = close[t], play'[t] = play[t], timer'[t] = timer[t]
    PROVE  TurnInv(t)'
BY DEF TurnInv, OwnedIsClosed, OneOwner, PaidSoFar, OpenIsUnpaid, PaidOnce,
       StoredFirst, StreakCounted, Owns

(* When the process dies nobody owns a turn any more. *)
LEMMA DeathKeepsPayout ==
    ASSUME TypeOK, PayoutInv, ProcessDies, UNCHANGED <<turn, paid>>
    PROVE  PayoutInv'
<1> SUFFICES ASSUME NEW t \in Turns PROVE TurnInv(t)'
  BY DEF PayoutInv
<1>1. TurnInv(t)
  BY DEF PayoutInv
<1>2. \A k \in Callers : close'[t][k].pc = "idle"
  BY DEF ProcessDies, Idle
<1>3. timer'[t] = NoTimer
  BY DEF ProcessDies
<1>4. play'[t] \in {play[t], "lost"}
  BY DEF ProcessDies
<1>5. OwnedIsClosed(t)' /\ OneOwner(t)' /\ PaidSoFar(t)' /\ StreakCounted(t)'
  BY <1>2 DEF OwnedIsClosed, OneOwner, PaidSoFar, StreakCounted, Owns, Owning
<1>6. OpenIsUnpaid(t)' /\ PaidOnce(t)'
  BY <1>1 DEF TurnInv, OpenIsUnpaid, PaidOnce
<1>7. StoredFirst(t)'
  BY <1>1, <1>2, <1>3, <1>4 DEF TurnInv, StoredFirst
<1> QED
  BY <1>5, <1>6, <1>7 DEF TurnInv

LEMMA PlayKeepsPayout ==
    ASSUME TypeOK, PayoutInv, NEW t \in Turns, PlayStep(t)
    PROVE  PayoutInv'
<1> SUFFICES ASSUME NEW s \in Turns PROVE TurnInv(s)'
  BY DEF PayoutInv
<1>0. TurnInv(s) /\ TurnInv(t)
  BY DEF PayoutInv
<1> USE DEF moneyVars, turnVars, PlayTo
<1>t. turn \in [Turns -> TurnDoc] /\ play \in [Turns -> PlayPCs] /\ timer \in [Turns -> -1..TurnDuration]
  BY DEF TypeOK, TurnOK, PlayOK, TimerOK
<1>1. CASE s # t
  <2>1. /\ turn'[s] = turn[s] /\ paid'[s] = paid[s] /\ close'[s] = close[s]
        /\ play'[s] = play[s] /\ timer'[s] = timer[s]
    BY <1>1, <1>t DEF PlayStep, PlayCheck, PlayLock, PlayLockRefused, PlayPrice, PlayCreate,
                      PlayFails, PlayAbort, PlayAbortFails, addTimeoutCloseTurn
  <2> QED
    BY <1>0, <2>1, Untouched
<1>2. CASE s = t
  <2>1. paid' = paid /\ close' = close
    BY DEF PlayStep, PlayCheck, PlayLock, PlayLockRefused, PlayPrice, PlayCreate,
           PlayFails, PlayAbort, PlayAbortFails
  (* A step that stores nothing moves only the request. *)
  <2>2. ASSUME turn'[t].state = turn[t].state, turn'[t].profit = turn[t].profit,
               timer' = timer,
               play'[t] \in {"idle", "checked", "locked", "opening"} =>
                   play[t] \in {"idle", "checked", "locked", "opening"}
        PROVE  TurnInv(t)'
    BY <1>0, <2>1, <2>2 DEF TurnInv, OwnedIsClosed, OneOwner, PaidSoFar, OpenIsUnpaid, PaidOnce,
                            StoredFirst, StreakCounted, Owns
  <2>3. CASE PlayPrice(t)
    <3>1. turn'[t].state = turn[t].state /\ turn'[t].profit = turn[t].profit
      BY <1>t, <2>3 DEF PlayPrice, TurnDoc
    <3>2. timer' = timer /\ play[t] = "locked"
      BY <2>3 DEF PlayPrice
    <3> QED
      BY <1>2, <2>2, <3>1, <3>2
  <2>4. CASE PlayCreate(t)
    <3>1. turn[t].state = "NONE" /\ \A k \in Callers : close[t][k].pc = "idle"
      BY <1>0, <2>4 DEF PlayCreate, TurnInv, StoredFirst
    <3>2. turn'[t].state = "OPEN" /\ play'[t] = "done"
      BY <1>t, <2>4 DEF PlayCreate, TurnDoc
    <3>3. paid[t].unlocks = 0 /\ paid[t].pays = 0
      BY <1>0, <3>1 DEF TurnInv, OpenIsUnpaid
    <3> QED
      BY <1>2, <2>1, <3>1, <3>2, <3>3
         DEF TurnInv, OwnedIsClosed, OneOwner, PaidSoFar, OpenIsUnpaid, PaidOnce,
             StoredFirst, StreakCounted, Owns, Owning
  <2>5. CASE ~PlayPrice(t) /\ ~PlayCreate(t)
    <3>1. turn' = turn /\ timer' = timer
      BY <2>5 DEF PlayStep, PlayCheck, PlayLock, PlayLockRefused,
                  PlayFails, PlayAbort, PlayAbortFails
    <3>2. play'[t] \in {"idle", "checked", "locked", "opening"} =>
              play[t] \in {"idle", "checked", "locked", "opening"}
      BY <1>t, <2>5 DEF PlayStep, PlayCheck, PlayLock, PlayLockRefused,
                        PlayFails, PlayAbort, PlayAbortFails
    <3> QED
      BY <1>2, <2>2, <3>1, <3>2
  <2> QED
    BY <1>2, <2>3, <2>4, <2>5
<1> QED
  BY <1>1, <1>2

(* One run of closeTurn takes a step: the others are where they were. *)
OthersStay(t, k) == \A j \in Callers \ {k} : close'[t][j] = close[t][j]

LEMMA CloseMoves ==
    ASSUME TypeOK, NEW t \in Turns, NEW k \in Callers, NEW pc,
           \/ CloseTo(t, k, pc) /\ pc \in ClosePCs
           \/ Return(t, k) /\ pc = "idle"
    PROVE  /\ OthersStay(t, k)
           /\ close'[t][k].pc = pc
           /\ CloseTo(t, k, pc) =>
                /\ close'[t][k].result = close[t][k].result
                /\ close'[t][k].winStreak = close[t][k].winStreak
           /\ \A s \in Turns \ {t} : close'[s] = close[s]
<1>1. close \in [Turns -> [Callers -> CloseRun]] /\ close[t] \in [Callers -> CloseRun]
  BY DEF TypeOK, CloseOK
<1>2. CASE CloseTo(t, k, pc)
  BY <1>1, <1>2 DEF CloseTo, CloseRun, OthersStay
<1>3. CASE Return(t, k) /\ pc = "idle" /\ ~CloseTo(t, k, pc)
  BY <1>1, <1>3 DEF Return, Idle, OthersStay
<1> QED
  BY <1>2, <1>3

(* A run that does not own the turn, or lets go of it, changes nothing that *)
(* matters to the others.                                                   *)
LEMMA FreeStep ==
    ASSUME NEW t \in Turns, NEW k \in Callers, TurnInv(t), OthersStay(t, k),
           turn'[t] = turn[t], paid'[t] = paid[t], play'[t] = play[t], timer'[t] = timer[t],
           close[t][k].pc # "idle",
           close'[t][k].pc \in {"idle", "early", "price", "streak", "commit"},
           close'[t][k].pc = "commit" /\ close'[t][k].result = "WIN"
               => close'[t][k].winStreak \in 1..MAX_WIN_STREAK
    PROVE  TurnInv(t)'
<1>1. turn[t].state # "NONE"
  BY DEF TurnInv, StoredFirst
<1>2. \A j \in Callers : Owns(t, j)' => j # k /\ Owns(t, j) /\ close'[t][j] = close[t][j]
  BY DEF OthersStay, Owns, Owning
<1>3. OwnedIsClosed(t)' /\ OneOwner(t)'
  BY <1>2 DEF TurnInv, OwnedIsClosed, OneOwner
<1>4. PaidSoFar(t)' /\ StreakCounted(t)'
  BY DEF TurnInv, PaidSoFar, StreakCounted, OthersStay, Owning
<1>5. OpenIsUnpaid(t)' /\ PaidOnce(t)' /\ StoredFirst(t)'
  BY <1>1 DEF TurnInv, OpenIsUnpaid, PaidOnce, StoredFirst
<1> QED
  BY <1>3, <1>4, <1>5 DEF TurnInv

(* The owner goes on, and what is paid follows. *)
LEMMA OwnerStep ==
    ASSUME NEW t \in Turns, NEW k \in Callers, TurnInv(t), OthersStay(t, k), Owns(t, k),
           turn'[t] = turn[t], play'[t] = play[t], timer'[t] = timer[t],
           close'[t][k].pc \in Owning,
           close'[t][k].result = close[t][k].result,
           close'[t][k].winStreak = close[t][k].winStreak,
           close'[t][k].pc \in {"unlock", "cancel"} => paid'[t].unlocks = 0 /\ paid'[t].pays = 0,
           close'[t][k].pc \in {"pay", "undo"} => paid'[t].unlocks = 1 /\ paid'[t].pays = 0,
           close'[t][k].pc = "finish" => paid'[t].unlocks = 1 /\ paid'[t].pays = 1,
           paid'[t].pays > 0 => paid'[t].amount = turn[t].profit
    PROVE  TurnInv(t)'
<1>1. turn[t].state = "CLOSED" /\ \A j \in Callers : Owns(t, j) => j = k
  BY DEF TurnInv, OwnedIsClosed, OneOwner
<1>2. \A j \in Callers : Owns(t, j)' => j = k
  BY <1>1 DEF OthersStay, Owns
<1>3. OwnedIsClosed(t)' /\ OneOwner(t)'
  BY <1>1, <1>2 DEF TurnInv, OwnedIsClosed, OneOwner
<1>4. PaidSoFar(t)'
  BY <1>2 DEF PaidSoFar, Owns, Owning
<1>5. StreakCounted(t)'
  BY DEF TurnInv, StreakCounted, OthersStay, Owns
<1>6. OpenIsUnpaid(t)' /\ StoredFirst(t)'
  BY <1>1 DEF TurnInv, OpenIsUnpaid, StoredFirst
<1>7. PaidOnce(t)'
  BY <1>1 DEF PaidOnce, Owning
<1> QED
  BY <1>3, <1>4, <1>5, <1>6, <1>7 DEF TurnInv

LEMMA CloseKeepsTurn ==
    ASSUME TypeOK, NEW t \in Turns, NEW k \in Callers, TurnInv(t), CloseStep(t, k), ~ProcessDies
    PROVE  TurnInv(t)'
<1> DEFINE run == close[t][k]
<1> USE DEF moneyVars, turnVars, playVars, ClosePCs
<1>a. PaidSoFar(t) /\ StreakCounted(t)
  BY DEF TurnInv
<1>p. paid \in [Turns -> Payout] /\ turn \in [Turns -> TurnDoc]
  BY DEF TypeOK, MoneyOK, TurnOK
<1>1. CASE Find(t, k)
  BY <1>1, CloseMoves, FreeStep DEF Find
<1>2. CASE Price(t, k)
  <2>1. PICK p \in LastPrice :
           LET result == TurnResult(SideOf[t], turn[t].openPrice, p) IN
           close' = [close EXCEPT ![t][k] =
                       [pc |-> IF result = "WIN" THEN "streak" ELSE "commit",
                        result |-> result, winStreak |-> 0]]
    BY <1>2 DEF Price
  <2>2. OthersStay(t, k)
    BY <2>1 DEF OthersStay, TypeOK, CloseOK
  <2>3. \/ close'[t][k].pc = "streak"
        \/ close'[t][k].pc = "commit" /\ close'[t][k].result # "WIN"
    BY <2>1 DEF TypeOK, CloseOK
  <2> QED
    BY <1>2, <2>2, <2>3, FreeStep DEF Price
<1>3. CASE Streak(t, k)
  <2>1. /\ OthersStay(t, k)
        /\ close'[t][k].pc = "commit"
        /\ close'[t][k].winStreak = NextStreak(streak[UserOf[t]])
    BY <1>3 DEF Streak, OthersStay, TypeOK, CloseOK, CloseRun
  <2>2. NextStreak(streak[UserOf[t]]) \in 1..MAX_WIN_STREAK
    BY TurnsAssumption, NextStreakInRange DEF TypeOK, UserOK
  <2> QED
    BY <1>3, <2>1, <2>2, FreeStep DEF Streak
<1>4. CASE Commit(t, k) /\ ~Claimable(t)
  BY <1>4, CloseMoves, FreeStep DEF Commit
<1>5. CASE Commit(t, k) /\ Claimable(t)
  <2>1. /\ OthersStay(t, k)
        /\ close'[t][k].pc = "unlock"
        /\ close'[t][k].result = run.result /\ close'[t][k].winStreak = run.winStreak
    BY <1>5, CloseMoves DEF Commit
  <2>2. turn'[t].state = "CLOSED" /\ turn'[t].profit = Profit(run.result, run.winStreak)
    BY <1>5, <1>p DEF Commit, TurnDoc
  <2>3. \A j \in Callers : ~Owns(t, j)
    BY <1>5 DEF TurnInv, OwnedIsClosed, Claimable
  <2>4. paid' = paid /\ paid[t].unlocks = 0 /\ paid[t].pays = 0
    BY <1>5 DEF Commit, TurnInv, OpenIsUnpaid, Claimable
  <2>5. \A j \in Callers : Owns(t, j)' => j = k
    BY <2>1, <2>3 DEF OthersStay, Owns
  <2>6. OwnedIsClosed(t)' /\ OneOwner(t)'
    BY <2>1, <2>2, <2>5 DEF OwnedIsClosed, OneOwner
  <2>7. PaidSoFar(t)'
    BY <2>1, <2>4, <2>5 DEF PaidSoFar, Owns, Owning
  <2>8. OpenIsUnpaid(t)' /\ PaidOnce(t)'
    BY <2>2, <2>4 DEF OpenIsUnpaid, PaidOnce
  <2>9. StreakCounted(t)'
    BY <1>5, <1>a, <2>1 DEF StreakCounted, Commit, OthersStay
  <2>10. StoredFirst(t)'
    BY <1>5, <2>2 DEF TurnInv, StoredFirst, Commit
  <2> QED
    BY <2>6, <2>7, <2>8, <2>9, <2>10 DEF TurnInv
<1>6. CASE Unlock(t, k)
  <2>1. paid[t].unlocks = 0 /\ paid[t].pays = 0
    BY <1>6, <1>a DEF PaidSoFar, Unlock
  <2>2. paid'[t].unlocks = 1 /\ paid'[t].pays = 0
    BY <1>6, <1>p, <2>1 DEF Unlock, Payout
  <2> QED
    BY <1>6, <2>2, CloseMoves, OwnerStep DEF Unlock, Owns, Owning
<1>7. CASE UnlockRefused(t, k)
  BY <1>7, <1>a, CloseMoves, OwnerStep DEF UnlockRefused, Owns, Owning, PaidSoFar
<1>8. CASE Pay(t, k)
  <2>1. paid[t].unlocks = 1 /\ paid[t].pays = 0
    BY <1>8, <1>a DEF PaidSoFar, Pay
  <2>2. /\ paid'[t].unlocks = 1 /\ paid'[t].pays = 1
        /\ paid'[t].amount = Profit(run.result, run.winStreak)
    BY <1>8, <1>p, <2>1 DEF Pay, Receipt, Payout
  <2>3. Owns(t, k)
    BY <1>8 DEF Pay, Owns, Owning
  <2>4. paid'[t].amount = turn[t].profit
    BY <2>2, <2>3 DEF TurnInv, OwnedIsClosed
  <2> QED
    BY <1>8, <2>2, <2>3, <2>4, CloseMoves, OwnerStep DEF Pay, Owning
<1>9. CASE PayRefused(t, k)
  BY <1>9, <1>a, CloseMoves, OwnerStep DEF PayRefused, Owns, Owning, PaidSoFar
<1>10. CASE Undo(t, k)
  <2>1. paid[t].unlocks = 1 /\ paid[t].pays = 0
    BY <1>10, <1>a DEF PaidSoFar, Undo
  <2>2. paid'[t].unlocks = 0 /\ paid'[t].pays = 0
    BY <1>10, <1>p, <2>1 DEF Undo, Payout
  <2> QED
    BY <1>10, <2>2, CloseMoves, OwnerStep DEF Undo, Owns, Owning
<1>11. CASE Cancel(t, k)
  <2>1. OthersStay(t, k) /\ close'[t][k].pc = "idle"
    BY <1>11, CloseMoves DEF Cancel
  <2>2. turn'[t].state = "CANCELED"
    BY <1>11, <1>p DEF Cancel, TurnDoc
  <2>3. Owns(t, k) /\ turn[t].state = "CLOSED"
    BY <1>11 DEF Cancel, Owns, Owning, TurnInv, OwnedIsClosed
  <2>4. \A j \in Callers : ~Owns(t, j)'
    BY <2>1, <2>3 DEF TurnInv, OneOwner, OthersStay, Owns, Owning
  <2>5. paid' = paid /\ paid[t].unlocks = 0 /\ paid[t].pays = 0
    BY <1>11, <1>a DEF Cancel, PaidSoFar
  <2>6. OwnedIsClosed(t)' /\ OneOwner(t)' /\ PaidSoFar(t)'
    BY <2>4 DEF OwnedIsClosed, OneOwner, PaidSoFar, Owns, Owning
  <2>7. OpenIsUnpaid(t)' /\ PaidOnce(t)'
    BY <2>5 DEF OpenIsUnpaid, PaidOnce
  <2>8. StreakCounted(t)'
    BY <1>a, <2>1 DEF StreakCounted, OthersStay, Owning
  <2>9. StoredFirst(t)'
    BY <1>11, <2>2, <2>3 DEF TurnInv, StoredFirst, Cancel
  <2> QED
    BY <2>6, <2>7, <2>8, <2>9 DEF TurnInv
<1>12. CASE Finish(t, k)
  BY <1>12, CloseMoves, FreeStep DEF Finish
<1>13. CASE FinishFails(t, k)
  BY <1>13, CloseMoves, FreeStep DEF FinishFails, Throws
<1>14. CASE CloseFails(t, k)
  BY <1>14, CloseMoves, FreeStep DEF CloseFails, Throws
<1> QED
  BY <1>1, <1>2, <1>3, <1>4, <1>5, <1>6, <1>7, <1>8, <1>9, <1>10, <1>11, <1>12, <1>13, <1>14
     DEF CloseStep

LEMMA CloseKeepsPayout ==
    ASSUME TypeOK, PayoutInv, NEW t \in Turns, NEW k \in Callers, CloseStep(t, k)
    PROVE  PayoutInv'
<1>1. CASE ProcessDies
  <2>1. UNCHANGED <<turn, paid>>
    (* Only an exception ends the process. *)
    <3>1. up' # up
      BY <1>1 DEF ProcessDies, CloseStep, Find, Price, Streak, Commit, Unlock, UnlockRefused,
                  Pay, PayRefused, Undo, Cancel, Finish, FinishFails, CloseFails
    <3> QED
      BY <3>1 DEF CloseStep, Find, Price, Streak, Commit, Unlock, UnlockRefused, Pay, PayRefused,
                  Undo, Cancel, Finish, FinishFails, CloseFails, serverVars, turnVars, moneyVars
  <2> QED
    BY <1>1, <2>1, DeathKeepsPayout
<1>2. CASE ~ProcessDies
  <2> SUFFICES ASSUME NEW s \in Turns PROVE TurnInv(s)'
    BY DEF PayoutInv
  <2>1. TurnInv(s) /\ TurnInv(t)
    BY DEF PayoutInv
  <2>2. CASE s = t
    BY <1>2, <2>1, <2>2, CloseKeepsTurn
  <2>3. CASE s # t
    <3>1. close'[s] = close[s]
      BY <1>2, <2>3 DEF TypeOK, CloseOK, CloseStep, Find, Price, Streak, Commit, Unlock, UnlockRefused,
             Pay, PayRefused, Undo, Cancel, Finish, FinishFails, CloseFails, Throws, CloseTo, Return
    <3>2. turn'[s] = turn[s] /\ paid'[s] = paid[s]
      BY <2>3 DEF TypeOK, TurnOK, MoneyOK, CloseStep, Find, Price, Streak, Commit, Unlock,
             UnlockRefused, Pay, PayRefused, Undo, Cancel, Finish, FinishFails, CloseFails,
             turnVars, moneyVars
    <3>3. play'[s] = play[s] /\ timer'[s] = timer[s]
      BY <1>2 DEF CloseStep, Find, Price, Streak, Commit, Unlock, UnlockRefused, Pay, PayRefused,
             Undo, Cancel, Finish, FinishFails, CloseFails, Throws, playVars
    <3> QED
      BY <2>1, <3>1, <3>2, <3>3, Untouched
  <2> QED
    BY <2>2, <2>3
<1> QED
  BY <1>1, <1>2

LEMMA NextPayout == TypeOK /\ PayoutInv /\ [Next]_vars => PayoutInv'
<1> SUFFICES ASSUME TypeOK, PayoutInv, [Next]_vars PROVE PayoutInv'
  OBVIOUS
<1>1. ASSUME NEW t \in Turns, PlayStep(t) PROVE PayoutInv'
  BY <1>1, PlayKeepsPayout
<1>2. ASSUME NEW t \in Turns, NEW k \in Callers, CloseStep(t, k) PROVE PayoutInv'
  BY <1>2, CloseKeepsPayout
<1>3. CASE Crash
  BY <1>3, DeathKeepsPayout DEF Crash, turnVars, moneyVars
(* The other actions neither store a turn nor pay: what may move is the     *)
(* timer and a run of closeTurn that starts.                                *)
<1>4. ASSUME NEW s \in Turns, UNCHANGED <<turn, paid, play>>,
             timer'[s] # NoTimer => turn[s].state # "NONE",
             \A j \in Callers :
                \/ close'[s][j] = close[s][j]
                \/ close'[s][j].pc = "idle"
                \/ close'[s][j].pc = "find" /\ turn[s].state # "NONE"
      PROVE  TurnInv(s)'
  <2>1. TurnInv(s)
    BY DEF PayoutInv
  <2>2. \A j \in Callers : close'[s][j].pc \in Owning \cup {"commit"} => close'[s][j] = close[s][j]
    BY <1>4 DEF Owning
  <2>3. OwnedIsClosed(s)' /\ OneOwner(s)' /\ StreakCounted(s)'
    BY <1>4, <2>1, <2>2 DEF TurnInv, OwnedIsClosed, OneOwner, StreakCounted, Owns
  <2>4. PaidSoFar(s)'
    BY <1>4, <2>1, <2>2 DEF TurnInv, PaidSoFar, Owning
  <2>5. OpenIsUnpaid(s)' /\ PaidOnce(s)'
    BY <1>4, <2>1 DEF TurnInv, OpenIsUnpaid, PaidOnce
  <2>6. StoredFirst(s)'
    BY <1>4, <2>1 DEF TurnInv, StoredFirst
  <2> QED
    BY <2>3, <2>4, <2>5, <2>6 DEF TurnInv
<1>t. /\ timer \in [Turns -> -1..TurnDuration] /\ turn \in [Turns -> TurnDoc]
      /\ close \in [Turns -> [Callers -> CloseRun]]
  BY DEF TypeOK, TimerOK, TurnOK, CloseOK
<1>5. ASSUME NEW t \in Turns, Fire(t) PROVE PayoutInv'
  <2> SUFFICES ASSUME NEW s \in Turns PROVE TurnInv(s)'
    BY DEF PayoutInv
  <2>1. turn[t].state # "NONE"
    BY <1>5 DEF PayoutInv, TurnInv, StoredFirst, Fire, NoTimer
  <2>2. TurnInv(s)
    BY DEF PayoutInv
  <2>3. timer'[s] # NoTimer => turn[s].state # "NONE"
    BY <1>5, <1>t, <2>2 DEF Fire, TurnInv, StoredFirst
  <2>4. \A j \in Callers : close'[s][j] = close[s][j] \/ (s = t /\ close'[s][j].pc = "find")
    <3>1. /\ OthersStay(t, "timer") /\ close'[t]["timer"].pc = "find"
          /\ \A r \in Turns \ {t} : close'[r] = close[r]
      BY <1>5, CloseMoves DEF Fire, ClosePCs, Callers
    <3>2. CASE s = t
      BY <3>1, <3>2 DEF OthersStay
    <3>3. CASE s # t
      BY <3>1, <3>3
    <3> QED
      BY <3>2, <3>3
  <2> QED
    BY <1>4, <1>5, <2>1, <2>3, <2>4 DEF Fire, turnVars, moneyVars, playVars
<1>6. ASSUME NEW t \in Turns, NEW k \in Callers, Poll(t, k) PROVE PayoutInv'
  <2> SUFFICES ASSUME NEW s \in Turns PROVE TurnInv(s)'
    BY DEF PayoutInv
  <2>1. turn[t].state # "NONE" /\ timer' = timer
    BY <1>6 DEF Poll
  <2>2. TurnInv(s)
    BY DEF PayoutInv
  <2>3. timer'[s] # NoTimer => turn[s].state # "NONE"
    BY <2>1, <2>2 DEF TurnInv, StoredFirst
  <2>4. \A j \in Callers : close'[s][j] = close[s][j] \/ (s = t /\ close'[s][j].pc = "find")
    <3>1. /\ OthersStay(t, k) /\ close'[t][k].pc = "find"
          /\ \A r \in Turns \ {t} : close'[r] = close[r]
      BY <1>6, CloseMoves DEF Poll, ClosePCs
    <3>2. CASE s = t
      BY <3>1, <3>2 DEF OthersStay
    <3>3. CASE s # t
      BY <3>1, <3>3
    <3> QED
      BY <3>2, <3>3
  <2> QED
    BY <1>4, <1>6, <2>1, <2>3, <2>4 DEF Poll, turnVars, moneyVars, playVars
<1>7. CASE FeedReady \/ UNCHANGED vars
  <2> SUFFICES ASSUME NEW s \in Turns PROVE TurnInv(s)'
    BY DEF PayoutInv
  <2>1. UNCHANGED <<turn, paid, close, play, timer>>
    BY <1>7 DEF FeedReady, vars, turnVars, moneyVars, playVars
  <2> QED
    BY <2>1, Untouched DEF PayoutInv
<1>8. CASE Tick
  <2> SUFFICES ASSUME NEW s \in Turns PROVE TurnInv(s)'
    BY DEF PayoutInv
  <2>1. UNCHANGED <<turn, paid, play, close>>
    BY <1>8 DEF Tick, turnVars, moneyVars, playVars
  <2>2. timer'[s] # NoTimer => timer[s] # NoTimer
    BY <1>8, <1>t DEF Tick, Less, NoTimer
  <2>3. timer'[s] # NoTimer => turn[s].state # "NONE"
    BY <2>2 DEF PayoutInv, TurnInv, StoredFirst
  <2> QED
    BY <1>4, <2>1, <2>3
<1>9. CASE Boot
  <2> SUFFICES ASSUME NEW s \in Turns PROVE TurnInv(s)'
    BY DEF PayoutInv
  <2>1. UNCHANGED <<turn, paid, play>>
    BY <1>9 DEF Boot, turnVars, moneyVars, playVars
  <2>2. timer'[s] # NoTimer => turn[s].state # "NONE"
    BY <1>9 DEF Boot
  <2>3. \A j \in Callers :
           close'[s][j].pc = "idle" \/ (close'[s][j].pc = "find" /\ turn[s].state # "NONE")
    <3>1. Idle.pc = "idle" /\ [Idle EXCEPT !.pc = "find"].pc = "find"
      BY DEF Idle
    <3> SUFFICES ASSUME NEW j \in Callers
                 PROVE  close'[s][j].pc = "idle" \/ (close'[s][j].pc = "find" /\ turn[s].state # "NONE")
      OBVIOUS
    <3>2. CASE j = "timer" /\ Overdue(s)
      <4>1. close'[s][j] = [Idle EXCEPT !.pc = "find"]
        BY <1>9, <3>2 DEF Boot
      <4> QED
        BY <3>1, <3>2, <4>1 DEF Overdue
    <3>3. CASE ~(j = "timer" /\ Overdue(s))
      <4>1. close'[s][j] = Idle
        BY <1>9, <3>3 DEF Boot
      <4> QED
        BY <3>1, <4>1
    <3> QED
      BY <3>2, <3>3
  <2> QED
    BY <1>4, <2>1, <2>2, <2>3
<1> QED
  BY <1>1, <1>2, <1>3, <1>5, <1>6, <1>7, <1>8, <1>9 DEF Next

LEMMA PayoutHolds == Spec => [](TypeOK /\ PayoutInv)
<1>1. Init => TypeOK /\ PayoutInv
  BY InitTyped, InitPayout
<1>2. TypeOK /\ PayoutInv /\ [Next]_vars => (TypeOK /\ PayoutInv)'
  BY NextTyped, NextPayout
<1> QED
  BY <1>1, <1>2, PTL DEF Spec

-----------------------------------------------------------------------------
(* However closeTurn's runs overlap, fail or crash, a margin is released at *)
(* most once and a result is paid at most once, after the release.          *)
THEOREM NoDoublePayout == Spec => []AtMostOnePayout
<1>1. PayoutInv => AtMostOnePayout
  BY DEF PayoutInv, TurnInv, PaidOnce, AtMostOnePayout
<1> QED
  BY <1>1, PayoutHolds, PTL

(* The amount paid for a turn is the profit its stored document records.    *)
THEOREM PaymentsAreRecorded == Spec => []PaidAsRecorded
<1>1. PayoutInv => PaidAsRecorded
  BY DEF PayoutInv, TurnInv, PaidOnce, PaidAsRecorded
<1> QED
  BY <1>1, PayoutHolds, PTL

-----------------------------------------------------------------------------
(* Which actions write the stored turns. *)
LEMMA WhoWritesTurns ==
    ASSUME TypeOK, PayoutInv, [Next]_vars, NEW s \in Turns, turn'[s] # turn[s]
    PROVE  /\ paid[s].pays = 0 /\ paid' = paid
           /\ \/ turn[s].state = "NONE" /\ turn'[s].state = "NONE"
              \/ PlayCreate(s) /\ turn[s].state = "NONE" /\ turn'[s].state = "OPEN"
              \/ turn[s].state # "NONE" /\ turn'[s].state # "NONE"
<1>t. turn \in [Turns -> TurnDoc]
  BY DEF TypeOK, TurnOK
<1>i. TurnInv(s)
  BY DEF PayoutInv
<1>1. ASSUME NEW t \in Turns, PlayStep(t)
      PROVE  PlayPrice(s) \/ PlayCreate(s)
  BY <1>t, <1>1 DEF PlayStep, PlayCheck, PlayLock, PlayLockRefused, PlayPrice, PlayCreate,
                    PlayFails, PlayAbort, PlayAbortFails, turnVars
<1>2. ASSUME NEW t \in Turns, NEW k \in Callers, CloseStep(t, k)
      PROVE  \/ Commit(s, k) /\ Claimable(s)
             \/ Cancel(s, k)
  BY <1>t, <1>2 DEF CloseStep, Find, Price, Streak, Commit, Unlock, UnlockRefused, Pay, PayRefused,
                    Undo, Cancel, Finish, FinishFails, CloseFails, turnVars
<1>3. \/ PlayPrice(s)
      \/ PlayCreate(s)
      \/ \E k \in Callers : Commit(s, k) /\ Claimable(s)
      \/ \E k \in Callers : Cancel(s, k)
  BY <1>1, <1>2 DEF Next, Fire, Poll, FeedReady, Tick, Crash, Boot, vars, turnVars
<1>4. CASE PlayPrice(s)
  <2>1. turn[s].state = "NONE" /\ paid[s].pays = 0
    BY <1>4, <1>i DEF PlayPrice, TurnInv, StoredFirst, OpenIsUnpaid
  <2>2. turn'[s].state = "NONE" /\ paid' = paid
    BY <1>4, <1>t, <2>1 DEF PlayPrice, TurnDoc, moneyVars
  <2> QED
    BY <2>1, <2>2
<1>5. CASE PlayCreate(s)
  <2>1. turn[s].state = "NONE" /\ paid[s].pays = 0
    BY <1>5, <1>i DEF PlayCreate, TurnInv, StoredFirst, OpenIsUnpaid
  <2>2. turn'[s].state = "OPEN" /\ paid' = paid
    BY <1>5, <1>t DEF PlayCreate, TurnDoc
  <2> QED
    BY <1>5, <2>1, <2>2
<1>6. ASSUME NEW k \in Callers, Commit(s, k), Claimable(s)
      PROVE  /\ paid[s].pays = 0 /\ paid' = paid
             /\ turn[s].state # "NONE" /\ turn'[s].state # "NONE"
  <2>1. turn[s].state # "NONE"
    BY <1>6, <1>i DEF Commit, TurnInv, StoredFirst
  <2>2. turn'[s].state = "CLOSED" /\ paid' = paid
    BY <1>6, <1>t DEF Commit, TurnDoc, moneyVars
  <2>3. paid[s].pays = 0
    BY <1>6, <1>i DEF Claimable, TurnInv, OpenIsUnpaid
  <2> QED
    BY <2>1, <2>2, <2>3
<1>7. ASSUME NEW k \in Callers, Cancel(s, k)
      PROVE  /\ paid[s].pays = 0 /\ paid' = paid
             /\ turn[s].state # "NONE" /\ turn'[s].state # "NONE"
  <2>1. turn[s].state # "NONE"
    BY <1>7, <1>i DEF Cancel, TurnInv, StoredFirst
  <2>2. turn'[s].state = "CANCELED" /\ paid' = paid
    BY <1>7, <1>t DEF Cancel, TurnDoc, moneyVars
  <2>3. paid[s].pays = 0
    BY <1>7, <1>i DEF Cancel, TurnInv, PaidSoFar
  <2> QED
    BY <2>1, <2>2, <2>3
<1> QED
  BY <1>3, <1>4, <1>5, <1>6, <1>7

(* Once a turn is paid its document is final: no later run of closeTurn     *)
(* closes or cancels it again.                                              *)
THEOREM PaidTurnsAreFinal == Spec => PaidIsFinal
<1>1. TypeOK /\ PayoutInv /\ [Next]_vars =>
          [\A t \in Turns : paid[t].pays > 0 => turn'[t] = turn[t]]_vars
  BY WhoWritesTurns
<1> QED
  BY <1>1, PayoutHolds, PTL DEF Spec, PaidIsFinal

-----------------------------------------------------------------------------
(* The game implements BetLedger. *)

LEMMA OnlyPayMovesBalances ==
    ASSUME TypeOK, [Next]_vars, ~ \E t \in Turns, k \in Callers : Pay(t, k)
    PROVE  Balances' = Balances /\ \A t \in Turns : paid'[t].pays = paid[t].pays
<1>t. wallet \in [Users -> Account] /\ paid \in [Turns -> Payout]
  BY DEF TypeOK, MoneyOK
<1>1. ASSUME NEW u \in Users, NEW n, wallet' = [wallet EXCEPT ![u] = ChangeLocked(@, n)]
      PROVE  Balances' = Balances
  BY <1>t, <1>1 DEF Balances, ChangeLocked, Account
<1>2. ASSUME NEW t \in Turns, PlayStep(t)
      PROVE  /\ \/ wallet' = wallet
                \/ \E n \in {bet, -bet} : wallet' = [wallet EXCEPT ![UserOf[t]] = ChangeLocked(@, n)]
             /\ paid' = paid
  BY <1>2 DEF PlayStep, PlayCheck, PlayLock, PlayLockRefused, PlayPrice, PlayCreate,
              PlayFails, PlayAbort, PlayAbortFails, moneyVars
<1>3. ASSUME NEW t \in Turns, NEW k \in Callers, CloseStep(t, k), ~Pay(t, k)
      PROVE  /\ \/ wallet' = wallet
                \/ \E n \in {bet, -bet} : wallet' = [wallet EXCEPT ![UserOf[t]] = ChangeLocked(@, n)]
             /\ \A s \in Turns : paid'[s].pays = paid[s].pays
  <2>1. CASE Unlock(t, k) \/ Undo(t, k)
    BY <1>t, <2>1 DEF Unlock, Undo, Payout
  <2>2. CASE ~(Unlock(t, k) \/ Undo(t, k))
    BY <1>3, <2>2 DEF CloseStep, Find, Price, Streak, Commit, UnlockRefused, PayRefused, Cancel,
                      Finish, FinishFails, CloseFails, moneyVars
  <2> QED
    BY <2>1, <2>2
<1>4. CASE \E t \in Turns : PlayStep(t)
  BY <1>1, <1>2, <1>4, TurnsAssumption DEF Balances
<1>5. CASE \E t \in Turns, k \in Callers : CloseStep(t, k)
  BY <1>1, <1>3, <1>5, TurnsAssumption DEF Balances
<1>6. CASE UNCHANGED <<wallet, paid>>
  BY <1>6 DEF Balances
<1> QED
  BY <1>4, <1>5, <1>6 DEF Next, Fire, Poll, FeedReady, Tick, Crash, Boot, vars, moneyVars

LEMMA PaidIsAProfit ==
    ASSUME TypeOK, PayoutInv, NEW t \in Turns, NEW k \in Callers, Owns(t, k)
    PROVE  Profit(close[t][k].result, close[t][k].winStreak) \in Profits
BY DEF Profit, Profits, PayoutInv, TurnInv, StreakCounted, Owns, Owning

LEMMA LedgerStarts == Init => Ledger!LedgerInit
BY DEF Init, Ledger!LedgerInit, Stage, Balances, NoTurn

LEMMA LedgerSteps ==
    ASSUME TypeOK, PayoutInv, [Next]_vars
    PROVE  [Ledger!LedgerNext]_(Ledger!ledgerVars)
<1> USE DEF Ledger!LedgerNext, Ledger!ledgerVars
<1>t. /\ turn \in [Turns -> TurnDoc] /\ paid \in [Turns -> Payout]
      /\ wallet \in [Users -> Account] /\ UserOf \in [Turns -> Users]
  BY TurnsAssumption DEF TypeOK, TurnOK, MoneyOK
<1>s. ASSUME NEW s \in Turns, turn'[s].state = "NONE" <=> turn[s].state = "NONE",
             paid'[s].pays = paid[s].pays
      PROVE  Stage'[s] = Stage[s]
  BY <1>s DEF Stage
(* Storing the turn places the bet. *)
<1>1. ASSUME NEW t \in Turns, PlayCreate(t), turn[t].state = "NONE" PROVE Ledger!Place(t)
  <2>1. turn'[t].state = "OPEN" /\ \A s \in Turns \ {t} : turn'[s] = turn[s]
    BY <1>t, <1>1 DEF PlayCreate, TurnDoc
  <2>2. paid' = paid /\ wallet' = wallet /\ paid[t].pays = 0
    BY <1>1 DEF PlayCreate, PayoutInv, TurnInv, OpenIsUnpaid
  <2>3. Stage[t] = "none" /\ Stage'[t] = "open"
    BY <1>1, <2>1, <2>2 DEF Stage
  <2>4. \A s \in Turns \ {t} : Stage'[s] = Stage[s]
    BY <1>s, <2>1, <2>2
  <2>5. Stage' = [Stage EXCEPT ![t] = "open"]
    BY <2>3, <2>4 DEF Stage
  <2> QED
    BY <2>2, <2>3, <2>5 DEF Ledger!Place, Balances
(* Paying the profit settles it. *)
<1>2. ASSUME NEW t \in Turns, NEW k \in Callers, Pay(t, k) PROVE Ledger!Settle(t)
  <2> DEFINE profit == Profit(close[t][k].result, close[t][k].winStreak)
  <2>1. Owns(t, k)
    BY <1>2 DEF Pay, Owns, Owning
  <2>2. profit \in Profits
    BY <2>1, PaidIsAProfit
  <2>3. turn[t].state = "CLOSED" /\ paid[t].pays = 0 /\ turn' = turn
    BY <1>2, <2>1 DEF Pay, PayoutInv, TurnInv, OwnedIsClosed, PaidSoFar, turnVars
  <2>4. paid'[t].pays = 1 /\ \A s \in Turns \ {t} : paid'[s] = paid[s]
    BY <1>t, <1>2, <2>3 DEF Pay, Receipt, Payout
  <2>5. Stage[t] = "open" /\ Stage'[t] = "settled"
    BY <2>3, <2>4 DEF Stage
  <2>6. \A s \in Turns \ {t} : Stage'[s] = Stage[s]
    BY <1>s, <2>3, <2>4
  <2>7. Stage' = [Stage EXCEPT ![t] = "settled"]
    BY <2>5, <2>6 DEF Stage
  <2>8. wallet' = [wallet EXCEPT ![UserOf[t]] = ChangeBalance(@, profit)]
    BY <1>2 DEF Pay
  <2> HIDE DEF profit
  <2>9. Balances' = [Balances EXCEPT ![UserOf[t]] = @ + profit]
    BY <1>t, <2>8 DEF Balances, ChangeBalance, Account
  <2> QED
    BY <2>2, <2>5, <2>7, <2>9 DEF Ledger!Settle
(* Nothing else is seen in the ledger. *)
<1>3. CASE ~ \E t \in Turns, k \in Callers : Pay(t, k)
  <2>1. Balances' = Balances /\ \A s \in Turns : paid'[s].pays = paid[s].pays
    BY <1>3, OnlyPayMovesBalances
  <2>2. CASE \E t \in Turns : PlayCreate(t) /\ turn[t].state = "NONE"
    BY <1>1, <2>2
  <2>3. CASE ~ \E t \in Turns : PlayCreate(t) /\ turn[t].state = "NONE"
    <3>1. \A s \in Turns : turn'[s].state = "NONE" <=> turn[s].state = "NONE"
      BY <2>3, WhoWritesTurns
    <3>2. \A s \in Turns : Stage'[s] = Stage[s]
      BY <1>s, <2>1, <3>1
    <3>3. Stage' = Stage
      BY <3>2 DEF Stage
    <3> QED
      BY <2>1, <3>3
  <2> QED
    BY <2>2, <2>3
<1> QED
  BY <1>2, <1>3

(* Seen from outside, the game keeps the promise of BetLedger: every bet is *)
(* settled at most once, by an amount the rules allow, and nothing but a    *)
(* settlement ever moves a balance.                                         *)
THEOREM GameImplementsLedger == Spec => LedgerSpec
<1>1. Init => Ledger!LedgerInit
  BY LedgerStarts
<1>2. TypeOK /\ PayoutInv /\ [Next]_vars => [Ledger!LedgerNext]_(Ledger!ledgerVars)
  BY LedgerSteps
<1> QED
  BY <1>1, <1>2, PayoutHolds, PTL DEF Spec, LedgerSpec, Ledger!LedgerSpec
=============================================================================

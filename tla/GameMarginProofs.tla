-------------------------- MODULE GameMarginProofs --------------------------
(***************************************************************************)
(* Further theorems about GameTurn: the margins of the turns a player has  *)
(* open stay locked, and a win pays.  A turn's margin is at stake from the *)
(* lock to the release, whoever holds the turn meanwhile: the play request *)
(* before it is stored, the document while it is OPEN or CANCELED, and the *)
(* run of closeTurn that has closed it and not released the margin.        *)
(***************************************************************************)
EXTENDS GameTurnProofs, FiniteSetTheorems

AtStake(t) ==
    \/ play[t] \in {"locked", "opening", "aborting"}
    \/ turn[t].state \in {"OPEN", "CANCELED"}
    \/ \E k \in Callers : close[t][k].pc \in {"unlock", "cancel"}
StakesHeld(u) == {t \in Turns : UserOf[t] = u /\ AtStake(t)}

Backed(u) ==
    /\ IsFiniteSet(StakesHeld(u))
    /\ wallet[u].locked >= bet * Cardinality(StakesHeld(u))

(* The request of a stored turn has ended. *)
StoredIsDone(t) == play[t] # "done" => turn[t].state = "NONE"

(* A closed win has a streak of the table, and the profit of that streak. *)
WinPays(t) ==
    turn[t].state = "CLOSED" /\ turn[t].result = "WIN" =>
        /\ turn[t].winStreak \in 1..MAX_WIN_STREAK
        /\ turn[t].profit = Profit("WIN", turn[t].winStreak)

StakeInv ==
    /\ \A t \in Turns : StoredIsDone(t) /\ WinPays(t)
    /\ \A u \in Users : Backed(u)

-----------------------------------------------------------------------------
LEMMA InitStake == ASSUME Init PROVE StakeInv
<1>1. \A t \in Turns : ~AtStake(t) /\ StoredIsDone(t) /\ WinPays(t)
  BY DEF Init, AtStake, StoredIsDone, WinPays, NoTurn, Idle
<1>2. ASSUME NEW u \in Users PROVE Backed(u)
  <2>1. StakesHeld(u) = {}
    BY <1>1 DEF StakesHeld
  <2>2. IsFiniteSet({}) /\ Cardinality({}) = 0
    BY FS_EmptySet
  <2>3. wallet[u].locked = 0
    BY DEF Init
  <2> QED
    BY <2>1, <2>2, <2>3 DEF Backed, bet
<1> QED
  BY <1>1, <1>2 DEF StakeInv

(* One margin locked or released, and the set of margins follows. *)
LEMMA BackedStep ==
    ASSUME NEW u \in Users, Backed(u), wallet[u].locked \in Int, wallet'[u].locked \in Int, NEW t,
           \/ /\ StakesHeld(u)' \subseteq StakesHeld(u)
              /\ wallet'[u].locked = wallet[u].locked
           \/ /\ StakesHeld(u)' \subseteq StakesHeld(u) \cup {t}
              /\ wallet'[u].locked = wallet[u].locked + bet
           \/ /\ t \in StakesHeld(u) /\ StakesHeld(u)' \subseteq StakesHeld(u) \ {t}
              /\ wallet'[u].locked = wallet[u].locked - bet
    PROVE  Backed(u)'
<1> DEFINE S == StakesHeld(u)
           T == StakesHeld(u)'
<1>1. IsFiniteSet(S) /\ Cardinality(S) \in Nat /\ wallet[u].locked >= 10 * Cardinality(S)
  BY FS_CardinalityType DEF Backed, bet
<1> HIDE DEF S, T
<1>2. /\ IsFiniteSet(S \cup {t}) /\ Cardinality(S \cup {t}) <= Cardinality(S) + 1
      /\ Cardinality(S \cup {t}) \in Nat
  <2>1. IsFiniteSet(S \cup {t})
        /\ Cardinality(S \cup {t}) = IF t \in S THEN Cardinality(S) ELSE Cardinality(S) + 1
    BY <1>1, FS_AddElement
  <2> QED
    BY <1>1, <2>1
<1>3. t \in S => IsFiniteSet(S \ {t}) /\ Cardinality(S \ {t}) = Cardinality(S) - 1
  BY <1>1, FS_RemoveElement
<1>4. ASSUME NEW R, IsFiniteSet(R), T \subseteq R
      PROVE  IsFiniteSet(T) /\ Cardinality(T) \in Nat /\ Cardinality(T) <= Cardinality(R)
  BY <1>4, FS_Subset, FS_CardinalityType
<1>5. IsFiniteSet(T) /\ wallet'[u].locked >= 10 * Cardinality(T)
  <2>1. CASE T \subseteq S /\ wallet'[u].locked = wallet[u].locked
    <3>1. IsFiniteSet(T) /\ Cardinality(T) \in Nat /\ Cardinality(T) <= Cardinality(S)
      BY <1>1, <1>4, <2>1
    <3> QED
      BY <1>1, <2>1, <3>1
  <2>2. CASE T \subseteq S \cup {t} /\ wallet'[u].locked = wallet[u].locked + 10
    <3>1. IsFiniteSet(T) /\ Cardinality(T) \in Nat /\ Cardinality(T) <= Cardinality(S \cup {t})
      BY <1>2, <1>4, <2>2
    <3> QED
      BY <1>1, <1>2, <2>2, <3>1
  <2>3. CASE t \in S /\ T \subseteq S \ {t} /\ wallet'[u].locked = wallet[u].locked - 10
    <3>1. IsFiniteSet(T) /\ Cardinality(T) \in Nat /\ Cardinality(T) <= Cardinality(S) - 1
      BY <1>3, <1>4, <2>3
    <3> QED
      BY <1>1, <2>3, <3>1
  <2> QED
    BY <2>1, <2>2, <2>3 DEF S, T, bet
<1> QED
  BY <1>5 DEF Backed, T, bet

(* What a step does to the margin of one turn, and to no other. *)
MarginMoves(t) ==
    /\ \A s \in Turns \ {t} : AtStake(s)' => AtStake(s)
    /\ \/ UNCHANGED wallet /\ (AtStake(t)' => AtStake(t))
       \/ wallet' = [wallet EXCEPT ![UserOf[t]] = ChangeLocked(@, bet)]
       \/ /\ wallet' = [wallet EXCEPT ![UserOf[t]] = ChangeLocked(@, -bet)]
          /\ AtStake(t) /\ ~AtStake(t)'
       \/ /\ \E d : wallet' = [wallet EXCEPT ![UserOf[t]] = ChangeBalance(@, d)]
          /\ AtStake(t)' => AtStake(t)

LEMMA OneTurnMoves ==
    ASSUME TypeOK, TypeOK', NEW u \in Users, Backed(u), NEW t \in Turns, MarginMoves(t)
    PROVE  Backed(u)'
<1>0. /\ \A s \in Turns \ {t} : AtStake(s)' => AtStake(s)
      /\ \/ UNCHANGED wallet /\ (AtStake(t)' => AtStake(t))
         \/ wallet' = [wallet EXCEPT ![UserOf[t]] = ChangeLocked(@, bet)]
         \/ /\ wallet' = [wallet EXCEPT ![UserOf[t]] = ChangeLocked(@, -bet)]
            /\ AtStake(t) /\ ~AtStake(t)'
         \/ /\ \E d : wallet' = [wallet EXCEPT ![UserOf[t]] = ChangeBalance(@, d)]
            /\ AtStake(t)' => AtStake(t)
  BY DEF MarginMoves
<1>a. wallet \in [Users -> Account] /\ wallet' \in [Users -> Account] /\ UserOf[t] \in Users
  BY TurnsAssumption DEF TypeOK, MoneyOK
<1>b. wallet[u].locked \in Int /\ wallet'[u].locked \in Int
  BY <1>a DEF Account
<1>c. StakesHeld(u)' \subseteq StakesHeld(u) \cup {t}
  BY <1>0 DEF StakesHeld
<1>d. (AtStake(t)' => AtStake(t)) \/ u # UserOf[t] => StakesHeld(u)' \subseteq StakesHeld(u)
  BY <1>0 DEF StakesHeld
<1>1. CASE UNCHANGED wallet /\ (AtStake(t)' => AtStake(t))
  BY <1>1, <1>b, <1>d, BackedStep
<1>2. CASE u # UserOf[t]
  <2>1. wallet'[u] = wallet[u]
    BY <1>0, <1>2, <1>a
  <2> QED
    BY <1>2, <1>b, <1>d, <2>1, BackedStep
<1>3. CASE u = UserOf[t] /\ wallet' = [wallet EXCEPT ![UserOf[t]] = ChangeLocked(@, bet)]
  <2>1. wallet'[u].locked = wallet[u].locked + bet
    BY <1>3, <1>a DEF ChangeLocked, Account
  <2> QED
    BY <1>b, <1>c, <2>1, BackedStep
<1>4. CASE /\ u = UserOf[t] /\ wallet' = [wallet EXCEPT ![UserOf[t]] = ChangeLocked(@, -bet)]
           /\ AtStake(t) /\ ~AtStake(t)'
  <2>1. wallet'[u].locked = wallet[u].locked - bet
    BY <1>4, <1>a DEF ChangeLocked, Account, bet
  <2>2. t \in StakesHeld(u) /\ StakesHeld(u)' \subseteq StakesHeld(u) \ {t}
    BY <1>4, <1>c DEF StakesHeld
  <2> QED
    BY <1>b, <2>1, <2>2, BackedStep
<1>5. ASSUME NEW d, u = UserOf[t], wallet' = [wallet EXCEPT ![UserOf[t]] = ChangeBalance(@, d)],
             AtStake(t)' => AtStake(t)
      PROVE  Backed(u)'
  <2>1. wallet'[u].locked = wallet[u].locked
    BY <1>5, <1>a DEF ChangeBalance, Account
  <2> QED
    BY <1>5, <1>b, <1>d, <2>1, BackedStep
<1> QED
  BY <1>0, <1>1, <1>2, <1>3, <1>4, <1>5

-----------------------------------------------------------------------------
(* A play request takes the margin, and gives it back when it fails. *)
LEMMA PlayMovesMargin ==
    ASSUME TypeOK, PayoutInv, StakeInv, NEW t \in Turns, PlayStep(t)
    PROVE  MarginMoves(t)
<1>t. turn \in [Turns -> TurnDoc] /\ play \in [Turns -> PlayPCs]
  BY DEF TypeOK, TurnOK, PlayOK
<1>i. StoredIsDone(t) /\ StoredFirst(t)
  BY DEF StakeInv, PayoutInv, TurnInv
<1>c. close' = close
  BY DEF PlayStep, PlayCheck, PlayLock, PlayLockRefused, PlayPrice, PlayCreate,
         PlayFails, PlayAbort, PlayAbortFails
<1>o. ASSUME NEW s \in Turns \ {t} PROVE AtStake(s)' => AtStake(s)
  <2>1. play'[s] = play[s] /\ turn'[s] = turn[s]
    BY <1>t DEF PlayStep, PlayCheck, PlayLock, PlayLockRefused, PlayPrice, PlayCreate,
                PlayFails, PlayAbort, PlayAbortFails, PlayTo, turnVars
  <2> QED
    BY <1>c, <2>1 DEF AtStake
<1>1. CASE PlayCheck(t) \/ PlayLockRefused(t) \/ PlayAbortFails(t)
  <2>1. play'[t] \in {"refused", "checked", "stuck"} /\ turn' = turn /\ wallet' = wallet
    BY <1>1, <1>t DEF PlayCheck, PlayLockRefused, PlayAbortFails, PlayTo, turnVars, moneyVars
  <2>2. AtStake(t)' => AtStake(t)
    BY <1>c, <2>1 DEF AtStake
  <2> QED
    BY <1>o, <2>1, <2>2 DEF MarginMoves
<1>2. CASE PlayLock(t)
  BY <1>2, <1>o DEF PlayLock, MarginMoves
<1>3. CASE PlayPrice(t) \/ PlayCreate(t) \/ PlayFails(t)
  <2>1. AtStake(t)
    BY <1>3 DEF PlayPrice, PlayCreate, PlayFails, AtStake
  <2>2. wallet' = wallet
    BY <1>3 DEF PlayPrice, PlayCreate, PlayFails, moneyVars
  <2> QED
    BY <1>o, <2>1, <2>2 DEF MarginMoves
<1>4. CASE PlayAbort(t)
  <2>1. AtStake(t) /\ turn[t].state = "NONE"
    BY <1>4, <1>i DEF PlayAbort, AtStake, StoredIsDone
  <2>2. \A k \in Callers : close[t][k].pc = "idle"
    BY <1>i, <2>1 DEF StoredFirst
  <2>3. play'[t] = "refused" /\ turn' = turn
    BY <1>4, <1>t DEF PlayAbort, PlayTo, turnVars
  <2>4. ~AtStake(t)'
    BY <1>c, <2>1, <2>2, <2>3 DEF AtStake
  <2> QED
    BY <1>4, <1>o, <2>1, <2>4 DEF PlayAbort, MarginMoves
<1> QED
  BY <1>1, <1>2, <1>3, <1>4 DEF PlayStep

(* The end of the process puts nothing at stake. *)
LEMMA DeathMovesNoMargin ==
    ASSUME ProcessDies, UNCHANGED turn, NEW s \in Turns
    PROVE  AtStake(s)' => AtStake(s)
<1>1. \A k \in Callers : close'[s][k].pc = "idle"
  BY DEF ProcessDies, Idle
<1>2. play'[s] \in {play[s], "lost"}
  BY DEF ProcessDies
<1> QED
  BY <1>1, <1>2 DEF AtStake

(* closeTurn releases the margin once it owns the turn; its rollback takes  *)
(* the margin again.                                                        *)
LEMMA CloseMovesMargin ==
    ASSUME TypeOK, PayoutInv, StakeInv, NEW t \in Turns, NEW k \in Callers, CloseStep(t, k)
    PROVE  MarginMoves(t)
<1> USE DEF moneyVars, turnVars, playVars
<1>t. turn \in [Turns -> TurnDoc]
  BY DEF TypeOK, TurnOK
<1>i. StoredIsDone(t) /\ TurnInv(t)
  BY DEF StakeInv, PayoutInv
<1>d. CASE ProcessDies /\ (FinishFails(t, k) \/ CloseFails(t, k))
  <2>1. UNCHANGED <<turn, wallet>>
    BY <1>d DEF FinishFails, CloseFails
  <2> QED
    BY <1>d, <2>1, DeathMovesNoMargin DEF MarginMoves
(* A run that neither closes the turn nor moves its margin. *)
<1>q. ASSUME UNCHANGED <<turn, play>>, OthersStay(t, k), \A s \in Turns \ {t} : close'[s] = close[s],
             close'[t][k].pc \notin {"unlock", "cancel"}
      PROVE  \A s \in Turns : AtStake(s)' => AtStake(s)
  BY <1>q DEF AtStake, OthersStay
<1>o. ASSUME play' = play, \A s \in Turns \ {t} : turn'[s] = turn[s] /\ close'[s] = close[s]
      PROVE  \A s \in Turns \ {t} : AtStake(s)' => AtStake(s)
  BY <1>o DEF AtStake
<1>1. CASE Find(t, k)
  BY <1>1, <1>q, CloseMoves DEF Find, ClosePCs, MarginMoves
<1>2. CASE Price(t, k)
  <2>1. PICK p \in LastPrice :
           LET result == TurnResult(SideOf[t], turn[t].openPrice, p) IN
           close' = [close EXCEPT ![t][k] =
                       [pc |-> IF result = "WIN" THEN "streak" ELSE "commit",
                        result |-> result, winStreak |-> 0]]
    BY <1>2 DEF Price
  <2>2. OthersStay(t, k) /\ \A s \in Turns \ {t} : close'[s] = close[s]
    BY <2>1 DEF OthersStay, TypeOK, CloseOK
  <2>3. close'[t][k].pc \in {"streak", "commit"}
    BY <2>1 DEF TypeOK, CloseOK
  <2> QED
    BY <1>2, <1>q, <2>2, <2>3 DEF Price, MarginMoves
<1>3. CASE Streak(t, k)
  <2>1. /\ OthersStay(t, k) /\ \A s \in Turns \ {t} : close'[s] = close[s]
        /\ close'[t][k].pc = "commit"
    BY <1>3 DEF Streak, OthersStay, TypeOK, CloseOK, CloseRun
  <2> QED
    BY <1>3, <1>q, <2>1 DEF Streak, MarginMoves
<1>4. CASE Commit(t, k) /\ ~Claimable(t)
  BY <1>4, <1>q, CloseMoves DEF Commit, MarginMoves
<1>5. CASE Commit(t, k) /\ Claimable(t)
  <2>1. turn[t].state # "NONE"
    BY <1>5, <1>i DEF Commit, TurnInv, StoredFirst
  <2>2. AtStake(t)
    BY <1>5, <1>t, <2>1 DEF Claimable, AtStake, TurnDoc
  <2>3. \A s \in Turns \ {t} : turn'[s] = turn[s] /\ close'[s] = close[s]
    BY <1>5, <1>t, CloseMoves DEF Commit, ClosePCs
  <2> QED
    BY <1>5, <1>o, <2>2, <2>3 DEF Commit, MarginMoves
<1>6. CASE Unlock(t, k)
  <2>1. AtStake(t) /\ turn[t].state = "CLOSED" /\ \A j \in Callers : Owns(t, j) => j = k
    BY <1>6, <1>i DEF Unlock, AtStake, TurnInv, OwnedIsClosed, OneOwner, Owns, Owning
  <2>2. play[t] = "done"
    BY <1>i, <2>1 DEF StoredIsDone
  <2>3. /\ OthersStay(t, k) /\ \A s \in Turns \ {t} : close'[s] = close[s]
        /\ close'[t][k].pc = "pay"
    BY <1>6, CloseMoves DEF Unlock, ClosePCs
  <2>4. \A j \in Callers : close'[t][j].pc \notin {"unlock", "cancel"}
    BY <2>1, <2>3 DEF OthersStay, Owns, Owning
  <2>5. turn' = turn /\ play' = play
    BY <1>6 DEF Unlock
  <2>6. ~AtStake(t)'
    BY <2>1, <2>2, <2>4, <2>5 DEF AtStake
  <2> QED
    BY <1>6, <1>o, <2>1, <2>3, <2>5, <2>6 DEF Unlock, MarginMoves
<1>7. CASE UnlockRefused(t, k)
  <2>1. AtStake(t)
    BY <1>7 DEF UnlockRefused, AtStake
  <2>2. \A s \in Turns \ {t} : close'[s] = close[s]
    BY <1>7, CloseMoves DEF UnlockRefused, ClosePCs
  <2> QED
    BY <1>7, <1>o, <2>1, <2>2 DEF UnlockRefused, MarginMoves
<1>8. CASE Pay(t, k)
  <2>1. /\ OthersStay(t, k) /\ \A s \in Turns \ {t} : close'[s] = close[s]
        /\ close'[t][k].pc = "finish"
    BY <1>8, CloseMoves DEF Pay, ClosePCs
  <2> QED
    BY <1>8, <1>q, <2>1 DEF Pay, MarginMoves
<1>9. CASE PayRefused(t, k)
  BY <1>9, <1>q, CloseMoves DEF PayRefused, ClosePCs, MarginMoves
<1>10. CASE Undo(t, k)
  <2>1. \A s \in Turns \ {t} : close'[s] = close[s]
    BY <1>10, CloseMoves DEF Undo, ClosePCs
  <2> QED
    BY <1>10, <1>o, <2>1 DEF Undo, MarginMoves
<1>11. CASE Cancel(t, k)
  <2>1. AtStake(t)
    BY <1>11 DEF Cancel, AtStake
  <2>2. \A s \in Turns \ {t} : turn'[s] = turn[s] /\ close'[s] = close[s]
    BY <1>11, <1>t, CloseMoves DEF Cancel
  <2> QED
    BY <1>11, <1>o, <2>1, <2>2 DEF Cancel, MarginMoves
<1>12. CASE Finish(t, k)
  BY <1>12, <1>q, CloseMoves DEF Finish, MarginMoves
<1>13. CASE (FinishFails(t, k) \/ CloseFails(t, k)) /\ ~ProcessDies
  <2>1. Return(t, k) /\ UNCHANGED <<turn, play, wallet>>
    BY <1>13 DEF FinishFails, CloseFails, Throws
  <2> QED
    BY <1>q, <2>1, CloseMoves DEF MarginMoves
<1> QED
  BY <1>d, <1>1, <1>2, <1>3, <1>4, <1>5, <1>6, <1>7, <1>8, <1>9, <1>10, <1>11, <1>12, <1>13
     DEF CloseStep

(* A stored turn's request has ended, and only Commit records a result. *)
LEMMA DocsFollow ==
    ASSUME TypeOK, PayoutInv, StakeInv, [Next]_vars, NEW s \in Turns
    PROVE  StoredIsDone(s)' /\ WinPays(s)'
<1>t. /\ turn \in [Turns -> TurnDoc] /\ play \in [Turns -> PlayPCs]
      /\ close \in [Turns -> [Callers -> CloseRun]]
  BY DEF TypeOK, TurnOK, PlayOK, CloseOK
<1>i. StoredIsDone(s) /\ WinPays(s) /\ StreakCounted(s)
  BY DEF StakeInv, PayoutInv, TurnInv
<1>d. play[s] = "done" => play'[s] = "done"
  <2>1. ASSUME NEW t \in Turns, PlayStep(t), play[s] = "done"
        PROVE  play'[s] = "done"
    BY <1>t, <2>1 DEF PlayStep, PlayCheck, PlayLock, PlayLockRefused, PlayPrice, PlayCreate,
                      PlayFails, PlayAbort, PlayAbortFails, PlayTo
  <2>2. ASSUME NEW t \in Turns, NEW k \in Callers, CloseStep(t, k)
        PROVE  play' = play \/ ProcessDies
    BY <2>2 DEF CloseStep, Find, Price, Streak, Commit, Unlock, UnlockRefused, Pay, PayRefused,
                Undo, Cancel, Finish, FinishFails, CloseFails, Throws, playVars
  <2>3. ProcessDies /\ play[s] = "done" => play'[s] = "done"
    BY DEF ProcessDies
  <2> QED
    BY <2>1, <2>2, <2>3 DEF Next, Fire, Poll, FeedReady, Tick, Crash, Boot, vars, playVars
<1>p. ASSUME NEW t \in Turns, PlayStep(t), turn'[s] # turn[s]
      PROVE  turn'[s].state # "CLOSED"
  <2>1. PlayPrice(s) \/ PlayCreate(s)
    BY <1>t, <1>p DEF PlayStep, PlayCheck, PlayLock, PlayLockRefused, PlayPrice, PlayCreate,
                      PlayFails, PlayAbort, PlayAbortFails, turnVars
  <2>2. StoredFirst(s)
    BY DEF PayoutInv, TurnInv
  <2> QED
    BY <1>t, <2>1, <2>2 DEF PlayPrice, PlayCreate, StoredFirst, TurnDoc
<1>c. ASSUME NEW t \in Turns, NEW k \in Callers, CloseStep(t, k), turn'[s] # turn[s]
      PROVE  WinPays(s)'
  <2>1. (Commit(s, k) /\ Claimable(s)) \/ Cancel(s, k)
    BY <1>t, <1>c DEF CloseStep, Find, Price, Streak, Commit, Unlock, UnlockRefused, Pay, PayRefused,
                      Undo, Cancel, Finish, FinishFails, CloseFails, turnVars
  <2>2. CASE Commit(s, k) /\ Claimable(s)
    <3> DEFINE run == close[s][k]
    <3>1. turn'[s] = [turn[s] EXCEPT !.state = "CLOSED", !.result = run.result,
                                     !.winStreak = run.winStreak,
                                     !.profit = Profit(run.result, run.winStreak)]
      BY <1>t, <2>2 DEF Commit
    <3>2. run.result = "WIN" => run.winStreak \in 1..MAX_WIN_STREAK
      BY <1>i, <2>2 DEF Commit, StreakCounted
    <3>3. /\ turn'[s].result = run.result /\ turn'[s].winStreak = run.winStreak
          /\ turn'[s].profit = Profit(run.result, run.winStreak)
      BY <1>t, <3>1 DEF TurnDoc
    <3> QED
      BY <3>2, <3>3 DEF WinPays
  <2>3. CASE Cancel(s, k)
    <3>1. turn'[s].state = "CANCELED"
      BY <1>t, <2>3 DEF Cancel, TurnDoc
    <3> QED
      BY <3>1 DEF WinPays
  <2> QED
    BY <2>1, <2>2, <2>3
<1>1. WinPays(s)'
  <2>1. CASE turn'[s] = turn[s]
    BY <1>i, <2>1 DEF WinPays
  <2>2. CASE \E t \in Turns : PlayStep(t) /\ turn'[s] # turn[s]
    BY <1>p, <2>2 DEF WinPays
  <2>3. CASE \E t \in Turns, k \in Callers : CloseStep(t, k) /\ turn'[s] # turn[s]
    BY <1>c, <2>3
  <2> QED
    BY <2>1, <2>2, <2>3 DEF Next, Fire, Poll, FeedReady, Tick, Crash, Boot, vars, turnVars
<1>2. StoredIsDone(s)'
  <2>1. CASE turn'[s] = turn[s]
    BY <1>d, <1>i, <2>1 DEF StoredIsDone
  <2>2. CASE turn'[s] # turn[s]
    <3>1. \/ turn'[s].state = "NONE"
          \/ PlayCreate(s)
          \/ turn[s].state # "NONE"
      BY <2>2, WhoWritesTurns
    <3>2. PlayCreate(s) => play'[s] = "done"
      BY <1>t DEF PlayCreate, PlayTo
    <3> QED
      BY <1>d, <1>i, <3>1, <3>2 DEF StoredIsDone
  <2> QED
    BY <2>1, <2>2
<1> QED
  BY <1>1, <1>2

LEMMA NextStake ==
    ASSUME TypeOK, PayoutInv, StakeInv, [Next]_vars
    PROVE  StakeInv'
<1>t. TypeOK'
  BY NextTyped
<1>c. close \in [Turns -> [Callers -> CloseRun]]
  BY DEF TypeOK, CloseOK
<1>1. ASSUME NEW t \in Turns, MarginMoves(t), NEW u \in Users
      PROVE  Backed(u)'
  BY <1>1, <1>t, OneTurnMoves DEF StakeInv
(* Everything else leaves the wallet alone and puts nothing at stake. *)
<1>2. ASSUME wallet' = wallet, \A s \in Turns : AtStake(s)' => AtStake(s), NEW u \in Users
      PROVE  Backed(u)'
  <2>1. StakesHeld(u)' \subseteq StakesHeld(u)
    BY <1>2 DEF StakesHeld
  <2>2. wallet[u].locked \in Int /\ wallet'[u].locked = wallet[u].locked
    BY <1>2 DEF TypeOK, MoneyOK, Account
  <2> QED
    BY <2>1, <2>2, BackedStep DEF StakeInv
<1>3. ASSUME UNCHANGED <<turn, play>>,
             \A s \in Turns : \A j \in Callers :
                 close'[s][j] = close[s][j] \/ close'[s][j].pc \in {"idle", "find"}
      PROVE  \A s \in Turns : AtStake(s)' => AtStake(s)
  BY <1>3 DEF AtStake
<1>4. ASSUME NEW t \in Turns, NEW k \in Callers, CloseTo(t, k, "find")
      PROVE  \A s \in Turns : \A j \in Callers :
                 close'[s][j] = close[s][j] \/ close'[s][j].pc \in {"idle", "find"}
  BY <1>c, <1>4 DEF CloseTo, CloseRun
<1>5. ASSUME NEW u \in Users PROVE Backed(u)'
  <2>1. CASE \E t \in Turns : PlayStep(t)
    BY <1>1, <2>1, PlayMovesMargin
  <2>2. CASE \E t \in Turns, k \in Callers : CloseStep(t, k)
    BY <1>1, <2>2, CloseMovesMargin
  <2>3. CASE \E t \in Turns : Fire(t)
    BY <1>2, <1>3, <1>4, <2>3 DEF Fire, Callers, playVars, turnVars, moneyVars
  <2>4. CASE \E t \in Turns, k \in Callers : Poll(t, k)
    BY <1>2, <1>3, <1>4, <2>4 DEF Poll, playVars, turnVars, moneyVars
  <2>5. CASE FeedReady \/ Tick \/ UNCHANGED vars
    BY <1>2, <1>3, <2>5 DEF FeedReady, Tick, vars, playVars, turnVars, moneyVars
  <2>6. CASE Crash
    BY <1>2, <2>6, DeathMovesNoMargin DEF Crash, turnVars, moneyVars
  <2>7. CASE Boot
    <3>1. \A s \in Turns : \A j \in Callers : close'[s][j].pc \in {"idle", "find"}
      BY <2>7 DEF Boot, Idle
    <3> QED
      BY <1>2, <1>3, <2>7, <3>1 DEF Boot, playVars, turnVars, moneyVars
  <2> QED
    BY <2>1, <2>2, <2>3, <2>4, <2>5, <2>6, <2>7 DEF Next
<1> QED
  BY <1>5, DocsFollow DEF StakeInv

LEMMA StakeHolds == Spec => [](TypeOK /\ PayoutInv /\ StakeInv)
<1>1. Init => StakeInv
  BY InitStake
<1>2. TypeOK /\ PayoutInv /\ StakeInv /\ [Next]_vars => StakeInv'
  BY NextStake
<1> QED
  BY <1>1, <1>2, PayoutHolds, PTL DEF Spec

-----------------------------------------------------------------------------
(* However many turns a player has open or half closed, and whatever failed *)
(* or was restarted, the margins of his open turns are locked in his wallet.*)
THEOREM OpenMarginsStayLocked == Spec => []OpenTurnsBacked
<1>1. ASSUME TypeOK, StakeInv PROVE OpenTurnsBacked
  <2> SUFFICES ASSUME NEW u \in Users
               PROVE  wallet[u].locked >= bet * Cardinality(OpenTurnsOf(u))
    BY DEF OpenTurnsBacked
  <2>1. IsFiniteSet(StakesHeld(u)) /\ wallet[u].locked >= bet * Cardinality(StakesHeld(u))
    BY <1>1 DEF StakeInv, Backed
  <2>2. OpenTurnsOf(u) \subseteq StakesHeld(u)
    BY DEF OpenTurnsOf, StakesHeld, AtStake
  <2>3. /\ Cardinality(OpenTurnsOf(u)) \in Nat /\ Cardinality(StakesHeld(u)) \in Nat
        /\ Cardinality(OpenTurnsOf(u)) <= Cardinality(StakesHeld(u))
    BY <2>1, <2>2, FS_Subset, FS_CardinalityType
  <2>4. wallet[u].locked \in Int
    BY <1>1 DEF TypeOK, MoneyOK, Account
  <2> QED
    BY <2>1, <2>3, <2>4 DEF bet
<1> QED
  BY <1>1, StakeHolds, PTL

(* A closed win pays the rate of its streak, and pays something: the empty  *)
(* streak's zero rate is never a winner's.                                  *)
THEOREM WinsPay == Spec => []WinnerIsPaid
<1>1. ASSUME StakeInv PROVE WinnerIsPaid
  <2> SUFFICES ASSUME NEW t \in Turns, turn[t].result = "WIN", turn[t].state = "CLOSED"
               PROVE  /\ turn[t].profit = bet * WIN_STREAK_RATES[turn[t].winStreak + 1]
                      /\ turn[t].profit > 0
    BY DEF WinnerIsPaid
  <2> DEFINE n == turn[t].winStreak
  <2>1. n \in 1..MAX_WIN_STREAK /\ turn[t].profit = Profit("WIN", n)
    BY <1>1 DEF StakeInv, WinPays
  <2> HIDE DEF n
  <2>2. WinStreakRate(n) \in Nat \ {0}
    BY <2>1, RateIsPositive
  <2>3. WinStreakRate(n) = WIN_STREAK_RATES[n + 1]
    BY <2>1, MaxStreak DEF WinStreakRate
  <2>4. turn[t].profit = bet * WinStreakRate(n)
    BY <2>1 DEF Profit
  <2> QED
    BY <2>2, <2>3, <2>4 DEF bet, n
<1> QED
  BY <1>1, StakeHolds, PTL
=============================================================================

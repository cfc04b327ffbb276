---------------------------- MODULE PvPSettlement ---------------------------
(***************************************************************************)
(* The settlement of an accepted challenge: the one worker of the          *)
(* PVP_EVENT queue runs playPvP, four wallet calls and an update of the    *)
(* room, and on any error rolls back the calls made so far, logs and lets  *)
(* the job complete.  That BullMQ marks the job as ended, after playPvP    *)
(* has notified the players and returned, is a step of its own.            *)
(***************************************************************************)
EXTENDS PvPState

(* determinePvPResult: the acceptor has the other side and a price that    *)
(* did not move.                                                           *)
WinnerOf(a, closePrice) ==
    LET openPrice == rooms[a].openPrice IN
    IF \/ TargetOf[ChallengeOf[a]] = "PUMP" /\ closePrice > openPrice
       \/ TargetOf[ChallengeOf[a]] = "DUMP" /\ closePrice < openPrice
    THEN Creator(a) ELSE AcceptorOf[a]

LoserOf(a, winner) == IF winner = Creator(a) THEN AcceptorOf[a] ELSE Creator(a)

(* The calls in their order: free the winner's margin, give him the prize, *)
(* charge the loser, free his margin.                                      *)
Calls(a, winner) ==
    LET loser == LoserOf(a, winner) IN
    << [user |-> winner, kind |-> "locked", amount |-> -amount],
       [user |-> winner, kind |-> "balance", amount |-> totalPrize - amount],
       [user |-> loser, kind |-> "balance", amount |-> -amount],
       [user |-> loser, kind |-> "locked", amount |-> -amount] >>

MayAccept(call) ==
    IF call.kind = "locked" THEN CanChangeLocked(wallet[call.user], call.amount)
                            ELSE CanChangeBalance(wallet[call.user], call.amount)

MustAccept(call) ==
    IF call.kind = "locked" THEN CanChangeLocked(wallet[call.user], call.amount)
                            ELSE MustChangeBalance(wallet[call.user], call.amount)

Changed(account, kind, delta) ==
    IF kind = "locked" THEN ChangeLocked(account, delta) ELSE ChangeBalance(account, delta)

(* rollbackWallet(txns): the accounts without the first n of these calls. *)
WithoutCalls(calls, n) ==
    LET back[i \in 0..n] ==
            IF i = 0 THEN wallet
            ELSE [back[i - 1] EXCEPT ![calls[i].user] =
                     Changed(@, calls[i].kind, -calls[i].amount)]
    IN back[n]
(* Mutant: the last call is forgotten. *)
RolledBackButLast(calls, n) == WithoutCalls(calls, n - 1)
RolledBack(calls, n) == WithoutCalls(calls, n)

-----------------------------------------------------------------------------
Settling(pc) == settle.pc = pc
SettleTo(pc) == settle' = [settle EXCEPT !.pc = pc]

(* All that playPvP does to the state is done ("broken": it threw).  It may *)
(* still notify the players, whose error it swallows, and its job is active.*)
Over(pc) == settle' = [AtRest EXCEPT !.pc = pc, !.room = settle.room]

SettleStart(a) ==
    /\ Settling("idle") /\ jobs[a] = "waiting"
    /\ jobs' = [jobs EXCEPT ![a] = "active"]
    /\ settle' = [AtRest EXCEPT !.pc = "price", !.room = a]
    /\ UNCHANGED <<pvpKeys, createVars, acceptVars, cancelVars, rooms, stalled, moved, pointPvP,
                   wallet, faults, crashes>>

SettlePrice ==
    /\ Settling("price")
    /\ \E p \in Prices :
          settle' = [settle EXCEPT !.pc = "call", !.winner = WinnerOf(settle.room, p)]
    /\ UNCHANGED <<pvpKeys, createVars, acceptVars, cancelVars, rooms, jobs, stalled, moved,
                   pointPvP, wallet, faults, crashes>>

(* addPointPvP is not waited for and swallows its error. *)
AddPointPvP ==
    \/ /\ pointPvP' = [pointPvP EXCEPT ![settle.winner] = @ + totalPrize]
       /\ UNCHANGED faults
    \/ Fault /\ UNCHANGED pointPvP

SettleCall ==
    LET a == settle.room
        n == settle.calls + 1
        call == Calls(a, settle.winner)[n]
    IN
    /\ Settling("call")
    /\ MayAccept(call)
    /\ wallet' = [wallet EXCEPT ![call.user] = Changed(@, call.kind, call.amount)]
    /\ moved' = [moved EXCEPT ![a][settle.winner][n] = @ + 1]
    /\ settle' = [settle EXCEPT !.calls = n, !.pc = IF n = 4 THEN "record" ELSE "call"]
    /\ IF n = 4 THEN AddPointPvP ELSE UNCHANGED <<pointPvP, faults>>
    /\ UNCHANGED <<pvpKeys, createVars, acceptVars, cancelVars, rooms, jobs, stalled, crashes>>

SettleRecord ==
    LET a == settle.room IN
    /\ Settling("record")
    /\ rooms' = [rooms EXCEPT ![a].winner = settle.winner]
    /\ Over("over")
    /\ UNCHANGED <<pvpKeys, createVars, acceptVars, cancelVars, jobs, stalled, moved, pointPvP,
                   wallet, faults, crashes>>

(* The catch block: with nothing to undo the job is over. *)
(* Mutant: the calls made so far are forgotten. *)
CatchOnly == Over("over")
(* Mutant: what failed is tried again. *)
CatchRetries == UNCHANGED settle
Catch == IF settle.calls > 0 THEN SettleTo("undo") ELSE Over("over")

(* No price, a wallet call refused or failed, the room not updated. *)
SettleFails ==
    /\ \/ (Settling("price") \/ Settling("record")) /\ Fault
       \/ /\ Settling("call")
          /\ Refused(MustAccept(Calls(settle.room, settle.winner)[settle.calls + 1]))
    /\ Catch
    /\ UNCHANGED <<pvpKeys, createVars, acceptVars, cancelVars, rooms, jobs, stalled, moved,
                   pointPvP, wallet, crashes>>

(* Mutant: one call too many is rolled back. *)
StandsUpToNext(i) == i <= settle.calls + 1
Stands(i) == i <= settle.calls

SettleUndo ==
    LET a == settle.room
        w == settle.winner
    IN
    /\ Settling("undo")
    /\ wallet' = RolledBack(Calls(a, w), settle.calls)
    /\ moved' = [moved EXCEPT ![a][w] =
                   [i \in 1..4 |-> IF Stands(i) THEN @[i] - 1 ELSE @[i]]]
    /\ Over("over")
    /\ UNCHANGED <<pvpKeys, createVars, acceptVars, cancelVars, rooms, jobs, stalled, pointPvP,
                   faults, crashes>>

(* The error leaves playPvP, and BullMQ will not try again. *)
SettleUndoFails ==
    /\ Settling("undo")
    /\ Fault
    /\ Over("broken")
    /\ UNCHANGED <<pvpKeys, createVars, acceptVars, cancelVars, rooms, jobs, stalled, moved,
                   pointPvP, wallet, crashes>>

(* BullMQ marks the job; until then a crash runs the whole job again. *)
SettleEnds ==
    /\ settle.pc \in {"over", "broken"}
    /\ jobs' = [jobs EXCEPT ![settle.room] = IF Settling("over") THEN "completed" ELSE "failed"]
    /\ settle' = AtRest
    /\ UNCHANGED <<pvpKeys, createVars, acceptVars, cancelVars, rooms, stalled, moved, pointPvP,
                   wallet, faults, crashes>>

SettleStep ==
    \/ SettlePrice \/ SettleCall \/ SettleRecord \/ SettleFails \/ SettleUndo
    \/ SettleUndoFails \/ SettleEnds
=============================================================================

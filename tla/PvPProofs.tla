------------------------------ MODULE PvPProofs ------------------------------
(***************************************************************************)
(* What holds of any number of players, challenges and acceptances, over   *)
(* any prices, failed calls and crashes.                                   *)
(*                                                                         *)
(* The chat's queue has one worker, so one acceptance of the chat at most  *)
(* is under way (OneServed), and a key that is gone does not come back     *)
(* (KeysOnce): that makes the rooms and the refunds unique.  What the      *)
(* worker of the settlements holds tells which of its calls stand (Ledger),*)
(* and whose margin is still locked (Locked).                              *)
(*                                                                         *)
(* The payments a rollback would take back are counted out of the accounts *)
(* (Without): so read, the four calls of a settlement are one step or none *)
(* of RoomLedger, and the sum of its balances changes by the tax.          *)
(***************************************************************************)
EXTENDS PvP, Sums

(* The settling worker's variables are those of the job it runs. *)
WorkerOK ==
    /\ settle.pc = "idle" => settle = AtRest
    /\ settle.pc # "idle" => settle.room \in Accepts
    /\ settle.pc = "price" => settle.winner = NoOne /\ settle.calls = 0
    /\ settle.pc \in {"call", "record", "undo"} =>
          settle.winner \in {Creator(settle.room), AcceptorOf[settle.room]}
    /\ settle.pc \in {"over", "broken"} => settle.winner = NoOne /\ settle.calls = 0
    /\ settle.pc = "call" => settle.calls < 4
    /\ settle.pc = "record" => settle.calls = 4
    /\ settle.pc = "undo" => settle.calls > 0
    /\ \A a \in Accepts : jobs[a] = "active" <=> settle.pc # "idle" /\ settle.room = a

(* The worker has done with the room, but its job has not ended yet. *)
OverIn(a, pcs) == settle.room = a /\ settle.pc \in pcs

(* A job is made once, when its acceptance ends, though the queue may run   *)
(* that again; and only where a job ran to its end, or a crash cut it, has  *)
(* the room a winner.                                                       *)
JobOnce(a) ==
    /\ jobs[a] # "none" =>
          accept[a] \in {"done", "queued", "get", "notFound", "failed"} /\ rooms[a].saved
    /\ jobs[a] = "none" => <<a, "settle">> \notin stalled
    /\ rooms[a].winner # NoOne =>
          jobs[a] = "completed" \/ <<a, "settle">> \in stalled \/ OverIn(a, {"over"})
    /\ rooms[a].winner # NoOne => jobs[a] # "none"
    /\ accept[a] \in {"enqueue", "done"} => rooms[a].saved
    /\ accept[a] \in {"lock", "del", "save", "enqueue"} \/ rooms[a].saved =>
          AcceptorOf[a] # Creator(a)
JobsOnce == \A a \in Accepts : JobOnce(a)

(* The wallet call i of the present run for u is counted in moved. *)
Own(a, u, i) ==
    IF jobs[a] = "active" /\ u = settle.winner /\ i <= settle.calls THEN 1 ELSE 0

(* Without it, a job that has not ended has what a run cut by a crash left, *)
(* and one that is over counts no call twice.                               *)
LedgerOf(a) ==
    /\ jobs[a] \in {"none", "waiting", "active"} /\ ~OverIn(a, {"over", "broken"}) =>
          \A u \in Users, i \in 1..4 :
              moved[a][u][i] - Own(a, u, i) \in 0..(IF <<a, "settle">> \in stalled THEN 1 ELSE 0)
    /\ OverIn(a, {"over", "broken"}) /\ <<a, "settle">> \notin stalled =>
          \A u \in Users, i \in 1..4 : moved[a][u][i] \in 0..1
Ledger == \A a \in Accepts : LedgerOf(a)

(* SettledAsRecorded, from the last step of the job. *)
Settled(a) ==
    (jobs[a] = "completed" \/ OverIn(a, {"over"})) /\ <<a, "settle">> \notin stalled =>
        \A u \in Users, i \in 1..4 : moved[a][u][i] = IF u = rooms[a].winner THEN 1 ELSE 0

IsChat(a) == TypeOf[ChallengeOf[a]] = "CHAT"
Answered == {"done", "notFound", "failed"}

(* The queue holds the chat's acceptances that wait, and first the one that *)
(* is under way or answered.                                                *)
OneServed ==
    /\ \A a \in Accepts : accept[a] \in {"tapped", "queued"} => IsChat(a)
    /\ \A i \in DOMAIN botQueue :
          IsChat(botQueue[i]) /\ accept[botQueue[i]] \in InFlight \cup Answered \cup {"queued"}
    /\ \A i, j \in DOMAIN botQueue : botQueue[i] = botQueue[j] => i = j
    /\ \A a \in Accepts : IsChat(a) /\ accept[a] \in InFlight =>
          botQueue # <<>> /\ botQueue[1] = a

(* A challenge is stored once; what took its key away has no second go.    *)
KeysOnce ==
    \A c \in Challenges :
        /\ c \in pvpKeys => create[c] = "done" /\ refunds[c] = 0
        /\ cancel[c] \in {"del", "refund"} => create[c] = "done" /\ refunds[c] = 0
        /\ cancel[c] = "refund" => c \notin pvpKeys
        /\ refunds[c] > 0 => create[c] = "done"

RoomsOnce ==
    /\ \A a \in Accepts :
          /\ accept[a] \in {"lock", "del", "save", "enqueue", "done"} \/ rooms[a].saved =>
                create[ChallengeOf[a]] = "done"
          /\ accept[a] \in {"save", "enqueue"} \/ rooms[a].saved => ChallengeOf[a] \notin pvpKeys
    /\ \A a, b \in Accepts :
          rooms[b].saved /\ IsChat(a) /\ ChallengeOf[b] = ChallengeOf[a] =>
              /\ accept[a] \notin {"lock", "del", "save"}
              /\ accept[a] = "enqueue" \/ rooms[a].saved => a = b

(* The winner's margin is freed by the first call, the loser's by the last; *)
(* where a rollback failed or a crash cut a run, nothing is said.           *)
Freed(a, u) ==
    \/ jobs[a] = "active" /\ settle.calls > 0 /\ (settle.winner = u \/ settle.calls = 4)
    \/ rooms[a].winner # NoOne
    \/ jobs[a] = "failed" \/ OverIn(a, {"broken"})

CreatorsHeld(u) ==
    {c \in Challenges :
        /\ CreatorOf[c] = u /\ create[c] \in {"set", "done"} /\ refunds[c] = 0
        /\ \A a \in RoomsOf(c) : ~Freed(a, u)}
AcceptorsHeld(u) ==
    {a \in Accepts :
        AcceptorOf[a] = u /\ (accept[a] \in {"del", "save"} \/ rooms[a].saved) /\ ~Freed(a, u)}

OneRelease ==
    /\ \A a \in Accepts : rooms[a].saved =>
          refunds[ChallengeOf[a]] = 0
          /\ \A b \in Accepts : rooms[b].saved /\ ChallengeOf[b] = ChallengeOf[a] => a = b
    /\ \A a \in Accepts : <<a, "settle">> \notin stalled

Held(u) ==
    /\ IsFiniteSet(CreatorsHeld(u)) /\ IsFiniteSet(AcceptorsHeld(u))
    /\ OneRelease => wallet[u].locked >=
          amount * (Cardinality(CreatorsHeld(u)) + Cardinality(AcceptorsHeld(u)))
Locked == IsFiniteSet({a \in Accepts : rooms[a].saved}) /\ \A u \in Users : Held(u)

IInv ==
    /\ TypeOK /\ WorkerOK /\ JobsOnce /\ Ledger /\ (\A a \in Accepts : Settled(a))
    /\ OneServed /\ KeysOnce /\ RoomsOnce /\ RefundedOnce /\ Locked

-----------------------------------------------------------------------------
(* A call of the wallet service leaves an account of integers. *)
LEMMA CallsKeepAccounts ==
    ASSUME NEW a \in Account, NEW delta \in Int
    PROVE  /\ ChangeLocked(a, delta) \in Account
           /\ ChangeBalance(a, delta) \in Account
           /\ ChangeLocked(a, delta).locked = a.locked + delta
           /\ ChangeBalance(a, delta).locked = a.locked
           /\ ChangeLocked(a, delta).balance = a.balance
           /\ ChangeBalance(a, delta).balance = a.balance + delta
BY DEF Account, ChangeLocked, ChangeBalance

LEMMA Amounts == amount = 10 /\ totalPrize = 19
BY DEF amount, totalPrize, totalAmount, tax

LEMMA Minus == \A m \in Int : -m = 0 - m
OBVIOUS

(* A wallet call changes one part of one account. *)
LEMMA AccountChanged ==
    ASSUME NEW f \in [Users -> Account], NEW v \in Users, NEW d \in Int, NEW g,
           \/ g = [f EXCEPT ![v] = ChangeLocked(@, d)]
           \/ g = [f EXCEPT ![v] = ChangeBalance(@, d)]
    PROVE  /\ g \in [Users -> Account]
           /\ \A u \in Users : u # v => g[u] = f[u]
           /\ g = [f EXCEPT ![v] = ChangeLocked(@, d)] =>
                 g[v].locked = f[v].locked + d /\ g[v].balance = f[v].balance
           /\ g = [f EXCEPT ![v] = ChangeBalance(@, d)] =>
                 g[v].locked = f[v].locked /\ g[v].balance = f[v].balance + d
<1>1. f[v] \in Account
  OBVIOUS
<1>2. /\ ChangeLocked(f[v], d) \in Account /\ ChangeBalance(f[v], d) \in Account
      /\ ChangeLocked(f[v], d).locked = f[v].locked + d
      /\ ChangeBalance(f[v], d).locked = f[v].locked
      /\ ChangeLocked(f[v], d).balance = f[v].balance
      /\ ChangeBalance(f[v], d).balance = f[v].balance + d
  BY <1>1, CallsKeepAccounts
<1> QED
  BY <1>2

(* The four calls of a settlement: the winner's margin and prize, then the   *)
(* loser's loss and margin.                                                  *)
LEMMA CallsAre ==
    ASSUME NEW a \in Accepts, NEW w \in {Creator(a), AcceptorOf[a]}, NEW n \in 1..4
    PROVE  /\ w \in Users /\ LoserOf(a, w) \in Users
           /\ Creator(a) # AcceptorOf[a] => LoserOf(a, w) # w
           /\ Calls(a, w)[n].user = IF n \in 1..2 THEN w ELSE LoserOf(a, w)
           /\ Calls(a, w)[n].kind = IF n \in {1, 4} THEN "locked" ELSE "balance"
           /\ Calls(a, w)[n].amount = IF n = 2 THEN 9 ELSE -10
<1> USE RequestsAssumption, Amounts
<1>1. w \in Users /\ LoserOf(a, w) \in Users
  BY DEF Creator, LoserOf
<1>2. Creator(a) # AcceptorOf[a] => LoserOf(a, w) # w
  BY DEF LoserOf
<1>3. n = 1 \/ n = 2 \/ n = 3 \/ n = 4
  OBVIOUS
<1>4. CASE n = 1
  BY <1>1, <1>2, <1>4 DEF Calls
<1>5. CASE n = 2
  BY <1>1, <1>2, <1>5 DEF Calls
<1>6. CASE n = 3
  BY <1>1, <1>2, <1>6 DEF Calls
<1>7. CASE n = 4
  BY <1>1, <1>2, <1>7 DEF Calls
<1> QED
  BY <1>3, <1>4, <1>5, <1>6, <1>7

(* The rollback undoes the calls one by one: freed margins are locked again,*)
(* the prize is taken back and the loss returned.                           *)
LEMMA RolledBackIs ==
    ASSUME TypeOK, NEW a \in Accepts, NEW w \in {Creator(a), AcceptorOf[a]}, NEW n \in 1..4,
           Creator(a) # AcceptorOf[a]
    PROVE  /\ RolledBack(Calls(a, w), n) \in [Users -> Account]
           /\ \A u \in Users : RolledBack(Calls(a, w), n)[u].locked =
                 IF u = w \/ (u = LoserOf(a, w) /\ n = 4) THEN wallet[u].locked + amount
                                                         ELSE wallet[u].locked
           /\ \A u \in Users : RolledBack(Calls(a, w), n)[u].balance =
                 IF u = w /\ n >= 2 THEN wallet[u].balance - 9
                 ELSE IF u = LoserOf(a, w) /\ n >= 3 THEN wallet[u].balance + 10
                                                    ELSE wallet[u].balance
<1> DEFINE calls == Calls(a, w)
           Undo(f, i) == [f EXCEPT ![calls[i].user] =
                            Changed(@, calls[i].kind, -calls[i].amount)]
           w1 == Undo(wallet, 1)
           w2 == Undo(w1, 2)
           w3 == Undo(w2, 3)
           w4 == Undo(w3, 4)
           Is(f) == f = [i \in 0..n |-> IF i = 0 THEN wallet ELSE Undo(f[i - 1], i)]
           back == CHOOSE f : Is(f)
           unrolled == [i \in 0..n |-> IF i = 0 THEN wallet ELSE IF i = 1 THEN w1
                                       ELSE IF i = 2 THEN w2 ELSE IF i = 3 THEN w3 ELSE w4]
<1>1. Is(back)
  <2> HIDE DEF Undo
  <2>1. \A i \in 0..n : (IF i = 0 THEN wallet ELSE Undo(unrolled[i - 1], i)) = unrolled[i]
    <3> TAKE i \in 0..n
    <3>1. i \in 1..4 => i - 1 \in 0..n
      OBVIOUS
    <3>2. i = 0 \/ i = 1 \/ i = 2 \/ i = 3 \/ i = 4
      OBVIOUS
    <3> QED
      BY <3>1, <3>2
  <2>2. Is(unrolled)
    BY <2>1
  <2> HIDE DEF Is
  <2> QED
    BY <2>2
<1>2. RolledBack(calls, n) = back[n]
  BY DEF RolledBack, WithoutCalls
<1>3. back[0] = wallet /\ \A i \in 1..n : back[i] = Undo(back[i - 1], i)
  <2> HIDE DEF back, Undo
  <2> QED
    BY <1>1
<1> DEFINE l == LoserOf(a, w)
<1>4. w \in Users /\ l \in Users /\ l # w
  BY CallsAre
<1>5. \A i \in 1..4 : /\ calls[i].user = IF i \in 1..2 THEN w ELSE l
                      /\ calls[i].kind = IF i \in {1, 4} THEN "locked" ELSE "balance"
                      /\ calls[i].amount = IF i = 2 THEN 9 ELSE -10
  BY CallsAre
<1> HIDE DEF back, calls, l, Undo
<1>6. wallet \in [Users -> Account]
  BY DEF TypeOK
<1>7. ASSUME NEW f \in [Users -> Account]
      PROVE  /\ Undo(f, 1) \in [Users -> Account]
             /\ \A u \in Users : Undo(f, 1)[u].locked
                   = IF u = w THEN f[u].locked + 10 ELSE f[u].locked
             /\ \A u \in Users : Undo(f, 1)[u].balance = f[u].balance
  <2>1. Undo(f, 1) = [f EXCEPT ![w] = ChangeLocked(@, 10)]
    <3>1. calls[1].user = w /\ calls[1].kind = "locked"
          /\ calls[1].amount \in Int /\ 0 - calls[1].amount = 10
      BY <1>5
    <3>2. -calls[1].amount = 10
      BY <3>1, Minus
    <3> QED
      BY <3>1, <3>2 DEF Changed, Undo
  <2> QED
    BY <1>4, <2>1, AccountChanged
<1>8. ASSUME NEW f \in [Users -> Account], NEW i \in 2..3
      PROVE  /\ Undo(f, i) \in [Users -> Account]
             /\ \A u \in Users : Undo(f, i)[u].locked = f[u].locked
             /\ \A u \in Users : Undo(f, i)[u].balance =
                   IF i = 2 /\ u = w THEN f[u].balance - 9
                   ELSE IF i = 3 /\ u = l THEN f[u].balance + 10 ELSE f[u].balance
  <2>1. PICK d \in {-9, 10}, v \in {w, l} :
            /\ Undo(f, i) = [f EXCEPT ![v] = ChangeBalance(@, d)]
            /\ i = 2 => d = -9 /\ v = w
            /\ i = 3 => d = 10 /\ v = l
    <3>1. calls[i].kind = "balance"
          /\ (i = 2 => calls[i].user = w /\ calls[i].amount = 9)
          /\ (i = 3 => calls[i].user = l /\ calls[i].amount = -10)
      BY <1>5
    <3>2. i = 2 => -calls[i].amount = -9
      BY <3>1
    <3>3. i = 3 => -calls[i].amount = 10
      BY <3>1
    <3>4. i = 2 \/ i = 3
      OBVIOUS
    <3> QED
      BY <3>1, <3>2, <3>3, <3>4 DEF Changed, Undo
  <2>2. f[v].balance \in Int /\ v \in Users
    BY <1>4 DEF Account
  <2> HIDE DEF Undo
  <2>3. /\ Undo(f, i) \in [Users -> Account]
        /\ \A u \in Users : u # v => Undo(f, i)[u] = f[u]
        /\ Undo(f, i)[v].locked = f[v].locked
        /\ Undo(f, i)[v].balance = f[v].balance + d
    BY <2>1, <2>2, AccountChanged
  <2> QED
    BY <1>4, <2>1, <2>2, <2>3
<1>9. ASSUME NEW f \in [Users -> Account]
      PROVE  /\ Undo(f, 4) \in [Users -> Account]
             /\ \A u \in Users : Undo(f, 4)[u].locked
                   = IF u = l THEN f[u].locked + 10 ELSE f[u].locked
             /\ \A u \in Users : Undo(f, 4)[u].balance = f[u].balance
  <2>1. Undo(f, 4) = [f EXCEPT ![l] = ChangeLocked(@, 10)]
    <3>1. calls[4].user = l /\ calls[4].kind = "locked"
          /\ calls[4].amount \in Int /\ 0 - calls[4].amount = 10
      BY <1>5
    <3>2. -calls[4].amount = 10
      BY <3>1, Minus
    <3> QED
      BY <3>1, <3>2 DEF Changed, Undo
  <2> QED
    BY <1>4, <2>1, AccountChanged
<1>10. back[1] = Undo(wallet, 1)
  BY <1>3
<1>11. n >= 2 => back[2] = Undo(back[1], 2)
  BY <1>3
<1>12. n >= 3 => back[3] = Undo(back[2], 3)
  BY <1>3
<1>13. n >= 4 => back[4] = Undo(back[3], 4)
  BY <1>3
<1>14. /\ back[1] \in [Users -> Account]
       /\ \A u \in Users : back[1][u].locked
             = IF u = w THEN wallet[u].locked + 10 ELSE wallet[u].locked
       /\ \A u \in Users : back[1][u].balance = wallet[u].balance
  BY <1>6, <1>7, <1>10
<1>15. n >= 2 => /\ back[2] \in [Users -> Account]
                 /\ \A u \in Users : back[2][u].locked = back[1][u].locked
                 /\ \A u \in Users : back[2][u].balance =
                       IF u = w THEN wallet[u].balance - 9 ELSE wallet[u].balance
  <2>1. /\ Undo(back[1], 2) \in [Users -> Account]
        /\ \A u \in Users : Undo(back[1], 2)[u].locked = back[1][u].locked
        /\ \A u \in Users : Undo(back[1], 2)[u].balance =
              IF u = w THEN back[1][u].balance - 9 ELSE back[1][u].balance
    BY <1>8, <1>14
  <2> QED
    BY <1>11, <1>14, <2>1
<1>16. n >= 3 => /\ back[3] \in [Users -> Account]
                 /\ \A u \in Users : back[3][u].locked = back[1][u].locked
                 /\ \A u \in Users : back[3][u].balance =
                       IF u = w THEN wallet[u].balance - 9
                       ELSE IF u = l THEN wallet[u].balance + 10 ELSE wallet[u].balance
  <2> SUFFICES ASSUME n >= 3
               PROVE  /\ back[3] \in [Users -> Account]
                      /\ \A u \in Users : back[3][u].locked = back[1][u].locked
                      /\ \A u \in Users : back[3][u].balance =
                            IF u = w THEN wallet[u].balance - 9
                            ELSE IF u = l THEN wallet[u].balance + 10 ELSE wallet[u].balance
    OBVIOUS
  <2>1. n >= 2
    OBVIOUS
  <2>2. /\ Undo(back[2], 3) \in [Users -> Account]
        /\ \A u \in Users : Undo(back[2], 3)[u].locked = back[2][u].locked
        /\ \A u \in Users : Undo(back[2], 3)[u].balance =
              IF u = l THEN back[2][u].balance + 10 ELSE back[2][u].balance
    BY <1>8, <1>15, <2>1
  <2> QED
    BY <1>12, <1>15, <2>1, <2>2, <1>4
<1>17. n = 4 => /\ back[4] \in [Users -> Account]
                /\ \A u \in Users : back[4][u].locked
                      = IF u = l THEN back[1][u].locked + 10 ELSE back[1][u].locked
                /\ \A u \in Users : back[4][u].balance = back[3][u].balance
  BY <1>9, <1>13, <1>16
<1>18. /\ back[n] \in [Users -> Account]
       /\ \A u \in Users : back[n][u].locked =
             IF u = w \/ (u = l /\ n = 4) THEN wallet[u].locked + 10 ELSE wallet[u].locked
       /\ \A u \in Users : back[n][u].balance =
             IF u = w /\ n >= 2 THEN wallet[u].balance - 9
             ELSE IF u = l /\ n >= 3 THEN wallet[u].balance + 10 ELSE wallet[u].balance
  <2>1. n = 1 \/ n = 2 \/ n = 3 \/ n = 4
    OBVIOUS
  <2> QED
    BY <1>4, <2>1, <1>14, <1>15, <1>16, <1>17
<1> QED
  BY <1>2, <1>18, Amounts DEF calls, l

-----------------------------------------------------------------------------
(* What the steps of each part leave alone. *)
LEMMA ChallengeLeaves ==
    ASSUME NEW c \in Challenges, CreateStep(c) \/ CancelStep(c) \/ GrowsStale(c)
    PROVE  UNCHANGED <<accept, botQueue, rooms, jobs, stalled, settle, moved, pointPvP, crashes>>
BY DEF CreateStep, CreateCheck, CreateLock, CreateLockRefused, CreateSet, CreateSetFails,
       CancelStep, CancelFind, CancelAgain, CancelDel, CancelRefund, CancelRefundRefused,
       CancelFails, GrowsStale, createVars, acceptVars, cancelVars, settleVars

(* An acceptance touches no settlement and no cancellation. *)
LEMMA AcceptLeaves ==
    ASSUME NEW a \in Accepts, ChatTap(a) \/ AcceptStart(a) \/ AcceptStep(a)
    PROVE  UNCHANGED <<create, stale, cancel, refunds, stalled, settle, moved, pointPvP, crashes>>
BY DEF ChatTap, AcceptStart, AcceptStep, ChatQueue, AcceptGet, AcceptLock, AcceptLockRefused,
       AcceptDel, AcceptSave, AcceptEnqueue, AcceptFails, ChatLeaves, createVars, acceptVars,
       cancelVars, settleVars

(* A settlement touches no challenge and no acceptance. *)
LEMMA SettleLeaves ==
    ASSUME (\E a \in Accepts : SettleStart(a)) \/ SettleStep
    PROVE  UNCHANGED <<create, pvpKeys, stale, accept, botQueue, cancel, refunds, stalled, crashes>>
BY DEF SettleStart, SettleStep, SettlePrice, SettleCall, SettleRecord, SettleFails, SettleUndo,
       SettleUndoFails, SettleEnds, createVars, acceptVars, cancelVars, settleVars

(* The settling worker, from its job to its end. *)
LEMMA AtRestIs ==
    /\ AtRest.pc = "idle" /\ AtRest.room = NoOne /\ AtRest.winner = NoOne /\ AtRest.calls = 0
    /\ AtRest \in SettleRun
BY DEF AtRest, SettleRun

LEMMA OverIs ==
    ASSUME TypeOK, NEW pc \in {"over", "broken"}, Over(pc)
    PROVE  /\ settle'.pc = pc /\ settle'.room = settle.room
           /\ settle'.winner = NoOne /\ settle'.calls = 0 /\ settle' \in SettleRun
<1>1. settle' = [pc |-> pc, room |-> settle.room, winner |-> NoOne, calls |-> 0]
  BY DEF Over, AtRest
<1>2. settle.room \in Accepts \cup {NoOne}
  BY DEF TypeOK, SettleRun
<1> QED
  BY <1>1, <1>2 DEF SettleRun

LEMMA OverWorker ==
    ASSUME TypeOK, WorkerOK, settle.pc # "idle", NEW pc \in {"over", "broken"}, Over(pc),
           UNCHANGED jobs
    PROVE  WorkerOK' /\ settle' \in SettleRun
           /\ jobs' \in [Accepts -> {"none", "waiting", "active", "completed", "failed"}]
<1>1. jobs \in [Accepts -> {"none", "waiting", "active", "completed", "failed"}]
  BY DEF TypeOK
<1> QED
  BY <1>1, OverIs DEF WorkerOK, Creator

(* The job the worker ends was active, and the worker is at rest. *)
LEMMA EndsIs ==
    ASSUME TypeOK, WorkerOK, SettleEnds
    PROVE  /\ settle' = AtRest
           /\ \E r \in Accepts, state \in {"completed", "failed"} :
                 /\ r = settle.room /\ jobs[r] = "active" /\ jobs' = [jobs EXCEPT ![r] = state]
                 /\ state = "completed" <=> settle.pc = "over"
                 /\ state = "failed" <=> settle.pc = "broken"
<1>1. settle.room \in Accepts /\ jobs[settle.room] = "active" /\ settle.pc \in {"over", "broken"}
  BY DEF SettleEnds, WorkerOK
<1>2. CASE settle.pc = "over"
  <2>1. settle' = AtRest /\ jobs' = [jobs EXCEPT ![settle.room] = "completed"]
    BY <1>2 DEF SettleEnds, Settling
  <2> QED
    BY <1>1, <1>2, <2>1
<1>3. CASE settle.pc = "broken"
  <2>1. settle' = AtRest /\ jobs' = [jobs EXCEPT ![settle.room] = "failed"]
    BY <1>3 DEF SettleEnds, Settling
  <2> QED
    BY <1>1, <1>3, <2>1
<1> QED
  BY <1>1, <1>2, <1>3

LEMMA EndsWorker ==
    ASSUME TypeOK, WorkerOK, SettleEnds
    PROVE  WorkerOK' /\ settle' \in SettleRun
           /\ jobs' \in [Accepts -> {"none", "waiting", "active", "completed", "failed"}]
<1>1. settle' = AtRest
  BY EndsIs
<1>2. PICK r \in Accepts, state \in {"completed", "failed"} :
         r = settle.room /\ jobs' = [jobs EXCEPT ![r] = state]
  BY EndsIs
<1>3. \A a \in Accepts : jobs'[a] # "active"
  BY <1>2 DEF WorkerOK, TypeOK
<1> QED
  BY <1>1, <1>2, <1>3, AtRestIs DEF WorkerOK, TypeOK

LEMMA WorkerStep ==
    ASSUME TypeOK, WorkerOK, (\E a \in Accepts : SettleStart(a)) \/ SettleStep
    PROVE  WorkerOK' /\ settle' \in SettleRun
           /\ jobs' \in [Accepts -> {"none", "waiting", "active", "completed", "failed"}]
<1> DEFINE Goal == WorkerOK' /\ settle' \in SettleRun
                   /\ jobs' \in [Accepts -> {"none", "waiting", "active", "completed", "failed"}]
<1> USE RequestsAssumption
<1>a. settle \in SettleRun
      /\ jobs \in [Accepts -> {"none", "waiting", "active", "completed", "failed"}]
  BY DEF TypeOK
<1>1. ASSUME NEW a \in Accepts, SettleStart(a) PROVE Goal
  <2>1. settle' = [pc |-> "price", room |-> a, winner |-> NoOne, calls |-> 0]
    BY <1>1 DEF SettleStart, AtRest
  <2>2. settle' \in SettleRun
    BY <2>1 DEF SettleRun
  <2>3. \A b \in Accepts : jobs'[b] = "active" <=> b = a
    BY <1>1, <1>a DEF SettleStart, Settling, WorkerOK
  <2>4. settle'.pc = "price" /\ settle'.room = a /\ settle'.winner = NoOne /\ settle'.calls = 0
    BY <2>1
  <2>5. WorkerOK'
    BY <2>3, <2>4 DEF WorkerOK
  <2> QED
    BY <1>1, <1>a, <2>2, <2>5 DEF SettleStart
<1>2. CASE SettlePrice
  <2>1. PICK p \in Prices :
          settle' = [settle EXCEPT !.pc = "call", !.winner = WinnerOf(settle.room, p)]
    BY <1>2 DEF SettlePrice
  <2>2. settle.room \in Accepts /\ settle.pc = "price" /\ settle.calls = 0
    BY <1>2 DEF SettlePrice, Settling, WorkerOK
  <2>3. WinnerOf(settle.room, p) \in {Creator(settle.room), AcceptorOf[settle.room]}
    BY DEF WinnerOf
  <2>4. WinnerOf(settle.room, p) \in Users
    BY <2>2, <2>3 DEF Creator
  <2>5. /\ settle'.pc = "call" /\ settle'.room = settle.room /\ settle'.calls = 0
        /\ settle'.winner = WinnerOf(settle.room, p) /\ settle' \in SettleRun
    BY <1>a, <2>1, <2>2, <2>4 DEF SettleRun
  <2>6. UNCHANGED jobs
    BY <1>2 DEF SettlePrice
  <2>7. WorkerOK'
    BY <2>2, <2>3, <2>5, <2>6 DEF WorkerOK, Creator
  <2> QED
    BY <1>a, <2>5, <2>6, <2>7
<1>3. CASE SettleCall
  <2>1. settle' = [settle EXCEPT !.calls = settle.calls + 1,
                                 !.pc = IF settle.calls + 1 = 4 THEN "record" ELSE "call"]
    BY <1>3 DEF SettleCall
  <2>2. settle.pc = "call" /\ settle.calls \in 0..3
    BY <1>3, <1>a DEF SettleCall, Settling, WorkerOK, SettleRun
  <2>3. /\ settle'.pc = IF settle.calls + 1 = 4 THEN "record" ELSE "call"
        /\ settle'.room = settle.room /\ settle'.winner = settle.winner
        /\ settle'.calls = settle.calls + 1
    BY <1>a, <2>1 DEF SettleRun
  <2>4. settle' \in SettleRun
    <3> DEFINE n == settle.calls + 1
               q == IF n = 4 THEN "record" ELSE "call"
    <3>1. n \in 0..4 /\ q \in {"idle", "price", "call", "record", "undo", "over", "broken"}
      BY <2>2
    <3>2. settle' = [settle EXCEPT !.calls = n, !.pc = q]
      BY <2>1
    <3> HIDE DEF n, q
    <3> QED
      BY <1>a, <3>1, <3>2 DEF SettleRun
  <2>5. UNCHANGED jobs
    BY <1>3 DEF SettleCall
  <2>6. WorkerOK'
    BY <2>2, <2>3, <2>5 DEF WorkerOK, Creator
  <2> QED
    BY <1>a, <2>4, <2>5, <2>6
<1>4. CASE SettleRecord
  BY <1>4, OverWorker DEF SettleRecord, Settling
<1>5. CASE SettleFails
  <2>1. settle.pc \in {"price", "record", "call"}
    BY <1>5 DEF SettleFails, Settling
  <2>2. CASE settle.calls > 0
    <3>1. settle' = [settle EXCEPT !.pc = "undo"] /\ UNCHANGED jobs
      BY <1>5, <2>2 DEF SettleFails, Catch, SettleTo
    <3> QED
      BY <1>a, <2>1, <2>2, <3>1 DEF WorkerOK, SettleRun, Creator
  <2>3. CASE ~(settle.calls > 0)
    BY <1>5, <2>1, <2>3, OverWorker DEF SettleFails, Catch
  <2> QED
    BY <2>2, <2>3
<1>6. CASE SettleUndo
  BY <1>6, OverWorker DEF SettleUndo, Settling
<1>7. CASE SettleUndoFails
  BY <1>7, OverWorker DEF SettleUndoFails, Settling
<1>8. CASE SettleEnds
  BY <1>8, EndsWorker
<1> QED
  BY <1>1, <1>2, <1>3, <1>4, <1>5, <1>6, <1>7, <1>8 DEF SettleStep

LEMMA WorkerInv ==
    ASSUME TypeOK, WorkerOK, JobsOnce, [Next]_vars
    PROVE  WorkerOK'
<1>1. CASE \E c \in Challenges : CreateStep(c) \/ CancelStep(c) \/ GrowsStale(c)
  BY <1>1, ChallengeLeaves DEF WorkerOK, Creator
<1>2. ASSUME NEW a \in Accepts, ChatTap(a) \/ AcceptStart(a) \/ AcceptStep(a) PROVE WorkerOK'
  <2>1. UNCHANGED settle
    BY <1>2, AcceptLeaves
  <2>2. UNCHANGED jobs \/ AcceptEnqueue(a)
    BY <1>2 DEF ChatTap, AcceptStart, AcceptStep, ChatQueue, AcceptGet, AcceptLock,
                AcceptLockRefused, AcceptDel, AcceptSave, AcceptFails, ChatLeaves
  <2>3. AcceptEnqueue(a) => jobs' = [jobs EXCEPT ![a] = "waiting"] /\ jobs[a] # "active"
    BY DEF AcceptEnqueue, JobsOnce, JobOnce
  <2> QED
    BY <2>1, <2>2, <2>3 DEF WorkerOK, Creator, TypeOK
<1>3. CASE (\E a \in Accepts : SettleStart(a)) \/ SettleStep
  BY <1>3, WorkerStep
<1>4. CASE Crash
  <2>1. settle' = AtRest /\ jobs' = [a \in Accepts |-> JobAfterCrash(a)]
    BY <1>4 DEF Crash
  <2>2. \A a \in Accepts : jobs'[a] # "active"
    BY <2>1 DEF JobAfterCrash
  <2> QED
    BY <2>1, <2>2, AtRestIs DEF WorkerOK
<1>5. CASE UNCHANGED vars
  BY <1>5 DEF vars, WorkerOK, Creator
<1> QED
  BY <1>1, <1>2, <1>3, <1>4, <1>5 DEF Next

-----------------------------------------------------------------------------
(* A job is made once, by an acceptance that ends. *)
LEMMA JobsOnceStep ==
    ASSUME TypeOK, WorkerOK, JobsOnce, RoomsOnce, [Next]_vars
    PROVE  JobsOnce'
<1> USE RequestsAssumption
<1>a. /\ accept \in [Accepts -> {"idle", "tapped", "queued", "get", "lock", "del", "save",
                                 "enqueue", "done", "notFound", "failed"}]
      /\ rooms \in [Accepts -> Room]
      /\ jobs \in [Accepts -> {"none", "waiting", "active", "completed", "failed"}]
  BY DEF TypeOK
<1>0. ASSUME UNCHANGED <<accept, jobs, rooms, stalled, settle>> PROVE JobsOnce'
  BY <1>0 DEF JobsOnce, JobOnce, OverIn, Creator
<1>1. CASE \E c \in Challenges : CreateStep(c) \/ CancelStep(c) \/ GrowsStale(c)
  BY <1>0, <1>1, ChallengeLeaves
<1>m. ASSUME NEW a \in Accepts, NEW pc, accept' = [accept EXCEPT ![a] = pc],
             UNCHANGED <<jobs, rooms, stalled, settle>>,
             jobs[a] # "none" => pc \in {"done", "queued", "get", "notFound", "failed"},
             pc \in {"enqueue", "done"} => rooms[a].saved,
             pc \in {"lock", "del", "save", "enqueue"} => AcceptorOf[a] # Creator(a)
      PROVE  JobsOnce'
  <2>1. ASSUME NEW b \in Accepts PROVE JobOnce(b)'
    <3>1. accept'[b] = IF b = a THEN pc ELSE accept[b]
      BY <1>a, <1>m
    <3>2. JobOnce(b)
      BY DEF JobsOnce
    <3>3. CASE b = a
      BY <1>m, <3>1, <3>2, <3>3 DEF JobOnce, OverIn, Creator
    <3>4. CASE b # a
      BY <1>m, <3>1, <3>2, <3>4 DEF JobOnce, OverIn, Creator
    <3> QED
      BY <3>3, <3>4
  <2> QED
    BY <2>1 DEF JobsOnce
<1>2. ASSUME NEW a \in Accepts, ChatTap(a) \/ AcceptStart(a) \/ AcceptStep(a) PROVE JobsOnce'
  <2>1. UNCHANGED <<stalled, settle>> /\ JobOnce(a)
    BY <1>2, AcceptLeaves DEF JobsOnce
  <2> USE DEF OverIn
  <2>2. CASE ChatTap(a)
    BY <1>m, <2>1, <2>2 DEF ChatTap, AcceptTo, JobOnce
  <2>3. CASE ChatQueue(a)
    BY <1>m, <2>1, <2>3 DEF ChatQueue, AcceptTo
  <2>4. CASE AcceptStart(a)
    BY <1>m, <2>1, <2>4 DEF AcceptStart, AcceptTo
  <2>5. CASE AcceptGet(a)
    <3>1. PICK pc \in {"lock", "notFound"} : accept' = [accept EXCEPT ![a] = pc]
      BY <2>5 DEF AcceptGet, AcceptTo
    <3>2. pc = "lock" => AcceptorOf[a] # Creator(a) /\ ~rooms[a].saved
      <4>1. CASE ChallengeOf[a] \in pvpKeys /\ AcceptorOf[a] # Creator(a)
        BY <4>1 DEF RoomsOnce
      <4>2. CASE ~(ChallengeOf[a] \in pvpKeys /\ AcceptorOf[a] # Creator(a))
        <5>1. accept' = [accept EXCEPT ![a] = "notFound"]
          BY <2>5, <4>2 DEF AcceptGet, AcceptTo
        <5>2. accept'[a] = pc /\ accept'[a] = "notFound"
          BY <1>a, <3>1, <5>1
        <5> QED
          BY <5>2
      <4> QED
        BY <4>1, <4>2
    <3>3. UNCHANGED <<jobs, rooms>> /\ (jobs[a] # "none" => rooms[a].saved)
      BY <2>1, <2>5 DEF AcceptGet, JobOnce
    <3> QED
      BY <1>m, <2>1, <3>1, <3>2, <3>3
  <2>6. CASE AcceptLock(a)
    BY <1>m, <2>1, <2>6 DEF AcceptLock, AcceptTo, JobOnce
  <2>7. CASE AcceptLockRefused(a)
    BY <1>m, <2>1, <2>7 DEF AcceptLockRefused, AcceptTo
  <2>8. CASE AcceptDel(a)
    BY <1>m, <2>1, <2>8 DEF AcceptDel, AcceptTo, JobOnce
  <2>9. CASE AcceptSave(a)
    <3>1. PICK p \in Prices :
            rooms' = [rooms EXCEPT ![a] = [saved |-> TRUE, openPrice |-> p, winner |-> NoOne]]
      BY <2>9 DEF AcceptSave
    <3>2. /\ rooms'[a].saved /\ rooms'[a].winner = NoOne
          /\ \A b \in Accepts : b # a => rooms'[b] = rooms[b]
      BY <1>a, <3>1
    <3>3. /\ accept[a] = "save" /\ accept'[a] = "enqueue" /\ UNCHANGED jobs
          /\ \A b \in Accepts : b # a => accept'[b] = accept[b]
      BY <1>a, <2>9 DEF AcceptSave, AcceptTo
    <3>4. \A b \in Accepts : b # a => (rooms'[b].saved <=> rooms[b].saved)
                                        /\ rooms'[b].winner = rooms[b].winner
      BY <3>2
    <3>5. JobOnce(a)'
      BY <2>1, <3>2, <3>3 DEF JobsOnce, JobOnce, Creator
    <3>6. ASSUME NEW b \in Accepts, b # a PROVE JobOnce(b)'
      BY <2>1, <3>3, <3>4, <3>6 DEF JobsOnce, JobOnce, Creator
    <3> QED
      BY <3>5, <3>6 DEF JobsOnce
  <2>10. CASE AcceptEnqueue(a)
    BY <1>a, <2>1, <2>10, ZenonT(60)
    DEF AcceptEnqueue, AcceptTo, JobsOnce, JobOnce, Creator
  <2>11. CASE AcceptFails(a)
    BY <1>a, <2>1, <2>11, ZenonT(60) DEF AcceptFails, AcceptTo, JobsOnce, JobOnce, Creator
  <2>12. CASE ChatLeaves(a)
    BY <2>1, <2>12 DEF ChatLeaves, JobsOnce, JobOnce, Creator
  <2> QED
    BY <1>2, <2>2, <2>3, <2>4, <2>5, <2>6, <2>7, <2>8, <2>9, <2>10, <2>11, <2>12 DEF AcceptStep
<1>3. CASE (\E a \in Accepts : SettleStart(a)) \/ SettleStep
  <2>1. UNCHANGED <<accept, stalled>>
    BY <1>3, SettleLeaves
  <2>2. settle.pc # "idle" => settle.room \in Accepts /\ jobs[settle.room] = "active"
    BY DEF WorkerOK
  <2>3. ASSUME UNCHANGED rooms, settle.pc \notin {"over", "broken"},
               UNCHANGED jobs \/ \E a \in Accepts : SettleStart(a)
        PROVE  JobsOnce'
    <3>1. \A b \in Accepts : /\ jobs'[b] = jobs[b] \/ (jobs[b] = "waiting" /\ jobs'[b] = "active")
                             /\ ~OverIn(b, {"over"})
      BY <1>a, <2>3 DEF SettleStart, OverIn
    <3>2. ASSUME NEW b \in Accepts PROVE JobOnce(b)'
      BY <2>1, <2>3, <3>1 DEF JobsOnce, JobOnce, Creator
    <3> QED
      BY <3>2 DEF JobsOnce
  <2>4. CASE SettleRecord
    <3>1. settle.pc = "record" /\ rooms' = [rooms EXCEPT ![settle.room].winner = settle.winner]
          /\ UNCHANGED jobs /\ Over("over")
      BY <2>4 DEF SettleRecord, Settling
    <3> PICK r \in Accepts : r = settle.room
      BY <2>2, <3>1
    <3>2. /\ jobs[r] = "active" /\ (rooms'[r].saved <=> rooms[r].saved)
          /\ \A b \in Accepts : b # r => rooms'[b] = rooms[b]
      BY <1>a, <2>2, <3>1 DEF Room
    <3>3. \A b \in Accepts : b # r => (rooms'[b].saved <=> rooms[b].saved)
                                        /\ rooms'[b].winner = rooms[b].winner
      BY <3>2
    <3>4. OverIn(r, {"over"})'
      BY <3>1, OverIs DEF OverIn
    <3>5. JobOnce(r)'
      <4>1. JobOnce(r)
        BY DEF JobsOnce
      <4> QED
        BY <2>1, <3>1, <3>2, <3>4, <4>1 DEF JobOnce, Creator
    <3>6. ASSUME NEW b \in Accepts, b # r PROVE JobOnce(b)'
      <4>1. JobOnce(b) /\ ~OverIn(b, {"over"})
        BY <3>1 DEF JobsOnce, OverIn
      <4>2. rooms'[b].saved <=> rooms[b].saved
        BY <3>3, <3>6
      <4>3. rooms'[b].winner = rooms[b].winner
        BY <3>3, <3>6
      <4> QED
        BY <2>1, <3>1, <4>1, <4>2, <4>3 DEF JobOnce, Creator
    <3> QED
      BY <3>5, <3>6 DEF JobsOnce
  <2>5. ASSUME NEW a \in Accepts, SettleStart(a) PROVE JobsOnce'
    BY <2>3, <2>5 DEF SettleStart, Settling
  <2>6. CASE SettlePrice \/ SettleCall \/ SettleFails \/ SettleUndo \/ SettleUndoFails
    <3>1. UNCHANGED <<rooms, jobs>> /\ settle.pc \notin {"over", "broken"}
      BY <2>6 DEF SettlePrice, SettleCall, SettleFails, SettleUndo, SettleUndoFails, Settling
    <3> QED
      BY <2>3, <3>1
  <2>7. CASE SettleEnds
    <3>1. PICK r \in Accepts, state \in {"completed", "failed"} :
             /\ r = settle.room /\ jobs[r] = "active" /\ jobs' = [jobs EXCEPT ![r] = state]
             /\ state = "completed" <=> settle.pc = "over"
      BY <2>7, EndsIs
    <3>2. UNCHANGED rooms /\ settle.pc \in {"over", "broken"}
      BY <2>7 DEF SettleEnds
    <3>3. JobOnce(r)'
      <4>1. JobOnce(r) /\ jobs'[r] = state /\ (OverIn(r, {"over"}) => state = "completed")
        BY <1>a, <3>1 DEF JobsOnce, OverIn
      <4> QED
        BY <2>1, <3>1, <3>2, <4>1 DEF JobOnce, Creator
    <3>4. ASSUME NEW b \in Accepts, b # r PROVE JobOnce(b)'
      <4>1. JobOnce(b) /\ jobs'[b] = jobs[b] /\ ~OverIn(b, {"over"})
        BY <1>a, <3>1, <3>4 DEF JobsOnce, OverIn
      <4> QED
        BY <2>1, <3>2, <4>1 DEF JobOnce, Creator
    <3> QED
      BY <3>3, <3>4 DEF JobsOnce
  <2> QED
    BY <1>3, <2>4, <2>5, <2>6, <2>7 DEF SettleStep
<1>4. CASE Crash
  <2>1. \A a \in Accepts : accept'[a] = AfterCrash(a) /\ jobs'[a] = JobAfterCrash(a)
    BY <1>4 DEF Crash
  <2>2. UNCHANGED rooms /\ stalled' = stalled \cup Interrupted
    BY <1>4 DEF Crash
  <2>3. \A a \in Accepts : AfterCrash(a) \in {"queued", "failed", accept[a]} \ InFlight
    BY DEF AfterCrash, InFlight
  <2>4. \A a \in Accepts : /\ JobAfterCrash(a) = jobs[a] \/ jobs[a] = "active"
                           /\ JobAfterCrash(a) = "none" => jobs[a] = "none"
    BY DEF JobAfterCrash
  <2>5. \A a \in Accepts : <<a, "settle">> \in Interrupted <=> jobs[a] = "active"
    BY DEF Interrupted
  <2>6. ASSUME NEW a \in Accepts PROVE JobOnce(a)'
    <3>1. jobs'[a] # "none" => jobs[a] # "none"
      BY <2>1, <2>4
    <3>2. jobs[a] # "none" => accept'[a] \in {"done", "queued", "notFound", "failed"}
      BY <2>1, <2>3 DEF JobsOnce, JobOnce, InFlight
    <3>3. jobs'[a] = "none" => <<a, "settle">> \notin stalled'
      BY <2>1, <2>2, <2>4, <2>5 DEF JobsOnce, JobOnce
    <3>4. jobs[a] = "completed" => jobs'[a] = "completed"
      BY <2>1, <2>4
    <3>5. OverIn(a, {"over"}) => <<a, "settle">> \in stalled'
      BY <2>2, <2>5 DEF OverIn, WorkerOK
    <3>6. /\ accept'[a] \notin {"lock", "del", "save", "enqueue"}
          /\ accept'[a] = "done" => accept[a] = "done"
      BY <2>1, <2>3 DEF InFlight
    <3>7. jobs[a] # "none" => jobs'[a] # "none"
      BY <2>1 DEF JobAfterCrash
    <3>8. Creator(a)' = Creator(a)
      BY DEF Creator
    <3> QED
      BY <2>2, <3>1, <3>2, <3>3, <3>4, <3>5, <3>6, <3>7, <3>8 DEF JobsOnce, JobOnce
  <2> QED
    BY <2>6 DEF JobsOnce
<1>5. CASE UNCHANGED vars
  BY <1>5 DEF vars, JobsOnce, JobOnce, OverIn, Creator
<1> QED
  BY <1>1, <1>2, <1>3, <1>4, <1>5 DEF Next

-----------------------------------------------------------------------------
(* What is counted of a job's wallet calls. *)
Counts == [Accepts -> [Users -> [1..4 -> 0..2]]]

(* The worker's room is of an active job, and of no other. *)
LEMMA RoomOfWorker ==
    ASSUME TypeOK, WorkerOK, settle.pc # "idle"
    PROVE  \E r \in Accepts : /\ r = settle.room /\ jobs[r] = "active"
                            /\ \A b \in Accepts : b # r => jobs[b] # "active"
BY DEF WorkerOK

(* A room that is not being settled keeps its record. *)
LEMMA OthersKeepLedger ==
    ASSUME TypeOK, NEW b \in Accepts, LedgerOf(b), Settled(b), jobs[b] # "active",
           settle.pc = "idle" \/ settle.room # b, settle'.room # b,
           UNCHANGED <<stalled, jobs[b], moved[b], rooms[b]>>
    PROVE  LedgerOf(b)' /\ Settled(b)'
BY DEF LedgerOf, Settled, Own, OverIn

(* The worker counts what stands of the calls it made, and its rollback      *)
(* undoes it all.                                                            *)
LEMMA SettleLedger ==
    ASSUME TypeOK, WorkerOK, JobsOnce, Ledger, \A b \in Accepts : Settled(b),
           (\E a \in Accepts : SettleStart(a)) \/ SettleStep
    PROVE  moved' \in Counts /\ Ledger' /\ \A b \in Accepts : Settled(b)'
<1> DEFINE Goal == moved' \in Counts /\ Ledger' /\ \A b \in Accepts : Settled(b)'
<1> USE RequestsAssumption
<1>a. /\ moved \in Counts /\ rooms \in [Accepts -> Room]
      /\ jobs \in [Accepts -> {"none", "waiting", "active", "completed", "failed"}]
      /\ settle \in SettleRun /\ settle.calls \in 0..4
  BY DEF TypeOK, Counts, SettleRun
<1>b. UNCHANGED stalled
  BY SettleLeaves
<1>c. \A b \in Accepts : LedgerOf(b) /\ Settled(b)
  BY DEF Ledger
<1>d. ASSUME NEW r \in Accepts, \A b \in Accepts : b # r => jobs[b] # "active",
             \A b \in Accepts : b # r => UNCHANGED <<jobs[b], moved[b], rooms[b]>>,
             settle.pc = "idle" \/ settle.room = r, settle'.room \in {r, NoOne},
             moved' \in Counts, LedgerOf(r)', Settled(r)'
      PROVE  Goal
  <2>1. \A b \in Accepts : LedgerOf(b)' /\ Settled(b)'
    <3>1. ASSUME NEW b \in Accepts, b # r PROVE LedgerOf(b)' /\ Settled(b)'
      BY <1>b, <1>c, <1>d, <3>1, OthersKeepLedger
    <3> QED
      BY <1>d, <3>1
  <2> QED
    BY <1>d, <2>1 DEF Ledger
<1>1. ASSUME NEW r \in Accepts, SettleStart(r) PROVE Goal
  <2>1. /\ jobs[r] = "waiting" /\ jobs' = [jobs EXCEPT ![r] = "active"]
        /\ UNCHANGED <<moved, rooms>> /\ settle'.calls = 0
        /\ \A b \in Accepts : jobs[b] # "active"
        /\ settle.pc = "idle" /\ settle'.pc = "price" /\ settle'.room = r
    BY <1>1 DEF SettleStart, Settling, AtRest, WorkerOK
  <2>2. jobs'[r] = "active"
    BY <1>a, <2>1
  <2>3. \A u \in Users, i \in 1..4 : Own(r, u, i) = 0 /\ Own(r, u, i)' = 0
    BY <2>1 DEF Own
  <2>4. LedgerOf(r)' /\ Settled(r)'
    BY <1>b, <1>c, <2>1, <2>2, <2>3 DEF LedgerOf, Settled, OverIn
  <2> QED
    BY <1>a, <1>d, <2>1, <2>4
<1>e. SettleStep => settle.pc # "idle"
  BY DEF SettleStep, SettlePrice, SettleCall, SettleRecord, SettleFails, SettleUndo,
         SettleUndoFails, SettleEnds, Settling
<1> SUFFICES ASSUME SettleStep, settle.pc # "idle" PROVE Goal
  BY <1>1, <1>e
<1> PICK r \in Accepts : /\ r = settle.room /\ jobs[r] = "active"
                        /\ \A b \in Accepts : b # r => jobs[b] # "active"
  BY RoomOfWorker
<1>8. CASE SettleEnds
  <2>1. PICK state \in {"completed", "failed"} :
           /\ jobs' = [jobs EXCEPT ![r] = state]
           /\ state = "completed" => settle.pc = "over"
    BY <1>8, EndsIs
  <2>2. /\ UNCHANGED <<rooms, moved>> /\ settle.pc \in {"over", "broken"}
        /\ settle'.pc = "idle" /\ settle'.room = NoOne
    BY <1>8, AtRestIs DEF SettleEnds
  <2>3. jobs'[r] = state /\ \A b \in Accepts : b # r => jobs'[b] = jobs[b]
    BY <1>a, <2>1
  <2>4. LedgerOf(r)'
    BY <2>2, <2>3 DEF LedgerOf, OverIn
  <2>5. Settled(r)'
    BY <1>b, <1>c, <2>1, <2>2, <2>3 DEF Settled, OverIn
  <2> QED
    BY <1>a, <1>d, <2>2, <2>3, <2>4, <2>5
<1>9. SettlePrice \/ SettleCall \/ SettleRecord \/ SettleFails \/ SettleUndo \/ SettleUndoFails
        => settle.pc \notin {"over", "broken"}
  BY DEF SettlePrice, SettleCall, SettleRecord, SettleFails, SettleUndo, SettleUndoFails, Settling
<1> SUFFICES ASSUME settle.pc \notin {"over", "broken"}
             PROVE  Goal
  BY <1>8, <1>9 DEF SettleStep
<1>f. /\ <<r, "settle">> \notin stalled => rooms[r].winner = NoOne
      /\ \A u \in Users, i \in 1..4 :
            /\ moved[r][u][i] \in 0..2
            /\ moved[r][u][i] - Own(r, u, i) \in 0..(IF <<r, "settle">> \in stalled THEN 1 ELSE 0)
            /\ Own(r, u, i) = IF u = settle.winner /\ i <= settle.calls THEN 1 ELSE 0
  <2>0. \A u \in Users, i \in 1..4 :
            /\ moved[r][u][i] \in 0..2
            /\ Own(r, u, i) = IF u = settle.winner /\ i <= settle.calls THEN 1 ELSE 0
    BY <1>a DEF Own, Counts
  <2>1. <<r, "settle">> \notin stalled => rooms[r].winner = NoOne
    BY DEF JobsOnce, JobOnce, OverIn
  <2>2. LedgerOf(r) /\ ~OverIn(r, {"over", "broken"})
    BY <1>c DEF OverIn
  <2> QED
    BY <2>0, <2>1, <2>2 DEF LedgerOf
<1>z. ASSUME NEW u \in Users, NEW i \in 1..4, Own(r, u, i) = 0
      PROVE  moved[r][u][i] \in 0..(IF <<r, "settle">> \in stalled THEN 1 ELSE 0)
  <2> PICK k \in Int : k = moved[r][u][i]
    BY <1>f
  <2>1. k - 0 \in 0..(IF <<r, "settle">> \in stalled THEN 1 ELSE 0)
    BY <1>f, <1>z
  <2>2. k - 0 = k
    OBVIOUS
  <2> QED
    BY <2>1, <2>2
<1>g. settle.winner # NoOne => settle.winner \in Users
  BY <1>a DEF SettleRun
<1>h. ASSUME NEW pc \in {"over", "broken"}, Over(pc), UNCHANGED <<jobs, stalled>>,
             \A b \in Accepts : b # r => UNCHANGED <<moved[b], rooms[b]>>,
             moved' \in Counts,
             <<r, "settle">> \notin stalled =>
                \A u \in Users, i \in 1..4 : moved'[r][u][i] \in 0..1,
             pc = "over" /\ <<r, "settle">> \notin stalled =>
                \A u \in Users, i \in 1..4 :
                   moved'[r][u][i] = IF u = rooms'[r].winner THEN 1 ELSE 0
      PROVE  Goal
  <2>1. settle'.pc = pc /\ settle'.room = r
    BY <1>h, OverIs
  <2>2. LedgerOf(r)'
    BY <1>h, <2>1 DEF LedgerOf, OverIn
  <2>3. Settled(r)'
    BY <1>h, <2>1 DEF Settled, OverIn
  <2> QED
    BY <1>d, <1>h, <2>1, <2>2, <2>3
<1>2. CASE SettlePrice
  <2>1. /\ settle.calls = 0 /\ settle'.calls = 0 /\ UNCHANGED <<jobs, moved, rooms>>
        /\ settle'.pc = "call" /\ settle'.room = r
    BY <1>2, <1>a DEF SettlePrice, Settling, WorkerOK, SettleRun
  <2>2. \A u \in Users, i \in 1..4 : Own(r, u, i) = 0 /\ Own(r, u, i)' = 0
    BY <2>1 DEF Own
  <2>3. Settled(r)'
    BY <1>c, <2>1 DEF Settled, OverIn
  <2>4. \A u \in Users, i \in 1..4 :
          moved[r][u][i] \in 0..(IF <<r, "settle">> \in stalled THEN 1 ELSE 0)
    BY <1>z, <2>2
  <2>5. ~OverIn(r, {"over", "broken"})'
    BY <2>1 DEF OverIn
  <2>6. LedgerOf(r)'
    BY <1>b, <1>f, <2>1, <2>2, <2>4, <2>5, SMTT(30) DEF LedgerOf
  <2> QED
    BY <1>a, <1>d, <2>1, <2>3, <2>6
<1>3. CASE SettleCall
  <2> DEFINE n == settle.calls + 1
  <2> PICK w \in Users : w = settle.winner
    BY <1>3, <1>g DEF SettleCall, Settling, WorkerOK, Creator
  <2>1. n \in 1..4 /\ settle.calls \in 0..3 /\ settle'.calls = n /\ settle'.winner = w
    BY <1>3, <1>a DEF SettleCall, Settling, WorkerOK, SettleRun
  <2>0. settle'.room = r /\ settle'.pc \in {"call", "record"}
    BY <1>3, <1>a DEF SettleCall, SettleRun
  <2>2. /\ UNCHANGED <<jobs, rooms>>
        /\ moved' = [moved EXCEPT ![r][w][n] = moved[r][w][n] + 1]
    BY <1>3 DEF SettleCall
  <2>3. Own(r, w, n) = 0
    BY <1>f, <2>1
  <2>4. moved[r][w][n] \in 0..1
    <3>1. n \in 1..4
      BY <2>1
    <3>2. moved[r][w][n] \in 0..(IF <<r, "settle">> \in stalled THEN 1 ELSE 0)
      BY <1>z, <2>3, <3>1, Zenon
    <3> QED
      BY <3>2
  <2>5. moved' \in Counts
    BY <1>a, <2>1, <2>2, <2>4 DEF Counts
  <2>6. /\ moved'[r][w][n] = moved[r][w][n] + 1
        /\ \A u \in Users, i \in 1..4 : u # w \/ i # n => moved'[r][u][i] = moved[r][u][i]
        /\ \A b \in Accepts : b # r => moved'[b] = moved[b]
    BY <1>a, <2>1, <2>2, SMTT(30) DEF Counts
  <2>7. \A u \in Users, i \in 1..4 :
            Own(r, u, i)' = IF u = w /\ i <= n THEN 1 ELSE 0
    BY <2>1, <2>2 DEF Own
  <2>8. ASSUME NEW u \in Users, NEW i \in 1..4
        PROVE  moved'[r][u][i] - Own(r, u, i)' = moved[r][u][i] - Own(r, u, i)
    <3>1. CASE u = w /\ i = n
      <4>1. Own(r, u, i) = 0 /\ moved'[r][u][i] = moved[r][u][i] + 1 /\ moved[r][u][i] \in Int
        BY <2>3, <2>4, <2>6, <3>1
      <4>2. Own(r, u, i)' = 1
        BY <2>1, <2>7, <3>1
      <4> QED
        BY <4>1, <4>2
    <3>2. CASE ~(u = w /\ i = n)
      <4>1. Own(r, u, i)' = Own(r, u, i)
        BY <1>a, <1>f, <2>1, <2>7, <3>2
      <4> QED
        BY <2>6, <3>2, <4>1
    <3> QED
      BY <3>1, <3>2
  <2>9. LedgerOf(r)' /\ Settled(r)'
    <3>1. \A u \in Users, i \in 1..4 :
             moved'[r][u][i] - Own(r, u, i)' \in 0..(IF <<r, "settle">> \in stalled' THEN 1 ELSE 0)
      BY <1>b, <1>f, <2>8
    <3>2. LedgerOf(r)'
      BY <2>0, <3>1 DEF LedgerOf, OverIn
    <3>3. Settled(r)'
      BY <2>0, <2>2 DEF Settled, OverIn
    <3> QED
      BY <3>2, <3>3
  <2> QED
    BY <1>d, <2>0, <2>2, <2>5, <2>6, <2>9
<1>4. CASE SettleRecord
  <2> PICK w \in Users : w = settle.winner
    BY <1>4, <1>g DEF SettleRecord, Settling, WorkerOK, Creator
  <2>1. /\ rooms' = [rooms EXCEPT ![r].winner = w] /\ Over("over") /\ UNCHANGED <<jobs, moved>>
        /\ settle.calls = 4
    BY <1>4 DEF SettleRecord, Settling, WorkerOK
  <2>2. rooms'[r].winner = w /\ \A b \in Accepts : b # r => rooms'[b] = rooms[b]
    BY <1>a, <2>1 DEF Room
  <2>3. \A u \in Users, i \in 1..4 : Own(r, u, i) = IF u = w THEN 1 ELSE 0
    BY <1>f, <2>1
  <2>4. <<r, "settle">> \notin stalled =>
          \A u \in Users, i \in 1..4 : moved[r][u][i] = IF u = w THEN 1 ELSE 0
    BY <1>f, <2>3
  <2>5. <<r, "settle">> \notin stalled =>
          \A u \in Users, i \in 1..4 : moved'[r][u][i] \in 0..1
    BY <2>1, <2>4
  <2>6. <<r, "settle">> \notin stalled =>
          \A u \in Users, i \in 1..4 : moved'[r][u][i] = IF u = rooms'[r].winner THEN 1 ELSE 0
    BY <2>1, <2>2, <2>4
  <2> QED
    BY <1>a, <1>b, <1>h, <2>1, <2>2, <2>5, <2>6
<1>5. CASE SettleFails
  <2>1. UNCHANGED <<rooms, moved, jobs>>
    BY <1>5 DEF SettleFails
  <2>2. CASE settle.calls > 0
    <3>1. settle'.calls = settle.calls /\ settle'.winner = settle.winner
          /\ settle'.pc = "undo" /\ settle'.room = r
      BY <1>5, <1>a, <2>2 DEF SettleFails, Catch, SettleTo, SettleRun
    <3>2. \A u \in Users, i \in 1..4 : Own(r, u, i)' = Own(r, u, i)
      BY <2>1, <3>1 DEF Own
    <3>3. LedgerOf(r)' /\ Settled(r)'
      BY <1>b, <1>f, <2>1, <3>1, <3>2 DEF LedgerOf, Settled, OverIn
    <3> QED
      BY <1>a, <1>d, <2>1, <3>1, <3>3
  <2>3. CASE ~(settle.calls > 0)
    <3>1. Over("over")
      BY <1>5, <2>3 DEF SettleFails, Catch
    <3>2. <<r, "settle">> \notin stalled => \A u \in Users, i \in 1..4 : moved[r][u][i] = 0
      <4>1. \A u \in Users, i \in 1..4 : Own(r, u, i) = 0
        BY <1>a, <1>f, <2>3
      <4> QED
        BY <1>f, <4>1, SMTT(30)
    <3>3. <<r, "settle">> \notin stalled =>
            /\ \A u \in Users, i \in 1..4 : moved'[r][u][i] \in 0..1
            /\ \A u \in Users, i \in 1..4 :
                  moved'[r][u][i] = IF u = rooms'[r].winner THEN 1 ELSE 0
      <4>1. <<r, "settle">> \notin stalled => rooms'[r].winner \notin Users
        BY <1>f, <2>1
      <4> QED
        BY <2>1, <3>2, <4>1
    <3> QED
      BY <1>a, <1>b, <1>h, <2>1, <3>1, <3>3
  <2> QED
    BY <2>2, <2>3
<1>6. CASE SettleUndo
  <2> PICK w \in Users : w = settle.winner
    BY <1>6, <1>g DEF SettleUndo, Settling, WorkerOK, Creator
  <2>1. /\ UNCHANGED <<rooms, jobs>> /\ Over("over")
        /\ moved' = [moved EXCEPT ![r][w] =
              [i \in 1..4 |-> IF i <= settle.calls THEN moved[r][w][i] - 1 ELSE moved[r][w][i]]]
    BY <1>6 DEF SettleUndo, Stands
  <2>a. PICK undone : undone = [i \in 1..4 |-> IF i <= settle.calls THEN moved[r][w][i] - 1
                                                                   ELSE moved[r][w][i]]
    OBVIOUS
  <2>b. moved' = [moved EXCEPT ![r][w] = undone]
    BY <2>1, <2>a
  <2>c. moved'[r][w] = undone /\ (undone \in [1..4 -> 0..2] => moved' \in Counts)
    BY <1>a, <2>b DEF Counts
  <2>d. \A i \in 1..4 : undone[i] = IF i <= settle.calls THEN moved[r][w][i] - 1
                                                        ELSE moved[r][w][i]
    BY <2>a
  <2>3. \A i \in 1..4 : /\ i <= settle.calls => moved[r][w][i] - 1 \in 0..1
                        /\ moved'[r][w][i] = moved[r][w][i] - Own(r, w, i)
    <3> TAKE i \in 1..4
    <3>1. Own(r, w, i) = IF i <= settle.calls THEN 1 ELSE 0
      BY <1>f
    <3>2. moved'[r][w][i] = IF i <= settle.calls THEN moved[r][w][i] - 1 ELSE moved[r][w][i]
      BY <2>c, <2>d
    <3>3. moved[r][w][i] \in Int /\ moved[r][w][i] - Own(r, w, i) \in 0..1
      <4>1. CASE <<r, "settle">> \in stalled
        BY <1>f, <4>1, SMTT(30)
      <4>2. CASE <<r, "settle">> \notin stalled
        BY <1>f, <4>2
      <4> QED
        BY <4>1, <4>2
    <3>4. CASE i <= settle.calls
      BY <3>1, <3>2, <3>3, <3>4
    <3>5. CASE ~(i <= settle.calls)
      BY <3>1, <3>2, <3>3, <3>5
    <3> QED
      BY <3>4, <3>5
  <2>4. moved' \in Counts
    <3>1. \A i \in 1..4 : undone[i] \in 0..2
      <4> TAKE i \in 1..4
      <4>1. moved[r][w][i] \in 0..2
        BY <1>a DEF Counts
      <4>2. CASE i <= settle.calls
        BY <2>3, <2>d, <4>2
      <4>3. CASE ~(i <= settle.calls)
        BY <2>d, <4>1, <4>3
      <4> QED
        BY <4>2, <4>3
    <3>2. undone \in [1..4 -> 0..2]
      BY <2>a, <3>1
    <3> QED
      BY <2>c, <3>2
  <2>5. \A u \in Users, i \in 1..4 : u # w =>
            moved'[r][u][i] = moved[r][u][i] /\ Own(r, u, i) = 0
    <3>1. \A u \in Users : u # w => moved'[r][u] = moved[r][u]
      BY <1>a, <2>b DEF Counts
    <3>2. \A u \in Users, i \in 1..4 : u # w => Own(r, u, i) = 0
      BY <1>f
    <3> QED
      BY <3>1, <3>2
  <2>6. ASSUME <<r, "settle">> \notin stalled, NEW u \in Users, NEW i \in 1..4
        PROVE  moved'[r][u][i] = 0
    <3>1. moved[r][u][i] \in Int /\ moved[r][u][i] - Own(r, u, i) = 0
      BY <1>f, <2>6
    <3>2. CASE u = w
      BY <2>3, <3>1, <3>2
    <3>3. CASE u # w
      BY <2>5, <3>1, <3>3
    <3> QED
      BY <3>2, <3>3
  <2>7. <<r, "settle">> \notin stalled =>
          /\ \A u \in Users, i \in 1..4 : moved'[r][u][i] \in 0..1
          /\ \A u \in Users, i \in 1..4 : moved'[r][u][i] = IF u = rooms'[r].winner THEN 1 ELSE 0
    <3>1. <<r, "settle">> \notin stalled => rooms'[r].winner \notin Users
      BY <1>f, <2>1
    <3> QED
      BY <2>6, <3>1
  <2>8. \A b \in Accepts : b # r => moved'[b] = moved[b]
    BY <1>a, <2>b DEF Counts
  <2> QED
    BY <1>b, <1>h, <2>1, <2>4, <2>7, <2>8
<1>7. CASE SettleUndoFails
  <2>1. UNCHANGED <<rooms, moved, jobs>> /\ Over("broken")
    BY <1>7 DEF SettleUndoFails
  <2>2. <<r, "settle">> \notin stalled => \A u \in Users, i \in 1..4 : moved'[r][u][i] \in 0..1
    <3> SUFFICES ASSUME <<r, "settle">> \notin stalled, NEW u \in Users, NEW i \in 1..4
                 PROVE  moved[r][u][i] \in 0..1
      BY <2>1
    <3>1. moved[r][u][i] \in 0..2 /\ moved[r][u][i] - Own(r, u, i) = 0 /\ Own(r, u, i) \in 0..1
      BY <1>f
    <3> QED
      BY <3>1
  <2> QED
    BY <1>a, <1>b, <1>h, <2>1, <2>2
<1> QED
  BY <1>2, <1>3, <1>4, <1>5, <1>6, <1>7, <1>8 DEF SettleStep

LEMMA LedgerStep ==
    ASSUME TypeOK, WorkerOK, JobsOnce, Ledger, \A b \in Accepts : Settled(b), [Next]_vars
    PROVE  moved' \in Counts /\ Ledger' /\ \A b \in Accepts : Settled(b)'
<1> DEFINE Goal == moved' \in Counts /\ Ledger' /\ \A b \in Accepts : Settled(b)'
<1>a. /\ moved \in Counts /\ rooms \in [Accepts -> Room]
      /\ jobs \in [Accepts -> {"none", "waiting", "active", "completed", "failed"}]
  BY DEF TypeOK, Counts
<1>b. \A b \in Accepts : LedgerOf(b) /\ Settled(b)
  BY DEF Ledger
<1>c. ASSUME moved' \in Counts, \A b \in Accepts : LedgerOf(b)' /\ Settled(b)' PROVE Goal
  BY <1>c DEF Ledger
<1>1. CASE UNCHANGED <<jobs, moved, rooms, stalled, settle>>
  <2>1. ASSUME NEW b \in Accepts PROVE LedgerOf(b)' /\ Settled(b)'
    BY <1>1, <1>b DEF LedgerOf, Settled, Own, OverIn
  <2> QED
    BY <1>1, <1>a, <1>c, <2>1
<1>2. CASE \E c \in Challenges : CreateStep(c) \/ CancelStep(c) \/ GrowsStale(c)
  BY <1>1, <1>2, ChallengeLeaves
<1>3. ASSUME NEW a \in Accepts, ChatTap(a) \/ AcceptStart(a) \/ AcceptStep(a) PROVE Goal
  <2>1. UNCHANGED <<stalled, settle, moved>>
    BY <1>3, AcceptLeaves
  <2>2. CASE AcceptSave(a)
    <3>1. jobs[a] = "none" /\ UNCHANGED jobs
          /\ \A b \in Accepts : b # a => rooms'[b] = rooms[b]
      BY <1>a, <2>2 DEF AcceptSave, JobsOnce, JobOnce
    <3>2. ASSUME NEW b \in Accepts PROVE LedgerOf(b)' /\ Settled(b)'
      <4>1. LedgerOf(b)'
        BY <1>b, <2>1, <3>1 DEF LedgerOf, Own, OverIn
      <4>2. Settled(b)'
        BY <1>b, <2>1, <3>1 DEF Settled, OverIn, WorkerOK
      <4> QED
        BY <4>1, <4>2
    <3> QED
      BY <1>a, <1>c, <2>1, <3>2
  <2>3. CASE AcceptEnqueue(a)
    <3>1. jobs[a] = "none" /\ jobs'[a] = "waiting" /\ UNCHANGED rooms
          /\ \A b \in Accepts : b # a => jobs'[b] = jobs[b]
      BY <1>a, <2>3 DEF AcceptEnqueue, JobsOnce, JobOnce
    <3>2. ASSUME NEW b \in Accepts PROVE LedgerOf(b)' /\ Settled(b)'
      <4>1. LedgerOf(b)'
        BY <1>b, <2>1, <3>1 DEF LedgerOf, Own, OverIn
      <4>2. Settled(b)'
        BY <1>b, <2>1, <3>1 DEF Settled, OverIn, WorkerOK
      <4> QED
        BY <4>1, <4>2
    <3> QED
      BY <1>a, <1>c, <2>1, <3>2
  <2>4. CASE UNCHANGED <<rooms, jobs>>
    BY <1>1, <2>1, <2>4
  <2> QED
    BY <1>3, <2>2, <2>3, <2>4
    DEF ChatTap, AcceptStart, AcceptStep, ChatQueue, AcceptGet, AcceptLock, AcceptLockRefused,
        AcceptDel, AcceptFails, ChatLeaves
<1>4. CASE (\E a \in Accepts : SettleStart(a)) \/ SettleStep
  BY <1>4, SettleLedger
<1>5. CASE Crash
  <2>1. /\ UNCHANGED <<moved, rooms>> /\ stalled' = stalled \cup Interrupted
        /\ \A a \in Accepts : jobs'[a] = JobAfterCrash(a)
        /\ settle'.pc = "idle" /\ settle'.room = NoOne
    BY <1>5, AtRestIs DEF Crash
  <2>2. ASSUME NEW b \in Accepts PROVE LedgerOf(b)' /\ Settled(b)'
    <3>1. CASE jobs[b] = "active"
      <4>1. /\ <<b, "settle">> \in stalled'
            /\ <<b, "settle">> \notin stalled => jobs'[b] = "waiting"
            /\ <<b, "settle">> \in stalled => jobs'[b] = "failed"
        BY <2>1, <3>1 DEF Interrupted, JobAfterCrash
      <4>2. ASSUME <<b, "settle">> \notin stalled, NEW u \in Users, NEW i \in 1..4
            PROVE  moved[b][u][i] - Own(b, u, i)' \in 0..1
        <5>1. Own(b, u, i)' = 0
          BY <4>1, <4>2 DEF Own
        <5>2. moved[b][u][i] \in 0..2 /\ Own(b, u, i) \in 0..1
          BY <1>a DEF Own, Counts
        <5>3. CASE OverIn(b, {"over", "broken"})
          <6>1. moved[b][u][i] \in 0..1
            BY <1>b, <4>2, <5>3 DEF LedgerOf
          <6> QED
            BY <5>1, <6>1
        <5>4. CASE ~OverIn(b, {"over", "broken"})
          <6>1. moved[b][u][i] - Own(b, u, i) \in 0..0
            BY <1>b, <3>1, <4>2, <5>4 DEF LedgerOf
          <6> QED
            BY <5>1, <5>2, <6>1
        <5> QED
          BY <5>3, <5>4
      <4>3. LedgerOf(b)'
        BY <2>1, <4>1, <4>2 DEF LedgerOf, OverIn
      <4> QED
        BY <2>1, <4>1, <4>3 DEF Settled, OverIn
    <3>2. CASE jobs[b] # "active"
      <4>1. jobs'[b] = jobs[b]
        BY <2>1, <3>2 DEF JobAfterCrash
      <4>2. <<b, "settle">> \in stalled' <=> <<b, "settle">> \in stalled
        BY <2>1, <3>2 DEF Interrupted
      <4> QED
        BY <1>b, <2>1, <3>2, <4>1, <4>2, RequestsAssumption DEF LedgerOf, Settled, Own, OverIn, WorkerOK
    <3> QED
      BY <3>1, <3>2
  <2> QED
    BY <1>a, <1>c, <2>1, <2>2
<1>6. CASE UNCHANGED vars
  BY <1>1, <1>6 DEF vars
<1> QED
  BY <1>2, <1>3, <1>4, <1>5, <1>6 DEF Next

-----------------------------------------------------------------------------
(* The chat's queue: who is served is at its head, once. *)
LEMMA MovesServed ==
    ASSUME TypeOK, OneServed, NEW a \in Accepts, NEW pc \in InFlight, AcceptTo(a, pc),
           UNCHANGED botQueue,
           \/ accept[a] \in InFlight
           \/ accept[a] = "idle" /\ ~IsChat(a)
           \/ accept[a] = "queued" /\ botQueue # <<>> /\ Head(botQueue) = a
    PROVE  OneServed'
<1>1. /\ accept'[a] = pc /\ \A b \in Accepts : b # a => accept'[b] = accept[b]
      /\ botQueue \in Seq(Accepts)
  BY DEF AcceptTo, TypeOK
<1>2. \A b \in Accepts : accept'[b] \in {"tapped", "queued"} => IsChat(b)
  BY <1>1 DEF OneServed, InFlight
<1>3. \A i \in DOMAIN botQueue :
         IsChat(botQueue[i]) /\ accept'[botQueue[i]] \in InFlight \cup Answered \cup {"queued"}
  BY <1>1 DEF OneServed
<1>4. \A b \in Accepts : IsChat(b) /\ accept'[b] \in InFlight => botQueue # <<>> /\ botQueue[1] = b
  BY <1>1 DEF OneServed
<1> QED
  BY <1>2, <1>3, <1>4 DEF OneServed, IsChat

(* One that is answered stays there until its job is taken away. *)
LEMMA EndsServed ==
    ASSUME TypeOK, OneServed, NEW a \in Accepts, accept[a] \in InFlight \cup {"tapped"},
           NEW pc \in Answered, AcceptTo(a, pc), UNCHANGED botQueue
    PROVE  OneServed'
<1>1. /\ accept'[a] = pc /\ \A b \in Accepts : b # a => accept'[b] = accept[b]
      /\ botQueue \in Seq(Accepts)
  BY DEF AcceptTo, TypeOK
<1>2. \A b \in Accepts : accept'[b] \in {"tapped", "queued"} => IsChat(b)
  BY <1>1 DEF OneServed, Answered
<1>3. \A i \in DOMAIN botQueue :
         IsChat(botQueue[i]) /\ accept'[botQueue[i]] \in InFlight \cup Answered \cup {"queued"}
  BY <1>1 DEF OneServed
<1>4. \A b \in Accepts : IsChat(b) /\ accept'[b] \in InFlight => botQueue # <<>> /\ botQueue[1] = b
  BY <1>1 DEF OneServed, InFlight, Answered
<1> QED
  BY <1>2, <1>3, <1>4 DEF OneServed, IsChat

LEMMA LeavesServed ==
    ASSUME TypeOK, OneServed, NEW a \in Accepts, ChatLeaves(a)
    PROVE  OneServed'
<1>1. /\ accept[a] \in Answered /\ UNCHANGED accept /\ botQueue \in Seq(Accepts)
      /\ botQueue # <<>> /\ Head(botQueue) = a /\ botQueue' = Tail(botQueue)
  BY DEF ChatLeaves, TypeOK, Answered
<1>2. /\ botQueue[1] = a
      /\ \A i \in DOMAIN botQueue' : i + 1 \in DOMAIN botQueue /\ botQueue'[i] = botQueue[i + 1]
                                       /\ i \in Nat
  BY <1>1
<1>3. \A i \in DOMAIN botQueue' :
         IsChat(botQueue'[i]) /\ accept[botQueue'[i]] \in InFlight \cup Answered \cup {"queued"}
  BY <1>2 DEF OneServed
<1>4. \A i, j \in DOMAIN botQueue' : botQueue'[i] = botQueue'[j] => i = j
  BY <1>2 DEF OneServed
<1>5. \A b \in Accepts : IsChat(b) => accept[b] \notin InFlight
  BY <1>1, <1>2 DEF OneServed, InFlight, Answered
<1>6. \A b \in Accepts : accept[b] \in {"tapped", "queued"} => IsChat(b)
  BY DEF OneServed
<1> QED
  BY <1>1, <1>3, <1>4, <1>5, <1>6 DEF OneServed, IsChat

LEMMA OneServedStep ==
    ASSUME TypeOK, OneServed, [Next]_vars
    PROVE  OneServed'
<1> USE RequestsAssumption
<1>a. accept \in [Accepts -> {"idle", "tapped", "queued", "get", "lock", "del", "save",
                              "enqueue", "done", "notFound", "failed"}]
      /\ botQueue \in Seq(Accepts)
  BY DEF TypeOK
<1>1. CASE UNCHANGED <<accept, botQueue>>
  BY <1>1 DEF OneServed, IsChat
<1>2. CASE \E c \in Challenges : CreateStep(c) \/ CancelStep(c) \/ GrowsStale(c)
  BY <1>1, <1>2, ChallengeLeaves
<1>3. ASSUME NEW a \in Accepts, ChatTap(a) \/ AcceptStart(a) \/ AcceptStep(a) PROVE OneServed'
  <2>1. CASE ChatTap(a)
    <3>1. /\ accept[a] = "idle" /\ IsChat(a) /\ accept'[a] \in {"tapped", "notFound"}
          /\ UNCHANGED botQueue /\ \A b \in Accepts : b # a => accept'[b] = accept[b]
      BY <1>a, <2>1 DEF ChatTap, AcceptTo, IsChat
    <3>0. \A i \in DOMAIN botQueue : botQueue[i] \in Accepts
      BY <1>a
    <3>2. \A i \in DOMAIN botQueue : botQueue[i] # a /\ botQueue[i] \in Accepts
      BY <3>0, <3>1 DEF OneServed, InFlight, Answered
    <3>3. \A i \in DOMAIN botQueue : accept'[botQueue[i]] = accept[botQueue[i]]
      BY <3>1, <3>2
    <3>4. \A b \in Accepts : accept'[b] \in InFlight => b # a /\ accept[b] \in InFlight
      BY <3>1 DEF InFlight
    <3>5. \A b \in Accepts : accept'[b] \in {"tapped", "queued"} => IsChat(b)
      BY <3>1 DEF OneServed
    <3> QED
      BY <3>1, <3>3, <3>4, <3>5, ZenonT(60) DEF OneServed, IsChat
  <2>2. CASE ChatQueue(a)
    <3>1. /\ accept[a] = "tapped" /\ IsChat(a) /\ accept'[a] = "queued"
          /\ \A b \in Accepts : b # a => accept'[b] = accept[b]
          /\ botQueue' = Append(botQueue, a)
      BY <1>a, <2>2 DEF ChatQueue, AcceptTo, OneServed
    <3>2. \A i \in DOMAIN botQueue : botQueue[i] # a /\ botQueue[i] \in Accepts
      BY <1>a, <3>1 DEF OneServed, InFlight, Answered
    <3>3. /\ Len(botQueue) \in Nat /\ DOMAIN botQueue = 1..Len(botQueue)
          /\ DOMAIN botQueue' = 1..(Len(botQueue) + 1)
          /\ botQueue'[Len(botQueue) + 1] = a
          /\ \A i \in DOMAIN botQueue : botQueue'[i] = botQueue[i]
      BY <1>a, <3>1
    <3>4. \A i \in DOMAIN botQueue' : i \in DOMAIN botQueue \/ i = Len(botQueue) + 1
      BY <3>3
    <3>5. \A i \in DOMAIN botQueue' :
             IsChat(botQueue'[i]) /\ accept'[botQueue'[i]] \in InFlight \cup Answered \cup {"queued"}
      BY <3>1, <3>2, <3>3, <3>4 DEF OneServed
    <3>6. \A i, j \in DOMAIN botQueue' : botQueue'[i] = botQueue'[j] => i = j
      BY <3>2, <3>3, <3>4 DEF OneServed
    <3>7. \A b \in Accepts : IsChat(b) /\ accept'[b] \in InFlight =>
              botQueue' # <<>> /\ botQueue'[1] = b
      <4> TAKE b \in Accepts
      <4> HAVE IsChat(b) /\ accept'[b] \in InFlight
      <4>1. accept[b] \in InFlight
        BY <3>1 DEF InFlight
      <4>2. botQueue # <<>> /\ botQueue[1] = b
        BY <4>1 DEF OneServed
      <4>3. 1 \in DOMAIN botQueue /\ Len(botQueue') = Len(botQueue) + 1
        BY <1>a, <3>1, <4>2
      <4> QED
        BY <1>a, <3>1, <3>3, <4>2, <4>3
    <3>8. \A b \in Accepts : accept'[b] \in {"tapped", "queued"} => IsChat(b)
      BY <3>1 DEF OneServed
    <3> QED
      BY <3>5, <3>6, <3>7, <3>8 DEF OneServed, IsChat
  <2>3. CASE AcceptStart(a)
    BY <2>3, MovesServed DEF AcceptStart, InFlight, IsChat
  <2>4. CASE AcceptGet(a)
    <3>1. PICK pc \in {"lock", "notFound"} : AcceptTo(a, pc)
      BY <2>4 DEF AcceptGet
    <3>2. accept[a] = "get" /\ UNCHANGED botQueue
      BY <2>4 DEF AcceptGet
    <3> QED
      BY <3>1, <3>2, MovesServed, EndsServed DEF InFlight, Answered
  <2>5. CASE AcceptLock(a)
    BY <2>5, MovesServed DEF AcceptLock, InFlight
  <2>6. CASE AcceptLockRefused(a)
    BY <2>6, EndsServed DEF AcceptLockRefused, InFlight, Answered
  <2>7. CASE AcceptDel(a)
    BY <2>7, MovesServed DEF AcceptDel, InFlight
  <2>8. CASE AcceptSave(a)
    BY <2>8, MovesServed DEF AcceptSave, InFlight
  <2>9. CASE AcceptEnqueue(a)
    BY <2>9, EndsServed DEF AcceptEnqueue, InFlight, Answered
  <2>10. CASE AcceptFails(a)
    BY <2>10, EndsServed DEF AcceptFails, InFlight, Answered
  <2>11. CASE ChatLeaves(a)
    BY <2>11, LeavesServed
  <2> QED
    BY <1>3, <2>1, <2>2, <2>3, <2>4, <2>5, <2>6, <2>7, <2>8, <2>9, <2>10, <2>11 DEF AcceptStep
<1>4. CASE (\E a \in Accepts : SettleStart(a)) \/ SettleStep
  BY <1>1, <1>4, SettleLeaves
<1>5. CASE Crash
  <2>1. /\ \A a \in Accepts : accept'[a] = AfterCrash(a)
        /\ botQueue' = IF botQueue # <<>> /\ AfterCrash(Head(botQueue)) # "queued"
                       THEN Tail(botQueue) ELSE botQueue
    BY <1>5 DEF Crash
  <2>2. \A a \in Accepts :
           /\ AfterCrash(a) \notin InFlight \cup {"tapped"}
           /\ accept[a] \in InFlight \cup Answered \cup {"queued"} =>
                 AfterCrash(a) \in Answered \cup {"queued"}
           /\ AfterCrash(a) = "queued" => accept[a] = "queued" \/ Served(a)
    BY DEF AfterCrash, InFlight, Answered
  <2>3. \A a \in Accepts : Served(a) => IsChat(a)
    BY <1>a DEF Served, OneServed
  <2>4. \A a \in Accepts : accept'[a] \in {"tapped", "queued"} => IsChat(a)
    BY <2>1, <2>2, <2>3 DEF OneServed
  <2>5. \A i \in DOMAIN botQueue : botQueue[i] \in Accepts
    BY <1>a
  <2>6. \A i \in DOMAIN botQueue' : \E j \in DOMAIN botQueue : botQueue'[i] = botQueue[j]
    <3>1. CASE botQueue # <<>> /\ AfterCrash(Head(botQueue)) # "queued"
      <4>1. \A i \in DOMAIN botQueue' : /\ i + 1 \in DOMAIN botQueue
                                       /\ botQueue'[i] = botQueue[i + 1]
        BY <1>a, <2>1, <3>1
      <4> QED
        BY <4>1
    <3>2. CASE ~(botQueue # <<>> /\ AfterCrash(Head(botQueue)) # "queued")
      BY <2>1, <3>2
    <3> QED
      BY <3>1, <3>2
  <2>7. \A i \in DOMAIN botQueue' :
           IsChat(botQueue'[i]) /\ accept'[botQueue'[i]] \in InFlight \cup Answered \cup {"queued"}
    <3>1. \A i \in DOMAIN botQueue :
             IsChat(botQueue[i]) /\ accept'[botQueue[i]] \in Answered \cup {"queued"}
      BY <2>1, <2>2, <2>5 DEF OneServed
    <3> QED
      BY <2>6, <3>1
  <2>8. \A i, j \in DOMAIN botQueue' : botQueue'[i] = botQueue'[j] => i = j
    <3>1. CASE botQueue # <<>> /\ AfterCrash(Head(botQueue)) # "queued"
      <4>1. \A i \in DOMAIN botQueue' : /\ i + 1 \in DOMAIN botQueue /\ i \in Nat
                                       /\ botQueue'[i] = botQueue[i + 1]
        BY <1>a, <2>1, <3>1
      <4> QED
        BY <4>1 DEF OneServed
    <3>2. CASE ~(botQueue # <<>> /\ AfterCrash(Head(botQueue)) # "queued")
      BY <2>1, <3>2 DEF OneServed
    <3> QED
      BY <3>1, <3>2
  <2>9. \A a \in Accepts : accept'[a] \notin InFlight
    BY <2>1, <2>2
  <2> QED
    BY <2>4, <2>7, <2>8, <2>9 DEF OneServed, IsChat
<1>6. CASE UNCHANGED vars
  BY <1>1, <1>6 DEF vars
<1> QED
  BY <1>2, <1>3, <1>4, <1>5, <1>6 DEF Next

-----------------------------------------------------------------------------
(* The key of a challenge is stored once, and its margin goes back once. *)
LEMMA KeysOnceStep ==
    ASSUME TypeOK, KeysOnce, RefundedOnce, [Next]_vars
    PROVE  KeysOnce' /\ RefundedOnce' /\ refunds' \in [Challenges -> Nat]
<1> DEFINE Goal == KeysOnce' /\ RefundedOnce' /\ refunds' \in [Challenges -> Nat]
<1> USE RequestsAssumption
<1>a. /\ create \in [Challenges -> {"idle", "lock", "set", "done", "failed", "refused"}]
      /\ cancel \in [Challenges -> {"idle", "again", "del", "refund"}]
      /\ refunds \in [Challenges -> Nat]
  BY DEF TypeOK
<1>b. CASE UNCHANGED <<create, cancel, refunds>> /\ pvpKeys' \subseteq pvpKeys
  BY <1>a, <1>b DEF KeysOnce, RefundedOnce
<1>1. ASSUME NEW c \in Challenges, CreateStep(c) PROVE Goal
  <2>1. UNCHANGED <<cancel, refunds>>
    BY <1>1 DEF CreateStep, CreateCheck, CreateLock, CreateLockRefused, CreateSet,
                CreateSetFails, cancelVars
  <2>2. \A d \in Challenges : d # c => create'[d] = create[d]
    <3>1. \E pc : CreateTo(c, pc)
      BY <1>1 DEF CreateStep, CreateCheck, CreateLock, CreateLockRefused, CreateSet,
                  CreateSetFails
    <3> QED
      BY <1>a, <3>1 DEF CreateTo
  <2>3. CASE CreateSet(c)
    <3>1. create[c] = "set" /\ create'[c] = "done" /\ pvpKeys' = pvpKeys \cup {c}
      BY <1>a, <2>3 DEF CreateSet, CreateTo
    <3>2. refunds[c] = 0 /\ cancel[c] \notin {"del", "refund"}
      <4>1. /\ refunds[c] > 0 => create[c] = "done"
            /\ cancel[c] \in {"del", "refund"} => create[c] = "done"
        BY DEF KeysOnce
      <4>2. refunds[c] \in Nat /\ create[c] # "done"
        BY <1>a, <3>1
      <4> QED
        BY <4>1, <4>2
    <3> QED
      BY <1>a, <2>1, <2>2, <3>1, <3>2 DEF KeysOnce, RefundedOnce
  <2>4. CASE ~CreateSet(c)
    <3>1. create[c] # "done" /\ UNCHANGED pvpKeys
      BY <1>1, <2>4 DEF CreateStep, CreateCheck, CreateLock, CreateLockRefused, CreateSetFails
    <3> QED
      BY <1>a, <2>1, <2>2, <3>1 DEF KeysOnce, RefundedOnce
  <2> QED
    BY <2>3, <2>4
<1>2. ASSUME NEW c \in Challenges, CancelStep(c) PROVE Goal
  <2>1. UNCHANGED create
    BY <1>2 DEF CancelStep, CancelFind, CancelAgain, CancelDel, CancelRefund,
                CancelRefundRefused, CancelFails, createVars
  <2>2. CASE CancelFind(c)
    BY <1>a, <2>1, <2>2 DEF CancelFind, CancelTo, KeysOnce, RefundedOnce
  <2>3. CASE CancelAgain(c)
    BY <1>a, <2>1, <2>3 DEF CancelAgain, CancelTo, KeysOnce, RefundedOnce
  <2>4. CASE CancelDel(c)
    BY <1>a, <2>1, <2>4 DEF CancelDel, CancelTo, CancelLeaves, KeysOnce, RefundedOnce
  <2>5. CASE CancelRefund(c)
    <3>0. /\ cancel[c] = "refund" /\ refunds[c] = 0 /\ c \notin pvpKeys /\ create[c] = "done"
      BY <2>5 DEF CancelRefund, KeysOnce
    <3>1. /\ cancel'[c] = "idle" /\ refunds'[c] = 1 /\ UNCHANGED pvpKeys
          /\ refunds' \in [Challenges -> Nat]
          /\ \A d \in Challenges : d # c => cancel'[d] = cancel[d] /\ refunds'[d] = refunds[d]
      <4>1. /\ cancel' = [cancel EXCEPT ![c] = "idle"] /\ UNCHANGED pvpKeys
            /\ refunds' = [refunds EXCEPT ![c] = refunds[c] + 1]
        BY <2>5 DEF CancelRefund, CancelTo
      <4> QED
        BY <1>a, <3>0, <4>1
    <3> QED
      BY <2>1, <3>0, <3>1 DEF KeysOnce, RefundedOnce
  <2>6. CASE CancelRefundRefused(c) \/ CancelFails(c)
    BY <1>a, <2>1, <2>6 DEF CancelRefundRefused, CancelFails, CancelTo, KeysOnce, RefundedOnce
  <2> QED
    BY <1>2, <2>2, <2>3, <2>4, <2>5, <2>6 DEF CancelStep
<1>3. ASSUME NEW c \in Challenges, GrowsStale(c) PROVE Goal
  BY <1>b, <1>3 DEF GrowsStale, cancelVars
<1>4. ASSUME NEW a \in Accepts, ChatTap(a) \/ AcceptStart(a) \/ AcceptStep(a) PROVE Goal
  <2>1. UNCHANGED <<create, cancel, refunds>>
    BY <1>4, AcceptLeaves
  <2>2. pvpKeys' \subseteq pvpKeys
    BY <1>4 DEF ChatTap, AcceptStart, AcceptStep, ChatQueue, AcceptGet, AcceptLock,
                AcceptLockRefused, AcceptDel, AcceptSave, AcceptEnqueue, AcceptFails, ChatLeaves,
                KeysWithout
  <2> QED
    BY <1>b, <2>1, <2>2
<1>5. CASE (\E a \in Accepts : SettleStart(a)) \/ SettleStep
  BY <1>b, <1>5, SettleLeaves
<1>6. CASE Crash
  <2>1. /\ UNCHANGED <<pvpKeys, refunds>> /\ \A c \in Challenges : cancel'[c] = "idle"
        /\ \A c \in Challenges : create[c] = "done" => create'[c] = "done"
    BY <1>6 DEF Crash
  <2> QED
    BY <1>a, <2>1 DEF KeysOnce, RefundedOnce
<1>7. CASE UNCHANGED vars
  BY <1>b, <1>7 DEF vars
<1> QED
  BY <1>1, <1>2, <1>3, <1>4, <1>5, <1>6, <1>7 DEF Next

-----------------------------------------------------------------------------
(* Acceptances of the chat find the key of a challenge without a room. *)
LEMMA RoomsOnceStep ==
    ASSUME TypeOK, OneServed, KeysOnce, RoomsOnce, [Next]_vars
    PROVE  RoomsOnce'
<1> USE RequestsAssumption
<1>a. /\ create \in [Challenges -> {"idle", "lock", "set", "done", "failed", "refused"}]
      /\ accept \in [Accepts -> {"idle", "tapped", "queued", "get", "lock", "del", "save",
                                 "enqueue", "done", "notFound", "failed"}]
      /\ rooms \in [Accepts -> Room]
  BY DEF TypeOK
<1>b. ASSUME \A c \in Challenges : create[c] = "done" => create'[c] = "done",
             \A c \in Challenges : create[c] = "done" /\ c \in pvpKeys' => c \in pvpKeys,
             \A b \in Accepts : accept'[b] \in {accept[b], "get", "queued", "tapped", "notFound", "failed"},
             UNCHANGED rooms
      PROVE  RoomsOnce'
  <2>1. \A b \in Accepts : /\ accept'[b] \in {"lock", "del", "save", "enqueue", "done"} =>
                                accept'[b] = accept[b]
                           /\ ChallengeOf[b] \in Challenges
    BY <1>b
  <2> QED
    BY <1>b, <2>1 DEF RoomsOnce, IsChat
<1>1. ASSUME NEW c \in Challenges, CreateStep(c) PROVE RoomsOnce'
  <2>1. UNCHANGED <<accept, rooms>>
    BY <1>1, ChallengeLeaves
  <2>2. create[c] # "done" /\ pvpKeys' \subseteq pvpKeys \cup {c}
    BY <1>1 DEF CreateStep, CreateCheck, CreateLock, CreateLockRefused, CreateSet, CreateSetFails
  <2>3. \A d \in Challenges : d # c => create'[d] = create[d]
    <3>1. \E pc : CreateTo(c, pc)
      BY <1>1 DEF CreateStep, CreateCheck, CreateLock, CreateLockRefused, CreateSet,
                  CreateSetFails
    <3> QED
      BY <1>a, <3>1 DEF CreateTo
  <2> QED
    BY <1>b, <2>1, <2>2, <2>3
<1>2. ASSUME NEW c \in Challenges, CancelStep(c) \/ GrowsStale(c) PROVE RoomsOnce'
  <2>1. UNCHANGED <<accept, rooms>>
    BY <1>2, ChallengeLeaves
  <2>2. UNCHANGED create /\ pvpKeys' \subseteq pvpKeys
    BY <1>2 DEF CancelStep, CancelFind, CancelAgain, CancelDel, CancelRefund, CancelLeaves,
                CancelRefundRefused, CancelFails, GrowsStale, createVars
  <2> QED
    BY <1>b, <2>1, <2>2
<1>3. ASSUME NEW a \in Accepts, ChatTap(a) \/ AcceptStart(a) \/ AcceptStep(a) PROVE RoomsOnce'
  <2>1. UNCHANGED create
    BY <1>3, AcceptLeaves
  <2>2. ASSUME NEW pc \in {"get", "queued", "tapped", "notFound", "failed"},
               AcceptTo(a, pc), UNCHANGED <<rooms, pvpKeys>>
        PROVE  RoomsOnce'
    <3>1. \A b \in Accepts : accept'[b] \in {accept[b], "get", "queued", "tapped", "notFound", "failed"}
      BY <1>a, <2>2 DEF AcceptTo
    <3> QED
      BY <1>b, <2>1, <2>2, <3>1
  <2>3. CASE ChatTap(a)
    BY <2>2, <2>3 DEF ChatTap
  <2>4. CASE ChatQueue(a)
    BY <2>2, <2>4 DEF ChatQueue
  <2>5. CASE AcceptStart(a)
    BY <2>2, <2>5 DEF AcceptStart
  <2>6. CASE AcceptGet(a)
    <3>1. CASE ChallengeOf[a] \in pvpKeys /\ AcceptorOf[a] # Creator(a)
      <4>1. /\ accept'[a] = "lock" /\ UNCHANGED <<rooms, pvpKeys>>
            /\ \A b \in Accepts : b # a => accept'[b] = accept[b]
        BY <1>a, <2>6, <3>1 DEF AcceptGet, AcceptTo
      <4>2. create[ChallengeOf[a]] = "done"
        BY <3>1 DEF KeysOnce
      <4>3. \A b \in Accepts : ChallengeOf[b] = ChallengeOf[a] => ~rooms[b].saved
        BY <3>1 DEF RoomsOnce
      <4> QED
        BY <2>1, <4>1, <4>2, <4>3 DEF RoomsOnce, IsChat
    <3>2. CASE ~(ChallengeOf[a] \in pvpKeys /\ AcceptorOf[a] # Creator(a))
      BY <2>2, <2>6, <3>2 DEF AcceptGet
    <3> QED
      BY <3>1, <3>2
  <2>7. CASE AcceptLock(a)
    <3>1. /\ accept[a] = "lock" /\ accept'[a] = "del" /\ UNCHANGED <<rooms, pvpKeys>>
          /\ \A b \in Accepts : b # a => accept'[b] = accept[b]
      BY <1>a, <2>7 DEF AcceptLock, AcceptTo
    <3> QED
      BY <2>1, <3>1 DEF RoomsOnce, IsChat
  <2>8. CASE AcceptDel(a)
    <3>1. /\ accept[a] = "del" /\ accept'[a] = "save" /\ UNCHANGED rooms
          /\ pvpKeys' = pvpKeys \ {ChallengeOf[a]}
          /\ \A b \in Accepts : b # a => accept'[b] = accept[b]
      BY <1>a, <2>8 DEF AcceptDel, AcceptTo, KeysWithout
    <3> QED
      BY <2>1, <3>1 DEF RoomsOnce, IsChat
  <2>9. CASE AcceptSave(a)
    <3>1. /\ accept[a] = "save" /\ accept'[a] = "enqueue" /\ UNCHANGED pvpKeys
          /\ \A b \in Accepts : b # a => accept'[b] = accept[b]
      BY <1>a, <2>9 DEF AcceptSave, AcceptTo
    <3>2. PICK p \in Prices :
            rooms' = [rooms EXCEPT ![a] = [saved |-> TRUE, openPrice |-> p, winner |-> NoOne]]
      BY <2>9 DEF AcceptSave
    <3>3. \A b \in Accepts : b # a => rooms'[b] = rooms[b]
      BY <1>a, <3>2
    <3>4. IsChat(a) => \A b \in Accepts : ChallengeOf[b] = ChallengeOf[a] => ~rooms[b].saved
      BY <3>1 DEF RoomsOnce
    <3>5. \A b \in Accepts : b # a /\ IsChat(b) /\ IsChat(a) => accept[b] \notin InFlight
      BY <3>1 DEF OneServed, InFlight
    <3>6. \A b \in Accepts : ChallengeOf[b] = ChallengeOf[a] => (IsChat(b) <=> IsChat(a))
      BY DEF IsChat
    <3>7. \A d \in Accepts :
            /\ accept'[d] \in {"lock", "del", "save", "enqueue", "done"} \/ rooms'[d].saved =>
                  create'[ChallengeOf[d]] = "done"
            /\ accept'[d] \in {"save", "enqueue"} \/ rooms'[d].saved => ChallengeOf[d] \notin pvpKeys'
      BY <2>1, <3>1, <3>3 DEF RoomsOnce
    <3>8. ASSUME NEW d \in Accepts, NEW b \in Accepts,
                 rooms'[b].saved, IsChat(d), ChallengeOf[b] = ChallengeOf[d]
          PROVE  /\ accept'[d] \notin {"lock", "del", "save"}
                 /\ accept'[d] = "enqueue" \/ rooms'[d].saved => d = b
      <4>1. CASE ChallengeOf[d] # ChallengeOf[a]
        BY <3>1, <3>3, <3>8, <4>1 DEF RoomsOnce
      <4>2. CASE ChallengeOf[d] = ChallengeOf[a]
        <5>1. IsChat(a) /\ b = a
          BY <3>3, <3>4, <3>6, <3>8, <4>2
        <5>2. d # a => accept'[d] \notin InFlight /\ ~rooms'[d].saved
          BY <3>1, <3>3, <3>4, <3>5, <3>8, <4>2, <5>1
        <5> QED
          BY <3>1, <5>1, <5>2 DEF InFlight
      <4> QED
        BY <4>1, <4>2
    <3> QED
      BY <3>7, <3>8 DEF RoomsOnce, IsChat
  <2>10. CASE AcceptEnqueue(a)
    <3>1. /\ accept[a] = "enqueue" /\ accept'[a] = "done" /\ UNCHANGED <<rooms, pvpKeys>>
          /\ \A b \in Accepts : b # a => accept'[b] = accept[b]
      BY <1>a, <2>10 DEF AcceptEnqueue, AcceptTo
    <3> QED
      BY <2>1, <3>1 DEF RoomsOnce, IsChat
  <2>11. CASE AcceptLockRefused(a)
    BY <2>2, <2>11 DEF AcceptLockRefused
  <2>12. CASE AcceptFails(a)
    BY <2>2, <2>12 DEF AcceptFails
  <2>13. CASE ChatLeaves(a)
    BY <1>b, <2>1, <2>13 DEF ChatLeaves
  <2> QED
    BY <1>3, <2>3, <2>4, <2>5, <2>6, <2>7, <2>8, <2>9, <2>10, <2>11, <2>12, <2>13 DEF AcceptStep
<1>4. CASE (\E a \in Accepts : SettleStart(a)) \/ SettleStep
  <2>1. UNCHANGED <<create, pvpKeys, accept>>
    BY <1>4, SettleLeaves
  <2>2. \A b \in Accepts : rooms'[b].saved <=> rooms[b].saved
    <3>1. UNCHANGED rooms \/ rooms' = [rooms EXCEPT ![settle.room].winner = settle.winner]
      BY <1>4 DEF SettleStart, SettleStep, SettlePrice, SettleCall, SettleRecord, SettleFails,
                  SettleUndo, SettleUndoFails, SettleEnds
    <3> QED
      BY <1>a, <3>1, SMTT(30) DEF Room
  <2>3. \A a \in Accepts :
          /\ accept'[a] \in {"lock", "del", "save", "enqueue", "done"} \/ rooms'[a].saved =>
                create'[ChallengeOf[a]] = "done"
          /\ accept'[a] \in {"save", "enqueue"} \/ rooms'[a].saved => ChallengeOf[a] \notin pvpKeys'
    BY <2>1, <2>2 DEF RoomsOnce
  <2>4. \A a, b \in Accepts :
          rooms'[b].saved /\ IsChat(a) /\ ChallengeOf[b] = ChallengeOf[a] =>
              /\ accept'[a] \notin {"lock", "del", "save"}
              /\ accept'[a] = "enqueue" \/ rooms'[a].saved => a = b
    BY <2>1, <2>2 DEF RoomsOnce
  <2> QED
    BY <2>3, <2>4 DEF RoomsOnce, IsChat
<1>5. CASE Crash
  <2>1. /\ UNCHANGED <<rooms, pvpKeys>> /\ \A a \in Accepts : accept'[a] = AfterCrash(a)
        /\ \A c \in Challenges : create[c] = "done" => create'[c] = "done"
    BY <1>5 DEF Crash
  <2>2. \A a \in Accepts : AfterCrash(a) \in {accept[a], "queued", "failed"}
    BY DEF AfterCrash
  <2> QED
    BY <1>b, <2>1, <2>2
<1>6. CASE UNCHANGED vars
  BY <1>b, <1>6 DEF vars
<1> QED
  BY <1>1, <1>2, <1>3, <1>4, <1>5, <1>6 DEF Next

-----------------------------------------------------------------------------
(* Values keep their types; of the calls of a room, none stands more than  *)
(* twice, since its job runs twice at most.                                *)
Jobs == [Accepts -> {"none", "waiting", "active", "completed", "failed"}]
Steps == [Accepts -> {"idle", "tapped", "queued", "get", "lock", "del", "save", "enqueue", "done",
                      "notFound", "failed"}]

TypesOfChallenge ==
    /\ create \in [Challenges -> {"idle", "lock", "set", "done", "failed", "refused"}]
    /\ pvpKeys \subseteq Challenges /\ stale \subseteq Challenges
    /\ cancel \in [Challenges -> {"idle", "again", "del", "refund"}]
TypesOfAccept ==
    accept \in Steps /\ botQueue \in Seq(Accepts) /\ rooms \in [Accepts -> Room]
TypesOfMoney ==
    wallet \in [Users -> Account] /\ faults \in 0..MaxFaults

LEMMA FaultType == ASSUME TypesOfMoney, Fault \/ UNCHANGED faults PROVE faults' \in 0..MaxFaults
BY LimitsAssumption DEF TypesOfMoney, Fault

LEMMA LockType ==
    ASSUME TypesOfMoney, NEW u \in Users, Lock(u) \/ Release(u)
    PROVE  /\ wallet' \in [Users -> Account]
           /\ \A v \in Users : v # u => wallet'[v] = wallet[v]
           /\ Lock(u) => wallet'[u].locked = wallet[u].locked + amount
           /\ Release(u) => wallet'[u].locked = wallet[u].locked - amount
<1>a. amount \in Int /\ -amount \in Int /\ wallet \in [Users -> Account]
      /\ wallet[u].locked + (-amount) = wallet[u].locked - amount
  BY Amounts DEF TypesOfMoney, Account
<1>1. CASE Lock(u)
  <2>1. wallet' = [wallet EXCEPT ![u] = ChangeLocked(@, amount)]
    BY <1>1 DEF Lock
  <2>2. wallet'[u].locked = wallet[u].locked + amount
    BY <1>a, <2>1, AccountChanged
  <2>3. /\ wallet' \in [Users -> Account]
        /\ \A v \in Users : v # u => wallet'[v] = wallet[v]
    BY <1>a, <2>1, AccountChanged
  <2>4. Release(u) => wallet'[u].locked = wallet[u].locked - amount
    BY <1>a, AccountChanged DEF Release
  <2> QED
    BY <2>2, <2>3, <2>4
<1>2. CASE Release(u)
  <2>1. wallet' = [wallet EXCEPT ![u] = ChangeLocked(@, -amount)]
    BY <1>2 DEF Release
  <2>2. wallet'[u].locked = wallet[u].locked - amount
    BY <1>a, <2>1, AccountChanged
  <2>3. /\ wallet' \in [Users -> Account]
        /\ \A v \in Users : v # u => wallet'[v] = wallet[v]
    BY <1>a, <2>1, AccountChanged
  <2>4. Lock(u) => wallet'[u].locked = wallet[u].locked + amount
    BY <1>a, AccountChanged DEF Lock
  <2> QED
    BY <2>2, <2>3, <2>4
<1> QED
  BY <1>1, <1>2

LEMMA ChallengeTypes ==
    ASSUME TypesOfChallenge, TypesOfMoney, NEW c \in Challenges,
           CreateStep(c) \/ CancelStep(c) \/ GrowsStale(c)
    PROVE  TypesOfChallenge' /\ TypesOfMoney'
<1> DEFINE Goal == TypesOfChallenge' /\ TypesOfMoney'
<1> USE RequestsAssumption
<1>1. CreatorOf[c] \in Users
  OBVIOUS
<1>2. ASSUME CreateStep(c) PROVE Goal
  <2>1. UNCHANGED <<stale, cancel>>
    BY <1>2 DEF CreateStep, CreateCheck, CreateLock, CreateLockRefused, CreateSet, CreateSetFails,
                cancelVars
  <2>2. \E pc \in {"lock", "set", "done", "failed", "refused"} : CreateTo(c, pc)
    BY <1>2 DEF CreateStep, CreateCheck, CreateLock, CreateLockRefused, CreateSet, CreateSetFails
  <2>3. pvpKeys' \subseteq pvpKeys \cup {c}
    BY <1>2 DEF CreateStep, CreateCheck, CreateLock, CreateLockRefused, CreateSet, CreateSetFails
  <2>4. Lock(CreatorOf[c]) \/ UNCHANGED wallet
    BY <1>2 DEF CreateStep, CreateCheck, CreateLock, CreateLockRefused, CreateSet, CreateSetFails
  <2>5. Fault \/ UNCHANGED faults
    BY <1>2 DEF CreateStep, CreateCheck, CreateLock, CreateLockRefused, CreateSet, CreateSetFails,
                Refused
  <2>6. TypesOfChallenge'
    BY <2>1, <2>2, <2>3 DEF TypesOfChallenge, CreateTo
  <2>7. TypesOfMoney'
    BY <1>1, <2>4, <2>5, LockType, FaultType DEF TypesOfMoney
  <2> QED
    BY <2>6, <2>7
<1>3. ASSUME CancelStep(c) PROVE Goal
  <2>1. UNCHANGED <<stale, create>>
    BY <1>3 DEF CancelStep, CancelFind, CancelAgain, CancelDel, CancelRefund, CancelRefundRefused,
                CancelFails, createVars
  <2>2. \E pc \in {"idle", "again", "del", "refund"} : CancelTo(c, pc)
    BY <1>3 DEF CancelStep, CancelFind, CancelAgain, CancelDel, CancelRefund, CancelRefundRefused,
                CancelFails
  <2>3. pvpKeys' \subseteq pvpKeys
    BY <1>3 DEF CancelStep, CancelFind, CancelAgain, CancelDel, CancelRefund, CancelRefundRefused,
                CancelFails, CancelLeaves
  <2>4. Release(CreatorOf[c]) \/ UNCHANGED wallet
    BY <1>3 DEF CancelStep, CancelFind, CancelAgain, CancelDel, CancelRefund, CancelRefundRefused,
                CancelFails
  <2>5. Fault \/ UNCHANGED faults
    BY <1>3 DEF CancelStep, CancelFind, CancelAgain, CancelDel, CancelRefund, CancelRefundRefused,
                CancelFails, Refused
  <2>6. TypesOfChallenge'
    BY <2>1, <2>2, <2>3 DEF TypesOfChallenge, CancelTo
  <2>7. TypesOfMoney'
    BY <1>1, <2>4, <2>5, LockType, FaultType DEF TypesOfMoney
  <2> QED
    BY <2>6, <2>7
<1>4. ASSUME GrowsStale(c) PROVE Goal
  BY <1>4 DEF GrowsStale, cancelVars, TypesOfChallenge, TypesOfMoney
<1> QED
  BY <1>2, <1>3, <1>4

LEMMA AcceptTypes ==
    ASSUME TypesOfAccept, TypesOfMoney, TypesOfChallenge, jobs \in Jobs, NEW a \in Accepts,
           ChatTap(a) \/ AcceptStart(a) \/ AcceptStep(a)
    PROVE  TypesOfAccept' /\ TypesOfMoney' /\ TypesOfChallenge' /\ jobs' \in Jobs
<1>1. UNCHANGED accept
      \/ \E pc \in {"tapped", "notFound", "queued", "get", "lock", "del", "save", "enqueue",
                     "done", "failed"} : AcceptTo(a, pc)
  BY DEF ChatTap, AcceptStart, AcceptStep, ChatQueue, AcceptGet, AcceptLock, AcceptLockRefused,
         AcceptDel, AcceptSave, AcceptEnqueue, AcceptFails, ChatLeaves
<1>2. \/ UNCHANGED botQueue \/ botQueue' = Append(botQueue, a)
      \/ botQueue # <<>> /\ botQueue' = Tail(botQueue)
  BY DEF ChatTap, AcceptStart, AcceptStep, ChatQueue, AcceptGet, AcceptLock, AcceptLockRefused,
         AcceptDel, AcceptSave, AcceptEnqueue, AcceptFails, ChatLeaves
<1>3. UNCHANGED rooms \/ \E p \in Prices :
          rooms' = [rooms EXCEPT ![a] = [saved |-> TRUE, openPrice |-> p, winner |-> NoOne]]
  BY DEF ChatTap, AcceptStart, AcceptStep, ChatQueue, AcceptGet, AcceptLock, AcceptLockRefused,
         AcceptDel, AcceptSave, AcceptEnqueue, AcceptFails, ChatLeaves
<1>4. UNCHANGED jobs \/ jobs' = [jobs EXCEPT ![a] = "waiting"]
  BY DEF ChatTap, AcceptStart, AcceptStep, ChatQueue, AcceptGet, AcceptLock, AcceptLockRefused,
         AcceptDel, AcceptSave, AcceptEnqueue, AcceptFails, ChatLeaves
<1>5. UNCHANGED wallet \/ Lock(AcceptorOf[a])
  BY DEF ChatTap, AcceptStart, AcceptStep, ChatQueue, AcceptGet, AcceptLock, AcceptLockRefused,
         AcceptDel, AcceptSave, AcceptEnqueue, AcceptFails, ChatLeaves
<1>6. UNCHANGED faults \/ Fault
  BY DEF ChatTap, AcceptStart, AcceptStep, ChatQueue, AcceptGet, AcceptLock, AcceptLockRefused,
         AcceptDel, AcceptSave, AcceptEnqueue, AcceptFails, ChatLeaves, Refused
<1>7. pvpKeys' \subseteq pvpKeys
  BY DEF ChatTap, AcceptStart, AcceptStep, ChatQueue, AcceptGet, AcceptLock, AcceptLockRefused,
         AcceptDel, AcceptSave, AcceptEnqueue, AcceptFails, ChatLeaves, KeysWithout
<1>8. UNCHANGED <<create, stale, cancel>>
  BY AcceptLeaves
<1>9. accept' \in Steps
  BY <1>1 DEF TypesOfAccept, Steps, AcceptTo
<1>10. botQueue' \in Seq(Accepts)
  BY <1>2 DEF TypesOfAccept
<1>11. rooms' \in [Accepts -> Room]
  <2>1. \A p \in Prices : [saved |-> TRUE, openPrice |-> p, winner |-> NoOne] \in Room
    BY DEF Room
  <2> QED
    BY <1>3, <2>1 DEF TypesOfAccept
<1>12. jobs' \in Jobs
  BY <1>4 DEF Jobs
<1>13. TypesOfMoney'
  <2>1. AcceptorOf[a] \in Users
    BY RequestsAssumption
  <2> QED
    BY <1>5, <1>6, <2>1, LockType, FaultType DEF TypesOfMoney
<1> QED
  BY <1>7, <1>8, <1>9, <1>10, <1>11, <1>12, <1>13 DEF TypesOfAccept, TypesOfChallenge

(* The wallet call n of a settlement, and what it frees. *)
AfterCall(call) == [wallet EXCEPT ![call.user] = Changed(@, call.kind, call.amount)]

(* The accounts after the n-th call of w's victory. *)
LEMMA CallMoney ==
    ASSUME TypeOK, NEW r \in Accepts, NEW w \in {Creator(r), AcceptorOf[r]}, NEW n \in 1..4,
           Creator(r) # AcceptorOf[r]
    PROVE  /\ AfterCall(Calls(r, w)[n]) \in [Users -> Account]
           /\ \A u \in Users : AfterCall(Calls(r, w)[n])[u].locked =
                 IF (u = w /\ n = 1) \/ (u = LoserOf(r, w) /\ n = 4) THEN wallet[u].locked - amount
                                                                ELSE wallet[u].locked
           /\ \A u \in Users : AfterCall(Calls(r, w)[n])[u].balance =
                 IF u = w /\ n = 2 THEN wallet[u].balance + 9
                 ELSE IF u = LoserOf(r, w) /\ n = 3 THEN wallet[u].balance - 10
                                                   ELSE wallet[u].balance
<1> DEFINE l == LoserOf(r, w)
           call == Calls(r, w)[n]
           g == AfterCall(call)
<1>1. /\ w \in Users /\ l \in Users /\ l # w
      /\ call.user = IF n \in 1..2 THEN w ELSE l
      /\ call.kind = IF n \in {1, 4} THEN "locked" ELSE "balance"
      /\ call.amount = IF n = 2 THEN 9 ELSE -10
  BY CallsAre
<1>2. wallet \in [Users -> Account]
      /\ \A u \in Users : wallet[u].locked \in Int /\ wallet[u].balance \in Int
  BY DEF TypeOK, Account
<1>3. g = [wallet EXCEPT ![call.user] = Changed(@, call.kind, call.amount)]
  BY DEF AfterCall
<1>q. SUFFICES /\ g \in [Users -> Account]
               /\ \A u \in Users : g[u].locked =
                     IF (u = w /\ n = 1) \/ (u = l /\ n = 4) THEN wallet[u].locked - amount
                                                         ELSE wallet[u].locked
               /\ \A u \in Users : g[u].balance =
                     IF u = w /\ n = 2 THEN wallet[u].balance + 9
                     ELSE IF u = l /\ n = 3 THEN wallet[u].balance - 10
                                           ELSE wallet[u].balance
  OBVIOUS
<1> HIDE DEF call, l, g
<1>4. CASE n \in {1, 4}
  <2>1. /\ g = [wallet EXCEPT ![call.user] = ChangeLocked(@, -10)]
        /\ call.user \in Users /\ call.user = IF n = 1 THEN w ELSE l
    <3>1. call.user \in Users /\ call.kind = "locked" /\ call.amount = -10
          /\ call.user = IF n = 1 THEN w ELSE l
      BY <1>1, <1>4
    <3>2. Changed(wallet[call.user], call.kind, call.amount) = ChangeLocked(wallet[call.user], -10)
      BY <3>1 DEF Changed
    <3> QED
      BY <1>3, <3>1, <3>2
  <2>2. /\ g \in [Users -> Account]
        /\ \A u \in Users : u # call.user => g[u] = wallet[u]
    BY <1>2, <2>1, AccountChanged
  <2>3. /\ g[call.user].locked = wallet[call.user].locked + (-10)
        /\ g[call.user].balance = wallet[call.user].balance
    BY <1>2, <2>1, AccountChanged
  <2> QED
    BY <1>1, <1>2, <1>4, <2>1, <2>2, <2>3, Amounts
<1>5. CASE n \in {2, 3}
  <2>1. call.user \in Users /\ call.kind = "balance" /\ call.amount \in Int
    BY <1>1, <1>5
  <2>2. g = [wallet EXCEPT ![call.user] = ChangeBalance(@, call.amount)]
    <3>1. Changed(wallet[call.user], call.kind, call.amount)
            = ChangeBalance(wallet[call.user], call.amount)
      BY <2>1 DEF Changed
    <3> QED
      BY <1>3, <3>1
  <2>a. PICK v \in Users, d \in Int : v = call.user /\ d = call.amount
    BY <2>1
  <2>b. g = [wallet EXCEPT ![v] = ChangeBalance(@, d)]
    BY <2>2, <2>a
  <2>3. /\ g \in [Users -> Account]
        /\ \A u \in Users : u # v => g[u] = wallet[u]
    <3>1. g \in [Users -> Account]
      <4>1. ChangeBalance(wallet[v], d) \in Account
        BY <1>2, CallsKeepAccounts
      <4> QED
        BY <1>2, <2>b, <4>1
    <3>2. \A u \in Users : u # v => g[u] = wallet[u]
      BY <1>2, <2>b
    <3> QED
      BY <3>1, <3>2
  <2>4. g[v].locked = wallet[v].locked /\ g[v].balance = wallet[v].balance + d
    BY <1>2, <2>b, AccountChanged
  <2>5. /\ n = 2 => v = w /\ d = 9
        /\ n = 3 => v = l /\ d = -10
    BY <1>1, <2>a
  <2>6. \A u \in Users : g[u].locked = wallet[u].locked
    BY <2>3, <2>4
  <2>7. \A u \in Users : g[u].balance =
           IF u = w /\ n = 2 THEN wallet[u].balance + 9
           ELSE IF u = l /\ n = 3 THEN wallet[u].balance - 10 ELSE wallet[u].balance
    BY <1>1, <1>2, <1>5, <2>3, <2>4, <2>5
  <2> QED
    BY <1>5, <2>3, <2>6, <2>7
<1> QED
  BY <1>4, <1>5

LEMMA SettleTypes ==
    ASSUME TypeOK, WorkerOK, JobsOnce, (\E a \in Accepts : SettleStart(a)) \/ SettleStep
    PROVE  TypesOfMoney' /\ pointPvP' \in [Users -> Int] /\ rooms' \in [Accepts -> Room]
<1> DEFINE Goal ==
      TypesOfMoney' /\ pointPvP' \in [Users -> Int] /\ rooms' \in [Accepts -> Room]
<1> USE RequestsAssumption
<1>a. /\ TypesOfMoney /\ pointPvP \in [Users -> Int] /\ rooms \in [Accepts -> Room]
      /\ settle \in SettleRun
  BY DEF TypeOK, TypesOfMoney
<1>b. settle.pc \in {"call", "record", "undo"} =>
        \E r \in Accepts, w \in Users :
            /\ r = settle.room /\ w = settle.winner /\ w \in {Creator(r), AcceptorOf[r]}
            /\ Creator(r) # AcceptorOf[r]
  <2> SUFFICES ASSUME settle.pc \in {"call", "record", "undo"}
               PROVE  \E r \in Accepts, w \in Users :
                          /\ r = settle.room /\ w = settle.winner
                          /\ w \in {Creator(r), AcceptorOf[r]} /\ Creator(r) # AcceptorOf[r]
    OBVIOUS
  <2>1. PICK r \in Accepts : r = settle.room /\ jobs[r] = "active"
    BY DEF WorkerOK
  <2>2. settle.winner \in {Creator(r), AcceptorOf[r]} /\ Creator(r) \in Users
    BY <2>1 DEF WorkerOK, Creator
  <2>3. Creator(r) # AcceptorOf[r]
    BY <2>1 DEF JobsOnce, JobOnce
  <2> QED
    BY <2>1, <2>2, <2>3
<1>1. ASSUME NEW a \in Accepts, SettleStart(a) PROVE Goal
  BY <1>1, <1>a DEF SettleStart, TypesOfMoney
<1>2. CASE SettlePrice
  BY <1>2, <1>a DEF SettlePrice, TypesOfMoney
<1>3. CASE SettleCall
  <2>1. PICK r \in Accepts, w \in Users :
            /\ r = settle.room /\ w = settle.winner /\ w \in {Creator(r), AcceptorOf[r]}
            /\ Creator(r) # AcceptorOf[r]
    BY <1>3, <1>b DEF SettleCall, Settling
  <2>2. settle.calls + 1 \in 1..4
    BY <1>3, <1>a DEF SettleCall, Settling, WorkerOK, SettleRun
  <2>3. wallet' \in [Users -> Account]
    <3>1. wallet' = AfterCall(Calls(r, w)[settle.calls + 1])
      BY <1>3, <2>1 DEF SettleCall, AfterCall
    <3> QED
      BY <2>1, <2>2, <3>1, CallMoney
  <2>4. /\ UNCHANGED pointPvP
           \/ pointPvP' = [pointPvP EXCEPT ![w] = @ + totalPrize]
        /\ Fault \/ UNCHANGED faults
    BY <1>3, <2>1 DEF SettleCall, AddPointPvP
  <2>5. pointPvP' \in [Users -> Int]
    BY <1>a, <2>4, Amounts
  <2>6. faults' \in 0..MaxFaults
    BY <1>a, <2>4, FaultType
  <2> QED
    BY <1>3, <1>a, <2>3, <2>5, <2>6 DEF SettleCall, TypesOfMoney
<1>4. CASE SettleRecord
  <2>1. PICK r \in Accepts, w \in Users : r = settle.room /\ w = settle.winner
    BY <1>4, <1>b DEF SettleRecord, Settling
  <2>2. rooms' = [rooms EXCEPT ![r].winner = w]
    BY <1>4, <2>1 DEF SettleRecord
  <2>3. rooms' \in [Accepts -> Room]
    BY <1>a, <2>2, ZenonT(60) DEF Room
  <2> QED
    BY <1>4, <1>a, <2>3 DEF SettleRecord, TypesOfMoney
<1>5. CASE SettleFails
  <2>1. Fault \/ UNCHANGED faults
    BY <1>5 DEF SettleFails, Refused
  <2> QED
    BY <1>5, <1>a, <2>1, FaultType DEF SettleFails, TypesOfMoney
<1>6. CASE SettleUndo
  <2>1. PICK r \in Accepts, w \in Users :
            /\ r = settle.room /\ w = settle.winner /\ w \in {Creator(r), AcceptorOf[r]}
            /\ Creator(r) # AcceptorOf[r]
    BY <1>6, <1>b DEF SettleUndo, Settling
  <2>2. settle.calls \in 1..4
    BY <1>6, <1>a DEF SettleUndo, Settling, WorkerOK, SettleRun
  <2>3. wallet' = RolledBack(Calls(r, w), settle.calls)
    BY <1>6, <2>1 DEF SettleUndo
  <2>4. wallet' \in [Users -> Account]
    BY <2>1, <2>2, <2>3, RolledBackIs
  <2> QED
    BY <1>6, <1>a, <2>4 DEF SettleUndo, TypesOfMoney
<1>7. CASE SettleUndoFails
  BY <1>7, <1>a, FaultType DEF SettleUndoFails, TypesOfMoney
<1>8. CASE SettleEnds
  BY <1>8, <1>a DEF SettleEnds, TypesOfMoney
<1> QED
  BY <1>1, <1>2, <1>3, <1>4, <1>5, <1>6, <1>7, <1>8 DEF SettleStep

LEMMA TypeStep ==
    ASSUME TypeOK, WorkerOK, JobsOnce, Ledger, \A b \in Accepts : Settled(b),
           KeysOnce, RefundedOnce,
           [Next]_vars
    PROVE  TypeOK'
<1>a. /\ TypesOfChallenge /\ TypesOfAccept /\ TypesOfMoney /\ jobs \in Jobs
      /\ stalled \subseteq (Accepts \X {"accept", "settle"}) /\ settle \in SettleRun
      /\ pointPvP \in [Users -> Int] /\ crashes \in 0..MaxCrashes
  BY DEF TypeOK, TypesOfChallenge, TypesOfAccept, TypesOfMoney, Jobs, Steps
<1>b. ASSUME TypesOfChallenge', TypesOfAccept', TypesOfMoney', jobs' \in Jobs,
             stalled' \subseteq (Accepts \X {"accept", "settle"}), settle' \in SettleRun,
             pointPvP' \in [Users -> Int], crashes' \in 0..MaxCrashes
      PROVE  TypeOK'
  <2>1. moved' \in [Accepts -> [Users -> [1..4 -> 0..2]]]
    BY LedgerStep DEF Counts
  <2>2. refunds' \in [Challenges -> Nat]
    BY KeysOnceStep
  <2> QED
    BY <1>b, <2>1, <2>2 DEF TypeOK, TypesOfChallenge, TypesOfAccept, TypesOfMoney, Jobs, Steps
<1>1. ASSUME NEW c \in Challenges, CreateStep(c) \/ CancelStep(c) \/ GrowsStale(c) PROVE TypeOK'
  <2>1. TypesOfAccept'
    BY <1>1, <1>a, ChallengeLeaves DEF TypesOfAccept
  <2> QED
    BY <1>1, <1>a, <1>b, <2>1, ChallengeLeaves, ChallengeTypes
<1>2. ASSUME NEW a \in Accepts, ChatTap(a) \/ AcceptStart(a) \/ AcceptStep(a) PROVE TypeOK'
  BY <1>2, <1>a, <1>b, AcceptLeaves, AcceptTypes
<1>3. CASE (\E a \in Accepts : SettleStart(a)) \/ SettleStep
  <2>1. TypesOfChallenge' /\ UNCHANGED <<accept, botQueue, stalled, crashes>>
    BY <1>3, <1>a, SettleLeaves DEF TypesOfChallenge
  <2>2. TypesOfAccept'
    BY <1>3, <1>a, <2>1, SettleTypes DEF TypesOfAccept
  <2>3. settle' \in SettleRun /\ jobs' \in Jobs
    BY <1>3, WorkerStep DEF Jobs
  <2> QED
    BY <1>3, <1>a, <1>b, <2>1, <2>2, <2>3, SettleTypes
<1>4. CASE Crash
  <2>1. TypesOfChallenge'
    BY <1>4, <1>a DEF Crash, TypesOfChallenge
  <2>2. accept' \in Steps /\ jobs' \in Jobs
    BY <1>4, <1>a DEF Crash, AfterCrash, JobAfterCrash, TypesOfAccept, Steps, Jobs, InFlight
  <2>3. botQueue' \in Seq(Accepts)
    BY <1>4, <1>a DEF Crash, TypesOfAccept
  <2>4. TypesOfAccept' /\ TypesOfMoney'
    BY <1>4, <1>a, <2>2, <2>3 DEF Crash, TypesOfAccept, TypesOfMoney
  <2>5. stalled' \subseteq (Accepts \X {"accept", "settle"})
    BY <1>4, <1>a DEF Crash, Interrupted
  <2>6. crashes' \in 0..MaxCrashes
    BY <1>4, <1>a, LimitsAssumption DEF Crash
  <2>7. settle' \in SettleRun /\ pointPvP' \in [Users -> Int]
    BY <1>4, <1>a, AtRestIs DEF Crash
  <2> QED
    BY <1>b, <2>1, <2>2, <2>4, <2>5, <2>6, <2>7
<1>5. CASE UNCHANGED vars
  <2>1. TypesOfChallenge' /\ TypesOfAccept' /\ TypesOfMoney'
    BY <1>5, <1>a DEF vars, TypesOfChallenge, TypesOfAccept, TypesOfMoney
  <2> QED
    BY <1>5, <1>a, <1>b, <2>1 DEF vars
<1> QED
  BY <1>1, <1>2, <1>3, <1>4, <1>5 DEF Next

-----------------------------------------------------------------------------
(* Margins are counted: one at most is locked or freed by a step. *)
LEMMA Counted ==
    ASSUME NEW C, NEW A, IsFiniteSet(C), IsFiniteSet(A), NEW C2, NEW A2, NEW x, NEW y,
           C2 \subseteq C \cup {x}, A2 \subseteq A \cup {y}
    PROVE  /\ IsFiniteSet(C2) /\ IsFiniteSet(A2)
           /\ Cardinality(C2) \in Nat /\ Cardinality(A2) \in Nat
           /\ Cardinality(C) \in Nat /\ Cardinality(A) \in Nat
           /\ Cardinality(C2) <= Cardinality(C) + 1 /\ Cardinality(A2) <= Cardinality(A) + 1
           /\ C2 \subseteq C => Cardinality(C2) <= Cardinality(C)
           /\ A2 \subseteq A => Cardinality(A2) <= Cardinality(A)
           /\ C2 \subseteq C \ {x} /\ x \in C => Cardinality(C2) <= Cardinality(C) - 1
           /\ A2 \subseteq A \ {y} /\ y \in A => Cardinality(A2) <= Cardinality(A) - 1
<1>1. ASSUME NEW S, IsFiniteSet(S), NEW T, NEW z, T \subseteq S \cup {z}
      PROVE  /\ IsFiniteSet(T) /\ Cardinality(T) \in Nat /\ Cardinality(S) \in Nat
             /\ Cardinality(T) <= Cardinality(S) + 1
             /\ T \subseteq S => Cardinality(T) <= Cardinality(S)
             /\ T \subseteq S \ {z} /\ z \in S => Cardinality(T) <= Cardinality(S) - 1
  <2>1. Cardinality(S) \in Nat
    BY <1>1, FS_CardinalityType
  <2>2. IsFiniteSet(S \cup {z}) /\ Cardinality(S \cup {z}) <= Cardinality(S) + 1
    <3>1. IsFiniteSet(S \cup {z})
          /\ Cardinality(S \cup {z}) = IF z \in S THEN Cardinality(S) ELSE Cardinality(S) + 1
      BY <1>1, FS_AddElement
    <3> QED
      BY <2>1, <3>1
  <2>3. /\ IsFiniteSet(T) /\ Cardinality(T) \in Nat
        /\ Cardinality(T) <= Cardinality(S \cup {z})
    BY <1>1, <2>2, FS_Subset, FS_CardinalityType
  <2>4. Cardinality(S \cup {z}) \in Nat
    BY <2>2, FS_CardinalityType
  <2>5. T \subseteq S => Cardinality(T) <= Cardinality(S)
    BY <1>1, FS_Subset
  <2>6. T \subseteq S \ {z} /\ z \in S => Cardinality(T) <= Cardinality(S) - 1
    <3>1. IsFiniteSet(S \ {z}) /\ (z \in S => Cardinality(S \ {z}) = Cardinality(S) - 1)
      BY <1>1, FS_RemoveElement
    <3>2. T \subseteq S \ {z} => Cardinality(T) <= Cardinality(S \ {z})
      BY <3>1, FS_Subset
    <3> QED
      BY <3>1, <3>2
  <2>7. Cardinality(T) <= Cardinality(S) + 1
    BY <2>1, <2>2, <2>3, <2>4
  <2> QED
    BY <2>1, <2>3, <2>5, <2>6, <2>7
<1> QED
  BY <1>1

(* What is locked follows what is held, when one margin is locked or freed. *)
LEMMA HeldStep ==
    ASSUME TypeOK, NEW u \in Users, Held(u), wallet'[u].locked \in Int,
           OneRelease' => OneRelease, NEW x, NEW y,
           CreatorsHeld(u)' \subseteq CreatorsHeld(u) \cup {x},
           AcceptorsHeld(u)' \subseteq AcceptorsHeld(u) \cup {y},
           OneRelease' =>
              \/ /\ CreatorsHeld(u)' \subseteq CreatorsHeld(u)
                 /\ AcceptorsHeld(u)' \subseteq AcceptorsHeld(u)
                 /\ wallet'[u].locked = wallet[u].locked
              \/ /\ CreatorsHeld(u)' \subseteq CreatorsHeld(u)
                    \/ AcceptorsHeld(u)' \subseteq AcceptorsHeld(u)
                 /\ wallet'[u].locked = wallet[u].locked + amount
              \/ /\ x \in CreatorsHeld(u) /\ CreatorsHeld(u)' \subseteq CreatorsHeld(u) \ {x}
                 /\ AcceptorsHeld(u)' \subseteq AcceptorsHeld(u)
                 /\ wallet'[u].locked = wallet[u].locked - amount
              \/ /\ y \in AcceptorsHeld(u) /\ AcceptorsHeld(u)' \subseteq AcceptorsHeld(u) \ {y}
                 /\ CreatorsHeld(u)' \subseteq CreatorsHeld(u)
                 /\ wallet'[u].locked = wallet[u].locked - amount
    PROVE  Held(u)'
<1> DEFINE C == CreatorsHeld(u)
           A == AcceptorsHeld(u)
           l == wallet[u].locked
           C2 == CreatorsHeld(u)'
           A2 == AcceptorsHeld(u)'
           l2 == wallet'[u].locked
<1>1. /\ IsFiniteSet(C2) /\ IsFiniteSet(A2)
      /\ Cardinality(C2) \in Nat /\ Cardinality(A2) \in Nat
      /\ Cardinality(C) \in Nat /\ Cardinality(A) \in Nat
      /\ Cardinality(C2) <= Cardinality(C) + 1 /\ Cardinality(A2) <= Cardinality(A) + 1
      /\ C2 \subseteq C => Cardinality(C2) <= Cardinality(C)
      /\ A2 \subseteq A => Cardinality(A2) <= Cardinality(A)
      /\ C2 \subseteq C \ {x} /\ x \in C => Cardinality(C2) <= Cardinality(C) - 1
      /\ A2 \subseteq A \ {y} /\ y \in A => Cardinality(A2) <= Cardinality(A) - 1
  <2>1. IsFiniteSet(C) /\ IsFiniteSet(A)
    BY DEF Held
  <2> QED
    BY <2>1, Counted
<1>2. l \in Int
  BY DEF TypeOK, Account
<1>3. ASSUME OneRelease' PROVE l2 >= 10 * (Cardinality(C2) + Cardinality(A2))
  <2>1. l >= 10 * (Cardinality(C) + Cardinality(A))
    BY <1>3, Amounts DEF Held
  <2>2. CASE C2 \subseteq C /\ A2 \subseteq A /\ l2 = l
    BY <1>1, <1>2, <2>1, <2>2
  <2>3. CASE (C2 \subseteq C \/ A2 \subseteq A) /\ l2 = l + 10
    BY <1>1, <1>2, <2>1, <2>3
  <2>4. CASE C2 \subseteq C \ {x} /\ x \in C /\ A2 \subseteq A /\ l2 = l - 10
    BY <1>1, <1>2, <2>1, <2>4
  <2>5. CASE A2 \subseteq A \ {y} /\ y \in A /\ C2 \subseteq C /\ l2 = l - 10
    BY <1>1, <1>2, <2>1, <2>5
  <2> QED
    BY <1>3, <2>2, <2>3, <2>4, <2>5, Amounts
<1>4. amount' = 10
  BY DEF amount
<1> QED
  BY <1>1, <1>3, <1>4 DEF Held

(* No challenge outside X begins to hold its creator's margin. *)
LEMMA CreatorsShrink ==
    ASSUME NEW u, NEW X,
           \A c \in Challenges \ X :
              /\ create'[c] \in {"set", "done"} => create[c] \in {"set", "done"}
              /\ refunds'[c] = 0 => refunds[c] = 0,
           \A a \in Accepts : rooms[a].saved => rooms'[a].saved,
           \A a \in Accepts : rooms[a].saved /\ ChallengeOf[a] \notin X /\ Freed(a, u) => Freed(a, u)'
    PROVE  CreatorsHeld(u)' \subseteq CreatorsHeld(u) \cup X
BY DEF CreatorsHeld, RoomsOf

(* No acceptance outside X begins to hold its player's margin. *)
LEMMA AcceptorsShrink ==
    ASSUME NEW u, NEW X,
           \A a \in Accepts \ X :
              /\ accept'[a] \in {"del", "save"} \/ rooms'[a].saved =>
                    accept[a] \in {"del", "save"} \/ rooms[a].saved
              /\ Freed(a, u) => Freed(a, u)'
    PROVE  AcceptorsHeld(u)' \subseteq AcceptorsHeld(u) \cup X
BY DEF AcceptorsHeld

(* Rooms, refunds and interrupted jobs only grow in number. *)
LEMMA Monotone ==
    ASSUME TypeOK, [Next]_vars
    PROVE  /\ \A a \in Accepts : rooms[a].saved => rooms'[a].saved
           /\ \A c \in Challenges : refunds'[c] = 0 => refunds[c] = 0
           /\ OneRelease' => OneRelease
           /\ \E z : {a \in Accepts : rooms[a].saved}' \subseteq {a \in Accepts : rooms[a].saved} \cup {z}
<1> DEFINE Goal ==
      /\ \A a \in Accepts : rooms[a].saved => rooms'[a].saved
      /\ \A c \in Challenges : refunds'[c] = 0 => refunds[c] = 0
      /\ stalled \subseteq stalled'
      /\ \E z : \A a \in Accepts : rooms'[a].saved => rooms[a].saved \/ a = z
<1>a. rooms \in [Accepts -> Room] /\ refunds \in [Challenges -> Nat]
  BY DEF TypeOK
<1>b. ASSUME UNCHANGED <<rooms, refunds, stalled>> PROVE Goal
  BY <1>b
<1>1. ASSUME NEW c \in Challenges, CreateStep(c) \/ CancelStep(c) \/ GrowsStale(c) PROVE Goal
  <2>1. UNCHANGED <<rooms, stalled>>
    BY <1>1, ChallengeLeaves
  <2>2. UNCHANGED refunds \/ refunds' = [refunds EXCEPT ![c] = refunds[c] + 1]
    BY <1>1 DEF CreateStep, CreateCheck, CreateLock, CreateLockRefused, CreateSet,
                CreateSetFails, CancelStep, CancelFind, CancelAgain, CancelDel, CancelRefund,
                CancelRefundRefused, CancelFails, GrowsStale, cancelVars
  <2>3. \A d \in Challenges : refunds'[d] = 0 => refunds[d] = 0
    BY <1>a, <2>2
  <2> QED
    BY <2>1, <2>3
<1>2. ASSUME NEW a \in Accepts, ChatTap(a) \/ AcceptStart(a) \/ AcceptStep(a) PROVE Goal
  <2>1. UNCHANGED <<refunds, stalled>>
    BY <1>2, AcceptLeaves
  <2>2. UNCHANGED rooms \/ \E p \in Prices :
          rooms' = [rooms EXCEPT ![a] = [saved |-> TRUE, openPrice |-> p, winner |-> NoOne]]
    BY <1>2 DEF ChatTap, AcceptStart, AcceptStep, ChatQueue, AcceptGet, AcceptLock,
                AcceptLockRefused, AcceptDel, AcceptSave, AcceptEnqueue, AcceptFails, ChatLeaves
  <2>3. /\ \A b \in Accepts : b # a => rooms'[b] = rooms[b]
        /\ UNCHANGED rooms \/ rooms'[a].saved
    BY <1>a, <2>2
  <2>4. \A b \in Accepts : /\ rooms[b].saved => rooms'[b].saved
                           /\ rooms'[b].saved => rooms[b].saved \/ b = a
    BY <2>3
  <2> QED
    BY <2>1, <2>4
<1>3. ASSUME (\E a \in Accepts : SettleStart(a)) \/ SettleStep PROVE Goal
  <2>1. UNCHANGED <<refunds, stalled>>
    BY <1>3, SettleLeaves
  <2>2. \A b \in Accepts : rooms'[b].saved <=> rooms[b].saved
    <3>1. UNCHANGED rooms \/ rooms' = [rooms EXCEPT ![settle.room].winner = settle.winner]
      BY <1>3 DEF SettleStart, SettleStep, SettlePrice, SettleCall, SettleRecord, SettleFails,
                  SettleUndo, SettleUndoFails, SettleEnds
    <3> QED
      BY <1>a, <3>1 DEF Room
  <2> QED
    BY <2>1, <2>2
<1>4. ASSUME Crash PROVE Goal
  BY <1>4 DEF Crash
<1>5. ASSUME UNCHANGED vars PROVE Goal
  BY <1>b, <1>5 DEF vars
<1>6. Goal
  BY <1>1, <1>2, <1>3, <1>4, <1>5 DEF Next
<1>7. OneRelease' => OneRelease
  BY <1>6, RequestsAssumption DEF OneRelease
<1>8. \E z : {a \in Accepts : rooms[a].saved}' \subseteq {a \in Accepts : rooms[a].saved} \cup {z}
  <2>1. PICK z : \A a \in Accepts : rooms'[a].saved => rooms[a].saved \/ a = z
    BY <1>6
  <2>2. {a \in Accepts : rooms[a].saved}' \subseteq {a \in Accepts : rooms[a].saved} \cup {z}
    BY <2>1
  <2> QED
    BY <2>2
<1> QED
  BY <1>6, <1>7, <1>8

(* Opening and cancelling: the creator's margin. *)
LEMMA ChallengeHeld ==
    ASSUME TypeOK, KeysOnce, Locked, NEW c \in Challenges, [Next]_vars, TypeOK',
           CreateStep(c) \/ CancelStep(c) \/ GrowsStale(c), NEW u \in Users
    PROVE  Held(u)'
<1> USE RequestsAssumption
<1>a. /\ create \in [Challenges -> {"idle", "lock", "set", "done", "failed", "refused"}]
      /\ refunds \in [Challenges -> Nat] /\ TypesOfMoney
      /\ wallet'[u].locked \in Int /\ wallet[u].locked \in Int
  BY DEF TypeOK, TypesOfMoney, Account
<1>b. /\ Held(u) /\ (OneRelease' => OneRelease)
      /\ \A d \in Challenges : refunds'[d] = 0 => refunds[d] = 0
  BY Monotone DEF Locked
<1>c. UNCHANGED <<accept, rooms, jobs, settle>>
  BY ChallengeLeaves
<1>d. \A a \in Accepts : Freed(a, u)' = Freed(a, u)
  BY <1>c DEF Freed, OverIn
<1>e. AcceptorsHeld(u)' \subseteq AcceptorsHeld(u)
  BY <1>c, <1>d DEF AcceptorsHeld
<1>1. CASE CreateLock(c)
  <2>1. Lock(CreatorOf[c]) /\ CreateTo(c, "set")
    BY <1>1 DEF CreateLock
  <2>2. \A d \in Challenges \ {c} : create'[d] = create[d]
    BY <1>a, <2>1 DEF CreateTo
  <2>3. CreatorsHeld(u)' \subseteq CreatorsHeld(u) \cup {c}
    BY <1>b, <1>c, <1>d, <2>2, CreatorsShrink
  <2>4. CASE u = CreatorOf[c]
    <3>1. wallet'[u].locked = wallet[u].locked + amount
      BY <1>a, <2>1, <2>4, LockType
    <3> QED
      BY <1>a, <1>b, <1>e, <2>3, <3>1, HeldStep
  <2>5. CASE u # CreatorOf[c]
    <3>1. wallet'[u].locked = wallet[u].locked
      BY <1>a, <2>1, <2>5, LockType
    <3>2. CreatorsHeld(u)' \subseteq CreatorsHeld(u)
      BY <2>3, <2>5 DEF CreatorsHeld
    <3> QED
      BY <1>a, <1>b, <1>e, <3>1, <3>2, HeldStep
  <2> QED
    BY <2>4, <2>5
<1>2. CASE CancelRefund(c)
  <2>1. /\ Release(CreatorOf[c]) /\ UNCHANGED create /\ cancel[c] = "refund"
        /\ refunds' = [refunds EXCEPT ![c] = @ + 1]
    BY <1>2 DEF CancelRefund, createVars
  <2>2. create[c] = "done" /\ refunds[c] = 0 /\ refunds'[c] = 1
    BY <1>a, <2>1 DEF KeysOnce
  <2>3. CreatorsHeld(u)' \subseteq CreatorsHeld(u) \cup {}
    BY <1>b, <1>c, <1>d, <2>1, CreatorsShrink
  <2>4. CreatorsHeld(u)' \subseteq CreatorsHeld(u) \ {c}
    BY <2>2, <2>3 DEF CreatorsHeld
  <2>5. CASE u = CreatorOf[c]
    <3>1. wallet'[u].locked = wallet[u].locked - amount
      BY <1>a, <2>1, <2>5, LockType
    <3>2. OneRelease' => c \in CreatorsHeld(u)
      BY <1>c, <2>2, <2>5 DEF OneRelease, CreatorsHeld, RoomsOf
    <3> QED
      BY <1>a, <1>b, <1>e, <2>4, <3>1, <3>2, HeldStep
  <2>6. CASE u # CreatorOf[c]
    <3>1. wallet'[u].locked = wallet[u].locked
      BY <1>a, <2>1, <2>6, LockType
    <3> QED
      BY <1>a, <1>b, <1>e, <2>4, <3>1, HeldStep
  <2> QED
    BY <2>5, <2>6
<1>3. CASE ~CreateLock(c) /\ ~CancelRefund(c)
  <2>1. UNCHANGED wallet
    BY <1>3 DEF CreateStep, CreateCheck, CreateLockRefused, CreateSet, CreateSetFails, CancelStep,
                CancelFind, CancelAgain, CancelDel, CancelRefundRefused, CancelFails, GrowsStale
  <2>2. UNCHANGED create \/ create[c] = "set"
           \/ \E pc \in {"lock", "refused", "failed"} : CreateTo(c, pc)
    BY <1>3 DEF CreateStep, CreateCheck, CreateLockRefused, CreateSet, CreateSetFails, CancelStep,
                CancelFind, CancelAgain, CancelDel, CancelRefundRefused, CancelFails, GrowsStale,
                createVars
  <2>3. UNCHANGED create \/ \E pc : CreateTo(c, pc)
    BY <1>3 DEF CreateStep, CreateCheck, CreateLockRefused, CreateSet, CreateSetFails, CancelStep,
                CancelFind, CancelAgain, CancelDel, CancelRefundRefused, CancelFails, GrowsStale,
                createVars
  <2>4. \A d \in Challenges : create'[d] \in {"set", "done"} => create[d] \in {"set", "done"}
    BY <1>a, <2>2, <2>3 DEF CreateTo
  <2>5. CreatorsHeld(u)' \subseteq CreatorsHeld(u) \cup {}
    BY <1>b, <1>c, <1>d, <2>4, CreatorsShrink
  <2> QED
    BY <1>a, <1>b, <1>e, <2>1, <2>5, HeldStep
<1> QED
  BY <1>1, <1>2, <1>3

(* Accepting: the acceptor's margin is locked before the room exists. *)
LEMMA AcceptHeld ==
    ASSUME TypeOK, JobsOnce, Locked, NEW a \in Accepts, [Next]_vars, TypeOK',
           ChatTap(a) \/ AcceptStart(a) \/ AcceptStep(a), NEW u \in Users
    PROVE  Held(u)'
<1> USE RequestsAssumption
<1>a. /\ accept \in Steps /\ jobs \in Jobs /\ rooms \in [Accepts -> Room] /\ TypesOfMoney
      /\ wallet'[u].locked \in Int /\ wallet[u].locked \in Int
  BY DEF TypeOK, TypesOfMoney, Account, Steps, Jobs
<1>b. /\ Held(u) /\ (OneRelease' => OneRelease)
      /\ \A b \in Accepts : rooms[b].saved => rooms'[b].saved
  BY Monotone DEF Locked
<1>c. UNCHANGED <<create, refunds, settle>>
  BY AcceptLeaves
<1>d. \A b \in Accepts : Freed(b, u)' = Freed(b, u)
  <2>1. CASE AcceptSave(a)
    <3>1. /\ UNCHANGED jobs /\ accept[a] = "save"
          /\ \A b \in Accepts \ {a} : rooms'[b] = rooms[b]
      BY <1>a, <2>1 DEF AcceptSave
    <3>2. jobs[a] = "none" /\ rooms[a].winner = NoOne /\ rooms'[a].winner = NoOne
      <4>1. PICK p \in Prices :
              rooms' = [rooms EXCEPT ![a] = [saved |-> TRUE, openPrice |-> p, winner |-> NoOne]]
        BY <2>1 DEF AcceptSave
      <4>2. rooms'[a].winner = NoOne
        BY <1>a, <4>1
      <4> QED
        BY <1>a, <3>1, <4>2 DEF JobsOnce, JobOnce, Jobs
    <3> QED
      BY <1>c, <3>1, <3>2 DEF Freed, OverIn
  <2>2. CASE AcceptEnqueue(a)
    <3>1. /\ UNCHANGED rooms /\ accept[a] = "enqueue" /\ jobs' = [jobs EXCEPT ![a] = "waiting"]
      BY <2>2 DEF AcceptEnqueue
    <3>2. jobs[a] = "none" /\ jobs'[a] = "waiting" /\ \A b \in Accepts \ {a} : jobs'[b] = jobs[b]
      BY <1>a, <3>1 DEF JobsOnce, JobOnce, Jobs
    <3> QED
      BY <1>c, <3>1, <3>2 DEF Freed, OverIn
  <2>3. CASE ~AcceptSave(a) /\ ~AcceptEnqueue(a)
    <3>1. UNCHANGED <<rooms, jobs>>
      BY <2>3 DEF ChatTap, AcceptStart, AcceptStep, ChatQueue, AcceptGet, AcceptLock,
                  AcceptLockRefused, AcceptDel, AcceptFails, ChatLeaves
    <3> QED
      BY <1>c, <3>1 DEF Freed, OverIn
  <2> QED
    BY <2>1, <2>2, <2>3
<1>e. CreatorsHeld(u)' \subseteq CreatorsHeld(u)
  <2>1. CreatorsHeld(u)' \subseteq CreatorsHeld(u) \cup {}
    BY <1>b, <1>c, <1>d, CreatorsShrink
  <2> QED
    BY <2>1
<1>f. UNCHANGED accept \/ \E pc : AcceptTo(a, pc)
  BY DEF ChatTap, AcceptStart, AcceptStep, ChatQueue, AcceptGet, AcceptLock, AcceptLockRefused,
         AcceptDel, AcceptSave, AcceptEnqueue, AcceptFails, ChatLeaves
<1>g. \A b \in Accepts \ {a} : accept'[b] = accept[b]
  BY <1>a, <1>f DEF AcceptTo, Steps
<1>h. \A b \in Accepts \ {a} : rooms'[b] = rooms[b]
  <2>1. UNCHANGED rooms \/ \E v : rooms' = [rooms EXCEPT ![a] = v]
    BY DEF ChatTap, AcceptStart, AcceptStep, ChatQueue, AcceptGet, AcceptLock, AcceptLockRefused,
           AcceptDel, AcceptSave, AcceptEnqueue, AcceptFails, ChatLeaves
  <2> QED
    BY <1>a, <2>1
<1>1. CASE AcceptLock(a)
  <2>1. Lock(AcceptorOf[a]) /\ UNCHANGED rooms
    BY <1>1 DEF AcceptLock
  <2>2. AcceptorsHeld(u)' \subseteq AcceptorsHeld(u) \cup {a}
    BY <1>d, <1>g, <1>h, AcceptorsShrink
  <2>3. CASE u = AcceptorOf[a]
    <3>1. wallet'[u].locked = wallet[u].locked + amount
      BY <1>a, <2>1, <2>3, LockType
    <3> QED
      BY <1>a, <1>b, <1>e, <2>2, <3>1, HeldStep
  <2>4. CASE u # AcceptorOf[a]
    <3>1. wallet'[u].locked = wallet[u].locked
      BY <1>a, <2>1, <2>4, LockType
    <3>2. AcceptorsHeld(u)' \subseteq AcceptorsHeld(u)
      BY <2>2, <2>4 DEF AcceptorsHeld
    <3> QED
      BY <1>a, <1>b, <1>e, <3>1, <3>2, HeldStep
  <2> QED
    BY <2>3, <2>4
<1>2. CASE ~AcceptLock(a)
  <2>1. UNCHANGED wallet
    BY <1>2 DEF ChatTap, AcceptStart, AcceptStep, ChatQueue, AcceptGet, AcceptLockRefused,
                AcceptDel, AcceptSave, AcceptEnqueue, AcceptFails, ChatLeaves
  <2>2. \/ accept[a] \in {"del", "save"} \/ UNCHANGED <<rooms, accept>>
        \/ UNCHANGED rooms /\ \E pc \in {"tapped", "notFound", "queued", "get", "lock", "done",
                                        "failed"} : AcceptTo(a, pc)
    BY <1>2 DEF ChatTap, AcceptStart, AcceptStep, ChatQueue, AcceptGet, AcceptLockRefused,
                AcceptDel, AcceptSave, AcceptEnqueue, AcceptFails, ChatLeaves
  <2>3. accept'[a] \in {"del", "save"} \/ rooms'[a].saved =>
           accept[a] \in {"del", "save"} \/ rooms[a].saved
    BY <1>a, <2>2 DEF AcceptTo, Steps
  <2>4. AcceptorsHeld(u)' \subseteq AcceptorsHeld(u) \cup {}
    BY <1>d, <1>g, <1>h, <2>3, AcceptorsShrink
  <2> QED
    BY <1>a, <1>b, <1>e, <2>1, <2>4, HeldStep
<1> QED
  BY <1>1, <1>2

(* Settling frees the two margins of one room, or locks them again. *)
LEMMA OneRoomChanges ==
    ASSUME NEW r \in Accepts, NEW u \in Users, UNCHANGED <<create, accept, refunds>>,
           \A b \in Accepts : rooms'[b].saved <=> rooms[b].saved,
           \A b \in Accepts \ {r} : Freed(b, u) => Freed(b, u)'
    PROVE  /\ CreatorsHeld(u)' \subseteq CreatorsHeld(u) \cup {ChallengeOf[r]}
           /\ AcceptorsHeld(u)' \subseteq AcceptorsHeld(u) \cup {r}
           /\ (Freed(r, u) => Freed(r, u)') \/ u # Creator(r) =>
                 CreatorsHeld(u)' \subseteq CreatorsHeld(u)
           /\ (Freed(r, u) => Freed(r, u)') \/ u # AcceptorOf[r] =>
                 AcceptorsHeld(u)' \subseteq AcceptorsHeld(u)
<1>1. CreatorsHeld(u)' \subseteq CreatorsHeld(u) \cup {ChallengeOf[r]}
  BY CreatorsShrink
<1>2. AcceptorsHeld(u)' \subseteq AcceptorsHeld(u) \cup {r}
  BY AcceptorsShrink
<1>3. ASSUME Freed(r, u) => Freed(r, u)'
      PROVE  CreatorsHeld(u)' \subseteq CreatorsHeld(u) /\ AcceptorsHeld(u)' \subseteq AcceptorsHeld(u)
  <2>1. \A b \in Accepts : Freed(b, u) => Freed(b, u)'
    BY <1>3
  <2>2. CreatorsHeld(u)' \subseteq CreatorsHeld(u) \cup {}
    BY <2>1, CreatorsShrink
  <2>3. AcceptorsHeld(u)' \subseteq AcceptorsHeld(u) \cup {}
    BY <2>1, AcceptorsShrink
  <2> QED
    BY <2>2, <2>3
<1>4. u # Creator(r) => CreatorsHeld(u)' \subseteq CreatorsHeld(u)
  BY <1>1 DEF CreatorsHeld, Creator
<1>5. u # AcceptorOf[r] => AcceptorsHeld(u)' \subseteq AcceptorsHeld(u)
  BY <1>2 DEF AcceptorsHeld
<1> QED
  BY <1>1, <1>2, <1>3, <1>4, <1>5

(* A settlement frees the margins of its own room only. *)
LEMMA SettleHeld ==
    ASSUME TypeOK, WorkerOK, JobsOnce, RoomsOnce, Locked, [Next]_vars, TypeOK',
           (\E a \in Accepts : SettleStart(a)) \/ SettleStep, NEW u \in Users
    PROVE  Held(u)'
<1> USE RequestsAssumption
<1>a. /\ jobs \in Jobs /\ rooms \in [Accepts -> Room] /\ settle \in SettleRun
      /\ wallet'[u].locked \in Int /\ wallet[u].locked \in Int
  BY DEF TypeOK, Account, Jobs
<1>b. Held(u) /\ (OneRelease' => OneRelease)
  BY Monotone DEF Locked
<1>c. UNCHANGED <<create, accept, refunds, stalled>>
  BY SettleLeaves
<1>1. ASSUME NEW a \in Accepts, SettleStart(a) PROVE Held(u)'
  <2>1. /\ settle.pc = "idle" /\ jobs[a] = "waiting" /\ UNCHANGED <<rooms, wallet>>
        /\ jobs' = [jobs EXCEPT ![a] = "active"]
    BY <1>1 DEF SettleStart, Settling
  <2>2. /\ \A b \in Accepts \ {a} : jobs'[b] = jobs[b]
        /\ \A b \in Accepts : jobs[b] # "active"
    BY <1>a, <2>1 DEF Jobs, WorkerOK
  <2>3. \A b \in Accepts : Freed(b, u) => Freed(b, u)'
    BY <2>1, <2>2 DEF Freed, OverIn
  <2>4. /\ CreatorsHeld(u)' \subseteq CreatorsHeld(u)
        /\ AcceptorsHeld(u)' \subseteq AcceptorsHeld(u)
    BY <1>c, <2>1, <2>3, OneRoomChanges
  <2> QED
    BY <1>a, <1>b, <2>1, <2>4, HeldStep
<1>2. ASSUME SettleStep PROVE Held(u)'
  <2>a. settle.pc # "idle"
    BY <1>2 DEF SettleStep, SettlePrice, SettleCall, SettleRecord, SettleFails, SettleUndo,
                SettleUndoFails, SettleEnds, Settling
  <2>b. PICK r \in Accepts : /\ r = settle.room /\ jobs[r] = "active"
                            /\ \A b \in Accepts : b # r => jobs[b] # "active"
    BY <2>a, RoomOfWorker
  <2>c. /\ rooms[r].saved /\ AcceptorOf[r] # Creator(r) /\ create[ChallengeOf[r]] = "done"
        /\ <<r, "settle">> \notin stalled /\ settle.pc \notin {"over", "broken"} =>
              rooms[r].winner = NoOne
    BY <2>b DEF JobsOnce, JobOnce, RoomsOnce, OverIn
  <2>d. /\ UNCHANGED jobs \/ SettleEnds
        /\ UNCHANGED rooms \/ rooms' = [rooms EXCEPT ![r].winner = settle.winner]
    BY <1>2, <2>b DEF SettleStep, SettlePrice, SettleCall, SettleRecord, SettleFails,
                SettleUndo, SettleUndoFails, SettleEnds
  <2>e. /\ \A b \in Accepts \ {r} : jobs'[b] = jobs[b] /\ rooms'[b] = rooms[b]
        /\ \A b \in Accepts : rooms'[b].saved <=> rooms[b].saved
    <3>1. \A b \in Accepts \ {r} : jobs'[b] = jobs[b]
      <4>1. SettleEnds => \E state : jobs' = [jobs EXCEPT ![r] = state]
        BY <2>b, EndsIs
      <4> QED
        BY <1>a, <2>d, <4>1 DEF Jobs
    <3>2. /\ \A b \in Accepts \ {r} : rooms'[b] = rooms[b]
          /\ rooms'[r].saved <=> rooms[r].saved
      BY <1>a, <2>d DEF Room
    <3> QED
      BY <3>1, <3>2
  <2>f. \A b \in Accepts \ {r} : Freed(b, u) => Freed(b, u)'
    BY <2>b, <2>e DEF Freed, OverIn
  <2>h. /\ CreatorsHeld(u)' \subseteq CreatorsHeld(u) \cup {ChallengeOf[r]}
        /\ AcceptorsHeld(u)' \subseteq AcceptorsHeld(u) \cup {r}
        /\ (Freed(r, u) => Freed(r, u)') \/ u # Creator(r) =>
              CreatorsHeld(u)' \subseteq CreatorsHeld(u)
        /\ (Freed(r, u) => Freed(r, u)') \/ u # AcceptorOf[r] =>
              AcceptorsHeld(u)' \subseteq AcceptorsHeld(u)
    BY <1>c, <2>e, <2>f, OneRoomChanges
  <2>i. settle.calls \in 0..4
    BY <1>a DEF SettleRun
  <2>8. CASE <<r, "settle">> \in stalled
    <3>1. ~OneRelease'
      BY <1>c, <2>8 DEF OneRelease
    <3> QED
      BY <1>a, <1>b, <2>h, <3>1, HeldStep
  <2>1. ASSUME UNCHANGED wallet, Freed(r, u) => Freed(r, u)' PROVE Held(u)'
    BY <1>a, <1>b, <2>1, <2>h, HeldStep
  <2>9. ASSUME SettleEnds PROVE Held(u)'
    <3>1. UNCHANGED <<rooms, wallet>> /\ settle.pc \in {"over", "broken"} /\ settle.calls = 0
      BY <2>9 DEF SettleEnds, WorkerOK
    <3>2. settle.pc = "broken" => jobs'[r] = "failed"
      <4>1. PICK state \in {"completed", "failed"} :
               jobs' = [jobs EXCEPT ![r] = state] /\ (state = "failed" <=> settle.pc = "broken")
        BY <2>9, <2>b, EndsIs
      <4> QED
        BY <1>a, <4>1 DEF Jobs
    <3>3. Freed(r, u) => rooms[r].winner # NoOne \/ settle.pc = "broken"
      BY <2>b, <3>1 DEF Freed, OverIn
    <3> QED
      BY <2>1, <3>1, <3>2, <3>3 DEF Freed
  <2>10. SettlePrice \/ SettleCall \/ SettleRecord \/ SettleFails \/ SettleUndo \/ SettleUndoFails
           => settle.pc \notin {"over", "broken"}
    BY DEF SettlePrice, SettleCall, SettleRecord, SettleFails, SettleUndo, SettleUndoFails,
           Settling
  <2> SUFFICES ASSUME <<r, "settle">> \notin stalled, settle.pc \notin {"over", "broken"}
               PROVE  Held(u)'
    BY <1>2, <2>8, <2>9, <2>10 DEF SettleStep
  <2>k. rooms[r].winner = NoOne
    BY <2>c
  <2>g. Freed(r, u) <=> settle.calls > 0 /\ (settle.winner = u \/ settle.calls = 4)
    BY <2>b, <2>k DEF Freed, OverIn
  <2>2. ASSUME SettlePrice PROVE Held(u)'
    <3>1. settle.calls = 0 /\ UNCHANGED wallet
      BY <2>2 DEF SettlePrice, Settling, WorkerOK
    <3> QED
      BY <2>1, <2>g, <3>1
  <2>3. ASSUME SettleRecord PROVE Held(u)'
    <3>1. /\ settle.pc = "record" /\ UNCHANGED wallet
          /\ rooms' = [rooms EXCEPT ![r].winner = settle.winner]
      BY <2>3, <2>b DEF SettleRecord, Settling
    <3>2. settle.winner # NoOne
      BY <2>b, <3>1 DEF WorkerOK, Creator
    <3>3. rooms'[r].winner # NoOne
      BY <1>a, <3>1, <3>2 DEF Room
    <3> QED
      BY <2>1, <3>1, <3>3 DEF Freed
  <2>4. ASSUME SettleFails PROVE Held(u)'
    <3>1. UNCHANGED <<wallet, rooms>> /\ Catch
      BY <2>4 DEF SettleFails
    <3>2. CASE settle.calls > 0
      <4>1. UNCHANGED jobs /\ settle' = [settle EXCEPT !.pc = "undo"]
        BY <2>4, <3>1, <3>2 DEF SettleFails, Catch, SettleTo
      <4>2. settle'.calls = settle.calls /\ settle'.winner = settle.winner
        BY <1>a, <4>1 DEF SettleRun
      <4> QED
        BY <2>1, <2>b, <2>g, <3>1, <4>1, <4>2 DEF Freed, OverIn
    <3>3. CASE ~(settle.calls > 0)
      BY <2>1, <2>g, <3>1, <3>3
    <3> QED
      BY <3>2, <3>3
  <2>5. ASSUME SettleUndoFails PROVE Held(u)'
    <3>1. Over("broken") /\ UNCHANGED wallet
      BY <2>5 DEF SettleUndoFails
    <3>2. OverIn(r, {"broken"})'
      BY <2>b, <3>1, OverIs DEF OverIn
    <3> QED
      BY <2>1, <3>1, <3>2 DEF Freed
  <2>j. ASSUME settle.pc \in {"call", "undo"}
        PROVE  /\ settle.winner \in {Creator(r), AcceptorOf[r]}
               /\ {settle.winner, LoserOf(r, settle.winner)} = {Creator(r), AcceptorOf[r]}
               /\ LoserOf(r, settle.winner) # settle.winner
    BY <2>b, <2>c, <2>j DEF WorkerOK, LoserOf
  <2>6. ASSUME SettleCall PROVE Held(u)'
    <3> DEFINE w == settle.winner
               n == settle.calls + 1
    <3>1. /\ settle.pc = "call" /\ n \in 1..4 /\ UNCHANGED <<rooms, jobs>>
          /\ wallet' = AfterCall(Calls(r, w)[n])
          /\ settle' = [settle EXCEPT !.calls = n, !.pc = IF n = 4 THEN "record" ELSE "call"]
      BY <2>6, <2>b, <2>i DEF SettleCall, Settling, WorkerOK, AfterCall
    <3>2. settle'.calls = n /\ settle'.winner = w /\ settle'.pc \in {"call", "record"}
      BY <1>a, <3>1 DEF SettleRun
    <3>3. Freed(r, u)' <=> w = u \/ n = 4
      BY <2>b, <2>k, <2>i, <3>1, <3>2 DEF Freed, OverIn
    <3>4. Freed(r, u) => Freed(r, u)'
      BY <2>g, <2>i, <3>1, <3>3
    <3>5. wallet'[u].locked = IF (u = w /\ n = 1) \/ (u = LoserOf(r, w) /\ n = 4)
                                THEN wallet[u].locked - amount ELSE wallet[u].locked
      BY <2>c, <2>j, <3>1, CallMoney
    <3>6. CASE ~((u = w /\ n = 1) \/ (u = LoserOf(r, w) /\ n = 4))
      <4>1. wallet'[u].locked = wallet[u].locked
        BY <3>5, <3>6
      <4> QED
        BY <1>a, <1>b, <2>h, <3>4, <4>1, HeldStep
    <3>7. CASE (u = w /\ n = 1) \/ (u = LoserOf(r, w) /\ n = 4)
      <4>1. wallet'[u].locked = wallet[u].locked - amount
        BY <3>5, <3>7
      <4>2. ~Freed(r, u) /\ Freed(r, u)'
        BY <2>g, <2>i, <2>j, <3>1, <3>3, <3>7
      <4>3. u \in {Creator(r), AcceptorOf[r]}
        BY <2>j, <3>1, <3>7
      <4>4. CASE u = Creator(r)
        <5>1. OneRelease' => ChallengeOf[r] \in CreatorsHeld(u)
          BY <1>b, <2>c, <4>2, <4>4 DEF OneRelease, CreatorsHeld, RoomsOf, Creator
        <5>2. ChallengeOf[r] \notin CreatorsHeld(u)'
          BY <2>c, <2>e, <4>2 DEF CreatorsHeld, RoomsOf
        <5>3. /\ CreatorsHeld(u)' \subseteq CreatorsHeld(u) \ {ChallengeOf[r]}
              /\ AcceptorsHeld(u)' \subseteq AcceptorsHeld(u)
          BY <2>h, <3>4, <5>2
        <5> QED
          BY <1>a, <1>b, <4>1, <5>1, <5>3, HeldStep
      <4>5. CASE u = AcceptorOf[r]
        <5>1. r \in AcceptorsHeld(u)
          BY <2>c, <4>2, <4>5 DEF AcceptorsHeld
        <5>2. r \notin AcceptorsHeld(u)'
          BY <4>2 DEF AcceptorsHeld
        <5>3. /\ AcceptorsHeld(u)' \subseteq AcceptorsHeld(u) \ {r}
              /\ CreatorsHeld(u)' \subseteq CreatorsHeld(u)
          BY <2>h, <3>4, <5>2
        <5> QED
          BY <1>a, <1>b, <4>1, <5>1, <5>3, HeldStep
      <4> QED
        BY <4>3, <4>4, <4>5
    <3> QED
      BY <3>6, <3>7
  <2>7. ASSUME SettleUndo PROVE Held(u)'
    <3> DEFINE w == settle.winner
               n == settle.calls
    <3>1. /\ settle.pc = "undo" /\ n \in 1..4 /\ UNCHANGED rooms
          /\ wallet' = RolledBack(Calls(r, w), n)
      BY <2>7, <2>b, <2>i DEF SettleUndo, Settling, WorkerOK
    <3>2. wallet'[u].locked = IF u = w \/ (u = LoserOf(r, w) /\ n = 4)
                                THEN wallet[u].locked + amount ELSE wallet[u].locked
      BY <2>c, <2>j, <3>1, RolledBackIs
    <3>3. CASE u = w \/ (u = LoserOf(r, w) /\ n = 4)
      <4>1. wallet'[u].locked = wallet[u].locked + amount
        BY <3>2, <3>3
      <4>2. \/ CreatorsHeld(u)' \subseteq CreatorsHeld(u)
            \/ AcceptorsHeld(u)' \subseteq AcceptorsHeld(u)
        BY <2>c, <2>h
      <4> QED
        BY <1>a, <1>b, <2>h, <4>1, <4>2, HeldStep
    <3>4. CASE ~(u = w \/ (u = LoserOf(r, w) /\ n = 4))
      <4>1. wallet'[u].locked = wallet[u].locked
        BY <3>2, <3>4
      <4>2. ~Freed(r, u) \/ (u # Creator(r) /\ u # AcceptorOf[r])
        BY <2>g, <2>j, <3>1, <3>4
      <4>3. /\ CreatorsHeld(u)' \subseteq CreatorsHeld(u)
            /\ AcceptorsHeld(u)' \subseteq AcceptorsHeld(u)
        BY <2>h, <4>2
      <4> QED
        BY <1>a, <1>b, <4>1, <4>3, HeldStep
    <3> QED
      BY <3>3, <3>4
  <2> QED
    BY <1>2, <2>2, <2>3, <2>4, <2>5, <2>6, <2>7, <2>9 DEF SettleStep
<1> QED
  BY <1>1, <1>2

(* A crash moves no money, and what it cuts short is a room of its own.     *)
LEMMA CrashHeld ==
    ASSUME TypeOK, WorkerOK, Locked, [Next]_vars, TypeOK', Crash, NEW u \in Users
    PROVE  Held(u)'
<1> USE RequestsAssumption
<1>a. wallet'[u].locked \in Int /\ wallet[u].locked \in Int
  BY DEF TypeOK, Account
<1>b. Held(u) /\ (OneRelease' => OneRelease)
  BY Monotone DEF Locked
<1>c. /\ UNCHANGED <<rooms, refunds, wallet>> /\ settle' = AtRest
      /\ \A c \in Challenges : create'[c] = IF create[c] \in {"lock", "set"} THEN "failed" ELSE create[c]
      /\ \A a \in Accepts : accept'[a] = AfterCrash(a) /\ jobs'[a] = JobAfterCrash(a)
      /\ stalled' = stalled \cup Interrupted
  BY DEF Crash
<1>d. /\ \A c \in Challenges : create'[c] \in {"set", "done"} => create[c] \in {"set", "done"}
      /\ \A a \in Accepts : accept'[a] \in {"del", "save"} => accept[a] \in {"del", "save"}
  BY <1>c DEF AfterCrash, InFlight
<1>e. \A b \in Accepts : jobs[b] # "active" => (Freed(b, u) => Freed(b, u)')
  BY <1>c DEF Freed, JobAfterCrash, OverIn, WorkerOK
<1>1. CASE \A b \in Accepts : jobs[b] # "active"
  <2>1. CreatorsHeld(u)' \subseteq CreatorsHeld(u) \cup {}
    BY <1>1, <1>c, <1>d, <1>e, CreatorsShrink
  <2>2. AcceptorsHeld(u)' \subseteq AcceptorsHeld(u) \cup {}
    BY <1>1, <1>c, <1>d, <1>e, AcceptorsShrink
  <2> QED
    BY <1>a, <1>b, <1>c, <2>1, <2>2, HeldStep
<1>2. ASSUME NEW r \in Accepts, jobs[r] = "active" PROVE Held(u)'
  <2>1. \A b \in Accepts \ {r} : jobs[b] # "active"
    BY <1>2 DEF WorkerOK
  <2>2. CreatorsHeld(u)' \subseteq CreatorsHeld(u) \cup {ChallengeOf[r]}
    BY <2>1, <1>c, <1>d, <1>e, CreatorsShrink
  <2>3. AcceptorsHeld(u)' \subseteq AcceptorsHeld(u) \cup {r}
    BY <2>1, <1>c, <1>d, <1>e, AcceptorsShrink
  <2>4. <<r, "settle">> \in stalled'
    BY <1>2, <1>c DEF Interrupted
  <2>5. ~OneRelease'
    BY <2>4 DEF OneRelease
  <2> QED
    BY <1>a, <1>b, <2>2, <2>3, <2>5, HeldStep
<1> QED
  BY <1>1, <1>2

LEMMA LockedStep ==
    ASSUME TypeOK, WorkerOK, JobsOnce, KeysOnce, RoomsOnce, Locked, [Next]_vars, TypeOK'
    PROVE  Locked'
<1>1. IsFiniteSet({a \in Accepts : rooms[a].saved}')
  <2>1. PICK z : {a \in Accepts : rooms[a].saved}' \subseteq {a \in Accepts : rooms[a].saved} \cup {z}
    BY Monotone
  <2>2. IsFiniteSet({a \in Accepts : rooms[a].saved})
    BY DEF Locked
  <2> QED
    BY <2>1, <2>2, FS_AddElement, FS_Subset
<1>2. ASSUME NEW u \in Users PROVE Held(u)'
  <2>1. CASE UNCHANGED vars
    <3>1. UNCHANGED <<create, refunds, rooms, jobs, settle, accept, stalled, wallet>>
      BY <2>1 DEF vars
    <3>2. \A a \in Accepts : Freed(a, u)' = Freed(a, u)
      BY <3>1 DEF Freed, OverIn
    <3>3. CreatorsHeld(u)' = CreatorsHeld(u) /\ AcceptorsHeld(u)' = AcceptorsHeld(u)
      BY <3>1, <3>2 DEF CreatorsHeld, AcceptorsHeld, RoomsOf
    <3>4. OneRelease' = OneRelease /\ amount' = amount
      BY <3>1 DEF OneRelease, amount
    <3>5. Held(u)
      BY DEF Locked
    <3> QED
      BY <3>1, <3>3, <3>4, <3>5 DEF Held
  <2>2. CASE Crash
    BY <2>2, CrashHeld
  <2>3. CASE (\E a \in Accepts : SettleStart(a)) \/ SettleStep
    BY <2>3, SettleHeld
  <2>4. CASE \E c \in Challenges : CreateStep(c) \/ CancelStep(c) \/ GrowsStale(c)
    BY <2>4, ChallengeHeld
  <2>5. CASE \E a \in Accepts : ChatTap(a) \/ AcceptStart(a) \/ AcceptStep(a)
    BY <2>5, AcceptHeld
  <2> QED
    BY <2>1, <2>2, <2>3, <2>4, <2>5 DEF Next
<1> QED
  BY <1>1, <1>2 DEF Locked

-----------------------------------------------------------------------------
LEMMA InitInv == ASSUME Init PROVE IInv
<1> USE RequestsAssumption DEF Init
<1>1. /\ 0 \in 0..MaxFaults /\ 0 \in 0..MaxCrashes /\ NoRoom \in Room
      /\ \A u \in Users : [balance |-> InitBalance, locked |-> 0] \in Account
  BY LimitsAssumption DEF NoRoom, Room, Account
<1>2. TypeOK
  BY <1>1, AtRestIs DEF TypeOK
<1>3. WorkerOK
  BY AtRestIs DEF WorkerOK
<1>4. /\ \A a \in Accepts : rooms[a] = NoRoom /\ jobs[a] = "none" /\ accept[a] = "idle"
      /\ ~NoRoom.saved /\ NoRoom.winner = NoOne
  BY DEF NoRoom
<1>5. JobsOnce
  BY <1>4 DEF JobsOnce, JobOnce
<1>6. Ledger /\ \A a \in Accepts : Settled(a)
  <2>1. \A a \in Accepts : ~OverIn(a, {"over"}) /\ ~OverIn(a, {"over", "broken"})
    BY AtRestIs DEF OverIn
  <2> QED
    BY <1>4, <2>1 DEF Ledger, LedgerOf, Own, Settled
<1>7. OneServed
  BY <1>4 DEF OneServed, InFlight
<1>8. KeysOnce /\ RefundedOnce
  BY DEF KeysOnce, RefundedOnce
<1>9. RoomsOnce
  BY <1>4 DEF RoomsOnce
<1>10. Locked
  <2>1. {a \in Accepts : rooms[a].saved} = {}
    BY <1>4
  <2>2. ASSUME NEW u \in Users PROVE Held(u)
    <3>1. CreatorsHeld(u) = {} /\ AcceptorsHeld(u) = {}
      BY <1>4 DEF CreatorsHeld, AcceptorsHeld
    <3>2. wallet[u].locked = 0
      OBVIOUS
    <3>3. IsFiniteSet({}) /\ Cardinality({}) = 0
      BY FS_EmptySet
    <3> QED
      BY <3>1, <3>2, <3>3, Amounts DEF Held
  <2> QED
    BY <2>1, <2>2, FS_EmptySet DEF Locked
<1> QED
  BY <1>2, <1>3, <1>5, <1>6, <1>7, <1>8, <1>9, <1>10 DEF IInv

(* Nobody's stakes are more than what is locked for him. *)
LEMMA ReleasedOnceIs ==
    ASSUME TypeOK, Locked, ReleasedOnce
    PROVE  OneRelease
<1> USE RequestsAssumption
<1>1. ASSUME NEW a \in Accepts, rooms[a].saved
      PROVE  /\ refunds[ChallengeOf[a]] = 0
             /\ \A b \in Accepts : rooms[b].saved /\ ChallengeOf[b] = ChallengeOf[a] => a = b
  <2> DEFINE S == RoomsOf(ChallengeOf[a])
  <2>1. IsFiniteSet(S) /\ a \in S
    <3>1. S \subseteq {b \in Accepts : rooms[b].saved}
      BY DEF RoomsOf
    <3> QED
      BY <1>1, <3>1, FS_Subset DEF Locked, RoomsOf
  <2>2. /\ Cardinality(S) \in Nat /\ Cardinality(S) # 0
        /\ IsFiniteSet(S \ {a}) /\ Cardinality(S \ {a}) = Cardinality(S) - 1
    BY <2>1, FS_CardinalityType, FS_EmptySet, FS_RemoveElement
  <2>3. refunds[ChallengeOf[a]] \in Nat /\ Cardinality(S) + refunds[ChallengeOf[a]] <= 1
    BY DEF ReleasedOnce, TypeOK
  <2>4. Cardinality(S) = 1 /\ refunds[ChallengeOf[a]] = 0
    BY <2>2, <2>3
  <2>5. S \ {a} = {}
    BY <2>2, <2>4, FS_EmptySet, SMTT(30)
  <2>6. \A b \in Accepts : rooms[b].saved /\ ChallengeOf[b] = ChallengeOf[a] => b \in S
    BY DEF RoomsOf
  <2> QED
    BY <2>4, <2>5, <2>6
<1> QED
  BY <1>1 DEF OneRelease, ReleasedOnce

(* What is open or waits is held, by two sets without a common challenge. *)
LEMMA StakesCounted ==
    ASSUME TypeOK, WorkerOK, JobsOnce, KeysOnce, RoomsOnce, Locked, ReleasedOnce, NEW u \in Users
    PROVE  wallet[u].locked >= amount * StakesOf(u)
<1> USE RequestsAssumption
<1> DEFINE C == CreatorsHeld(u)
           A == AcceptorsHeld(u)
           K == {c \in pvpKeys : CreatorOf[c] = u}
           W == {a \in Accepts : jobs[a] = "waiting" /\ u \in {Creator(a), AcceptorOf[a]}}
           WC == {a \in W : Creator(a) = u}
           WA == {a \in W : AcceptorOf[a] = u}
           D == {ChallengeOf[a] : a \in WC}
<1>1. OneRelease
  BY ReleasedOnceIs
<1>2. /\ IsFiniteSet(C) /\ IsFiniteSet(A)
      /\ wallet[u].locked >= amount * (Cardinality(C) + Cardinality(A))
  BY <1>1 DEF Locked, Held
<1>3. \A a \in W : rooms[a].saved /\ ~Freed(a, u)
  BY <1>1 DEF JobsOnce, JobOnce, Freed, OverIn, WorkerOK, OneRelease
<1>4. K \subseteq C
  <2>1. \A c \in K : c \in Challenges /\ create[c] = "done" /\ refunds[c] = 0
    BY DEF TypeOK, KeysOnce
  <2>2. \A c \in K : RoomsOf(c) = {}
    BY DEF RoomsOf, RoomsOnce
  <2> QED
    BY <2>1, <2>2 DEF CreatorsHeld
<1>5. D \subseteq C
  <2>1. ASSUME NEW a \in WC PROVE ChallengeOf[a] \in C
    <3>1. /\ ChallengeOf[a] \in Challenges /\ CreatorOf[ChallengeOf[a]] = u
          /\ create[ChallengeOf[a]] = "done"
      BY <1>3 DEF Creator, RoomsOnce
    <3>2. refunds[ChallengeOf[a]] = 0 /\ \A b \in RoomsOf(ChallengeOf[a]) : b = a
      BY <1>1, <1>3 DEF OneRelease, RoomsOf
    <3> QED
      BY <1>3, <3>1, <3>2 DEF CreatorsHeld
  <2> QED
    BY <2>1
<1>6. K \cap D = {}
  BY <1>3 DEF RoomsOnce
<1>7. WA \subseteq A
  BY <1>3 DEF AcceptorsHeld
<1>8. IsFiniteSet(K) /\ IsFiniteSet(D) /\ IsFiniteSet(WA)
  BY <1>2, <1>4, <1>5, <1>7, FS_Subset
<1>9. IsFiniteSet(WC) /\ Cardinality(WC) = Cardinality(D)
  <2>1. IsFiniteSet(WC)
    <3>1. WC \subseteq {a \in Accepts : rooms[a].saved}
      BY <1>3
    <3> QED
      BY <3>1, FS_Subset DEF Locked
  <2>2. \A a, b \in WC : ChallengeOf[a] = ChallengeOf[b] => a = b
    BY <1>1, <1>3 DEF OneRelease
  <2> DEFINE f == [a \in WC |-> ChallengeOf[a]]
  <2>3. f \in Bijection(WC, D)
    <3>1. f \in [WC -> D]
      OBVIOUS
    <3>2. \A a, b \in WC : f[a] = f[b] => a = b
      BY <2>2
    <3>3. \A d \in D : \E a \in WC : f[a] = d
      OBVIOUS
    <3> QED
      BY <3>1, <3>2, <3>3 DEF Bijection, Injection, Surjection, IsInjective
  <2>4. ExistsBijection(WC, D)
    BY <2>3 DEF ExistsBijection
  <2> QED
    BY <2>1, <2>4, FS_Bijection
<1>10. /\ Cardinality(K) \in Nat /\ Cardinality(D) \in Nat /\ Cardinality(WA) \in Nat
       /\ Cardinality(C) \in Nat /\ Cardinality(A) \in Nat
       /\ Cardinality(WA) <= Cardinality(A)
  BY <1>2, <1>7, <1>8, FS_CardinalityType, FS_Subset
<1>11. Cardinality(K) + Cardinality(D) <= Cardinality(C)
  <2>1. K \cup D \subseteq C
    BY <1>4, <1>5
  <2>2. Cardinality(K \cup D) = Cardinality(K) + Cardinality(D) - Cardinality(K \cap D)
    BY <1>8, FS_Union
  <2>3. Cardinality(K \cap D) = 0
    BY <1>6, FS_EmptySet
  <2>4. Cardinality(K \cup D) <= Cardinality(C)
    BY <1>2, <2>1, FS_Subset
  <2> QED
    BY <1>10, <2>2, <2>3, <2>4
<1>12. Cardinality(W) \in Nat /\ Cardinality(W) <= Cardinality(D) + Cardinality(WA)
  <2>1. W = WC \cup WA
    OBVIOUS
  <2>2. /\ IsFiniteSet(WC \cup WA) /\ IsFiniteSet(WC \cap WA)
        /\ Cardinality(WC \cup WA)
              = Cardinality(WC) + Cardinality(WA) - Cardinality(WC \cap WA)
    BY <1>8, <1>9, FS_Union, FS_Intersection
  <2>3. Cardinality(WC \cap WA) \in Nat /\ Cardinality(WC \cup WA) \in Nat
    BY <2>2, FS_CardinalityType
  <2> HIDE DEF W, WC, WA, D
  <2> QED
    BY <1>9, <1>10, <2>1, <2>2, <2>3
<1>13. StakesOf(u) = Cardinality(K) + Cardinality(W)
  BY DEF StakesOf
<1>14. wallet[u].locked \in Int
  BY DEF TypeOK, Account
<1> HIDE DEF C, A, K, W, WC, WA, D
<1>15. wallet[u].locked >= 10 * (Cardinality(C) + Cardinality(A))
  BY <1>2, Amounts
<1>16. wallet[u].locked >= 10 * (Cardinality(K) + Cardinality(W))
  BY <1>10, <1>11, <1>12, <1>14, <1>15
<1> QED
  BY <1>13, <1>16, Amounts

(* What holds at first and is kept by every step. *)
LEMMA InvStep == ASSUME IInv, [Next]_vars PROVE IInv'
<1> USE DEF IInv
<1>1. TypeOK'
  BY TypeStep
<1>2. WorkerOK'
  BY WorkerInv
<1>3. JobsOnce'
  BY JobsOnceStep
<1>4. Ledger' /\ \A a \in Accepts : Settled(a)'
  BY LedgerStep
<1>5. OneServed'
  BY OneServedStep
<1>6. KeysOnce' /\ RefundedOnce'
  BY KeysOnceStep
<1>7. RoomsOnce'
  BY RoomsOnceStep
<1>8. Locked'
  BY <1>1, LockedStep
<1> QED
  BY <1>1, <1>2, <1>3, <1>4, <1>5, <1>6, <1>7, <1>8

(* IInv holds in every state the code can reach: what the runs check for a *)
(* few challenges is kept by every handler, whoever asks for what.         *)
THEOREM Invariant == Spec => []IInv
<1>1. Init => IInv
  BY InitInv
<1>2. IInv /\ [Next]_vars => IInv'
  BY InvStep
<1> QED
  BY <1>1, <1>2, PTL DEF Spec

(* Keys, rooms, jobs and accounts stay what their declarations say; a call *)
(* of playPvP stands twice at most, since its job runs twice at most.      *)
THEOREM TypeCorrect == Spec => []TypeOK
<1>1. IInv => TypeOK
  BY DEF IInv
<1> QED
  BY <1>1, Invariant, PTL

(* The queue with one worker and the deleted key make one room at most of  *)
(* a challenge of the chat, over taps, failed calls and crashes.           *)
THEOREM ChatMakesOneRoom == Spec => []OneRoomPerChat
<1>1. IInv => OneRoomPerChat
  <2> SUFFICES ASSUME IInv, NEW c \in Challenges, TypeOf[c] = "CHAT"
               PROVE  Cardinality(RoomsOf(c)) <= 1
    BY DEF OneRoomPerChat
  <2>1. \A a, b \in RoomsOf(c) : a = b
    BY DEF IInv, RoomsOnce, RoomsOf, IsChat
  <2>2. CASE RoomsOf(c) = {}
    BY <2>2, FS_EmptySet
  <2>3. ASSUME NEW a \in RoomsOf(c) PROVE Cardinality(RoomsOf(c)) <= 1
    <3>1. RoomsOf(c) = {a}
      BY <2>1
    <3>2. Cardinality({a}) = 1
      BY FS_Singleton
    <3> QED
      BY <3>1, <3>2
  <2> QED
    BY <2>2, <2>3
<1> QED
  BY <1>1, Invariant, PTL

(* cancelPvPChallenge returns the margin of a challenge once at most, for  *)
(* any number of sweeps, failed calls and crashes.                         *)
THEOREM MarginRefundedOnce == Spec => []RefundedOnce
<1>1. IInv => RefundedOnce
  BY DEF IInv
<1> QED
  BY <1>1, Invariant, PTL

(* playPvP leaves all of its four calls or none, as the room says, for any *)
(* prices and failures: its rollback undoes the calls made, and no other.  *)
THEOREM SettlementsAsRecorded == Spec => []SettledAsRecorded
<1>1. IInv => SettledAsRecorded
  BY DEF IInv, Settled, SettledAsRecorded
<1> QED
  BY <1>1, Invariant, PTL

(* Every player has locked what he has at stake in open challenges and     *)
(* rooms that wait, unless a challenge was released twice or a settlement  *)
(* cut by a crash: the handlers free the margins of their own room only.   *)
THEOREM MarginsStayLocked == Spec => []StakesAreLocked
<1>1. IInv => StakesAreLocked
  BY StakesCounted DEF IInv, StakesAreLocked
<1> QED
  BY <1>1, Invariant, PTL

(* The accounts f without the first n payments of w's victory over l. *)
Without(f, w, l, n) ==
    [u \in Users |->
        [balance |-> f[u].balance - (IF u = w /\ n >= 2 THEN 9 ELSE 0)
                                  + (IF u = l /\ n >= 3 THEN 10 ELSE 0),
         locked |-> f[u].locked + (IF (u = w /\ n >= 1) \/ (u = l /\ n = 4) THEN 10 ELSE 0)]]

LEMMA AccountIs ==
    ASSUME NEW a \in Account
    PROVE  /\ a = [balance |-> a.balance, locked |-> a.locked]
           /\ a.balance \in Int /\ a.locked \in Int
BY DEF Account

(* Counting out no payment changes nothing. *)
LEMMA WithoutIs ==
    ASSUME NEW f \in [Users -> Account], NEW w, NEW l, NEW n \in 0..4
    PROVE  /\ Without(f, w, l, n) \in [Users -> Account]
           /\ Without(f, w, l, 0) = f
<1>1. \A u \in Users : f[u].balance \in Int /\ f[u].locked \in Int
  BY AccountIs
<1>2. ASSUME NEW u \in Users PROVE Without(f, w, l, n)[u] \in Account
  <2>1. /\ f[u].balance - (IF u = w /\ n >= 2 THEN 9 ELSE 0)
                        + (IF u = l /\ n >= 3 THEN 10 ELSE 0) \in Int
        /\ f[u].locked + (IF (u = w /\ n >= 1) \/ (u = l /\ n = 4) THEN 10 ELSE 0) \in Int
    BY <1>1
  <2> QED
    BY <2>1 DEF Without, Account
<1>3. ASSUME NEW u \in Users PROVE Without(f, w, l, 0)[u] = f[u]
  <2>1. Without(f, w, l, 0)[u] = [balance |-> f[u].balance - 0 + 0, locked |-> f[u].locked + 0]
    BY DEF Without
  <2>2. f[u].balance - 0 + 0 = f[u].balance /\ f[u].locked + 0 = f[u].locked
    BY <1>1
  <2> QED
    BY <2>1, <2>2, AccountIs
<1>4. Without(f, w, l, 0) = f
  BY <1>3 DEF Without
<1>5. Without(f, w, l, n) \in [Users -> Account]
  BY <1>2 DEF Without
<1> QED
  BY <1>4, <1>5

(* Accounts with the same values are the same. *)
LEMMA SameAccounts ==
    ASSUME NEW f \in [Users -> Account], NEW g \in [Users -> Account],
           \A u \in Users : f[u].balance = g[u].balance /\ f[u].locked = g[u].locked
    PROVE  f = g
<1>1. ASSUME NEW u \in Users PROVE f[u] = g[u]
  BY AccountIs
<1> QED
  BY <1>1

(* A call that is made and counted out was not made. *)
LEMMA WithoutCallIs ==
    ASSUME TypeOK, NEW r \in Accepts, NEW w \in {Creator(r), AcceptorOf[r]}, NEW n \in 0..3,
           Creator(r) # AcceptorOf[r]
    PROVE  Without(AfterCall(Calls(r, w)[n + 1]), w, LoserOf(r, w), n + 1)
             = Without(wallet, w, LoserOf(r, w), n)
<1> DEFINE l == LoserOf(r, w)
           g == AfterCall(Calls(r, w)[n + 1])
<1>1. n + 1 \in 1..4 /\ l # w
  BY CallsAre
<1>2. /\ g \in [Users -> Account]
      /\ \A u \in Users :
            /\ g[u].locked = IF (u = w /\ n + 1 = 1) \/ (u = l /\ n + 1 = 4)
                             THEN wallet[u].locked - 10 ELSE wallet[u].locked
            /\ g[u].balance = IF u = w /\ n + 1 = 2 THEN wallet[u].balance + 9
                              ELSE IF u = l /\ n + 1 = 3 THEN wallet[u].balance - 10
                              ELSE wallet[u].balance
  BY <1>1, CallMoney, Amounts
<1>3. wallet \in [Users -> Account]
      /\ \A u \in Users : wallet[u].locked \in Int /\ wallet[u].balance \in Int
  BY DEF TypeOK, Account
<1> HIDE DEF l, g
<1>4. Without(g, w, l, n + 1) \in [Users -> Account] /\ Without(wallet, w, l, n) \in [Users -> Account]
  BY <1>1, <1>2, <1>3, WithoutIs
<1>5. ASSUME NEW u \in Users
      PROVE  /\ Without(g, w, l, n + 1)[u].balance = Without(wallet, w, l, n)[u].balance
             /\ Without(g, w, l, n + 1)[u].locked = Without(wallet, w, l, n)[u].locked
  BY <1>1, <1>2, <1>3 DEF Without
<1>6. Without(g, w, l, n + 1) = Without(wallet, w, l, n)
  BY <1>4, <1>5, SameAccounts
<1> QED
  BY <1>6 DEF l, g

(* A rollback is the counting out of what it undoes. *)
LEMMA UndoneIs ==
    ASSUME TypeOK, NEW r \in Accepts, NEW w \in {Creator(r), AcceptorOf[r]}, NEW n \in 1..4,
           Creator(r) # AcceptorOf[r]
    PROVE  RolledBack(Calls(r, w), n) = Without(wallet, w, LoserOf(r, w), n)
<1> DEFINE l == LoserOf(r, w)
           g == RolledBack(Calls(r, w), n)
<1>1. l # w
  BY CallsAre
<1>2. /\ g \in [Users -> Account]
      /\ \A u \in Users :
            /\ g[u].locked = IF u = w \/ (u = l /\ n = 4) THEN wallet[u].locked + 10
                                                         ELSE wallet[u].locked
            /\ g[u].balance = IF u = w /\ n >= 2 THEN wallet[u].balance - 9
                              ELSE IF u = l /\ n >= 3 THEN wallet[u].balance + 10
                              ELSE wallet[u].balance
  BY RolledBackIs, Amounts
<1>3. wallet \in [Users -> Account]
      /\ \A u \in Users : wallet[u].locked \in Int /\ wallet[u].balance \in Int
  BY DEF TypeOK, Account
<1> HIDE DEF l, g
<1>4. Without(wallet, w, l, n) \in [Users -> Account]
  BY <1>3, WithoutIs
<1>5. ASSUME NEW u \in Users
      PROVE  /\ g[u].balance = Without(wallet, w, l, n)[u].balance
             /\ g[u].locked = Without(wallet, w, l, n)[u].locked
  BY <1>1, <1>2, <1>3 DEF Without
<1>6. g = Without(wallet, w, l, n)
  BY <1>2, <1>4, <1>5, SameAccounts
<1> QED
  BY <1>6 DEF l, g

(* Margins locked and freed meanwhile do not mix with the payments. *)
Margined(f, v, d) == [f EXCEPT ![v] = ChangeLocked(@, d)]

LEMMA MarginedIs ==
    ASSUME NEW f \in [Users -> Account], NEW v \in Users, NEW d \in Int
    PROVE  /\ Margined(f, v, d) \in [Users -> Account]
           /\ \A u \in Users : Margined(f, v, d)[u].balance = f[u].balance
           /\ \A u \in Users : Margined(f, v, d)[u].locked =
                 IF u = v THEN f[u].locked + d ELSE f[u].locked
           /\ Margined(f, v, d) = [f EXCEPT ![v].locked = @ + d]
<1> DEFINE g == Margined(f, v, d)
<1>1. g = [f EXCEPT ![v] = ChangeLocked(@, d)]
  BY DEF Margined
<1> HIDE DEF g
<1>2. /\ g \in [Users -> Account]
      /\ \A u \in Users : u # v => g[u] = f[u]
      /\ g[v].locked = f[v].locked + d /\ g[v].balance = f[v].balance
  BY <1>1, AccountChanged
<1>3. g = [f EXCEPT ![v].locked = @ + d]
  BY <1>1 DEF ChangeLocked
<1> QED
  BY <1>2, <1>3 DEF g

(* A margin moved meanwhile is the same before and after the counting out. *)
LEMMA MarginWithout ==
    ASSUME NEW f \in [Users -> Account], NEW v \in Users, NEW d \in Int,
           NEW w, NEW l, NEW n \in 0..4
    PROVE  Without(Margined(f, v, d), w, l, n) = Margined(Without(f, w, l, n), v, d)
<1> DEFINE b == Without(f, w, l, n)
           g == Margined(f, v, d)
           c == Margined(b, v, d)
<1>1. /\ g \in [Users -> Account]
      /\ \A u \in Users : g[u].balance = f[u].balance
      /\ \A u \in Users : g[u].locked = IF u = v THEN f[u].locked + d ELSE f[u].locked
  BY MarginedIs
<1>2. \A u \in Users : f[u].balance \in Int /\ f[u].locked \in Int
  BY AccountIs
<1> HIDE DEF g
<1>3. b \in [Users -> Account] /\ Without(g, w, l, n) \in [Users -> Account]
  BY <1>1, WithoutIs
<1>b. \A u \in Users :
        /\ b[u].balance = f[u].balance - (IF u = w /\ n >= 2 THEN 9 ELSE 0)
                                       + (IF u = l /\ n >= 3 THEN 10 ELSE 0)
        /\ b[u].locked = f[u].locked
                           + (IF (u = w /\ n >= 1) \/ (u = l /\ n = 4) THEN 10 ELSE 0)
  BY DEF Without
<1> HIDE DEF b
<1>4. /\ c \in [Users -> Account]
      /\ \A u \in Users : c[u].balance = b[u].balance
      /\ \A u \in Users : c[u].locked = IF u = v THEN b[u].locked + d ELSE b[u].locked
  BY <1>3, MarginedIs
<1> HIDE DEF c
<1>5. ASSUME NEW u \in Users
      PROVE  /\ Without(g, w, l, n)[u].balance = c[u].balance
             /\ Without(g, w, l, n)[u].locked = c[u].locked
  <2>1. /\ Without(g, w, l, n)[u].balance
              = g[u].balance - (IF u = w /\ n >= 2 THEN 9 ELSE 0)
                             + (IF u = l /\ n >= 3 THEN 10 ELSE 0)
        /\ Without(g, w, l, n)[u].locked = g[u].locked
                           + (IF (u = w /\ n >= 1) \/ (u = l /\ n = 4) THEN 10 ELSE 0)
    BY DEF Without
  <2> QED
    BY <1>1, <1>2, <1>b, <1>4, <2>1
<1>6. Without(g, w, l, n) = c
  BY <1>3, <1>4, <1>5, SameAccounts
<1> QED
  BY <1>6 DEF c, b, g

-----------------------------------------------------------------------------
(* The step of each part as RoomLedger sees it. *)
LEMMA SettledIs ==
    /\ settle.calls = 0 => SettledAccounts = wallet
    /\ settle.calls # 0 => SettledAccounts =
          Without(wallet, settle.winner, LoserOf(settle.room, settle.winner), settle.calls)
    /\ settle'.calls = 0 => SettledAccounts' = wallet'
    /\ settle'.calls # 0 => SettledAccounts' =
          Without(wallet', settle'.winner, LoserOf(settle'.room, settle'.winner), settle'.calls)
<1>1. totalPrize - amount = 9 /\ amount = 10
  BY Amounts
<1>2. \A r, w : LoserOf(r, w)' = LoserOf(r, w) /\ Creator(r)' = Creator(r)
  BY DEF LoserOf, Creator
<1>3. /\ settle'.calls = 0 => SettledAccounts' = wallet'
      /\ settle'.calls # 0 => SettledAccounts' =
          Without(wallet', settle'.winner, LoserOf(settle'.room, settle'.winner), settle'.calls)
  BY <1>1, <1>2 DEF SettledAccounts, Without, LoserOf, Creator
<1>4. /\ settle.calls = 0 => SettledAccounts = wallet
      /\ settle.calls # 0 => SettledAccounts =
          Without(wallet, settle.winner, LoserOf(settle.room, settle.winner), settle.calls)
  BY <1>1 DEF SettledAccounts, Without
<1> QED
  BY <1>3, <1>4

LEMMA SettledTyped ==
    ASSUME TypeOK
    PROVE  SettledAccounts \in [Users -> Account]
<1>1. wallet \in [Users -> Account] /\ settle.calls \in 0..4
  BY DEF TypeOK, SettleRun
<1> QED
  BY <1>1, SettledIs, WithoutIs

(* What nobody settles stays in the books. *)
LEMMA BooksStay ==
    ASSUME UNCHANGED stalled, \A a \in Accepts : rooms'[a].winner = rooms[a].winner,
           \A a \in Accepts : \/ jobs'[a] = jobs[a]
                             \/ {jobs[a], jobs'[a]} \subseteq {"none", "waiting", "active"},
           UNCHANGED settle \/ {settle.pc, settle'.pc} \cap {"over", "broken"} = {}
    PROVE  UNCHANGED <<Winners, ToSettle, CutOnce, HalfMade>>
<1>1. UNCHANGED Winners /\ UNCHANGED CutOnce
  BY DEF Winners, CutOnce
<1>2. UNCHANGED Ended /\ (settle'.pc = "broken" <=> settle.pc = "broken")
  BY DEF Ended
<1>3. \A a \in Accepts : /\ jobs'[a] \in {"completed", "failed"} <=> jobs[a] \in {"completed", "failed"}
                         /\ jobs'[a] = "failed" <=> jobs[a] = "failed"
  OBVIOUS
<1>4. UNCHANGED ToSettle
  BY <1>2, <1>3 DEF ToSettle
<1>5. UNCHANGED HalfMade
  BY <1>2, <1>3 DEF HalfMade
<1> QED
  BY <1>1, <1>4, <1>5

(* Where neither the wallet nor the count moves the books do not. *)
LEMMA AccountsStay ==
    ASSUME UNCHANGED wallet,
           \/ settle' = settle
           \/ /\ settle'.room = settle.room /\ settle'.winner = settle.winner
              /\ settle'.calls = settle.calls
           \/ settle.calls = 0 /\ settle'.calls = 0
    PROVE  UNCHANGED SettledAccounts
BY SettledIs

(* A margin locked or freed, with a settlement under way or not. *)
LEMMA MarginStep ==
    ASSUME TypeOK, NEW u \in Users, Lock(u) \/ Release(u), UNCHANGED settle,
           UNCHANGED <<Winners, ToSettle, CutOnce, HalfMade>>
    PROVE  Books!Margin(u)
<1>1. PICK d \in {amount, -amount} : wallet' = Margined(wallet, u, d)
  BY DEF Lock, Release, Margined
<1>2. d \in Int
  BY Amounts
<1>3. wallet \in [Users -> Account] /\ settle.calls \in 0..4
  BY DEF TypeOK, SettleRun
<1>4. SettledAccounts' = Margined(SettledAccounts, u, d)
  BY <1>1, <1>2, <1>3, SettledIs, MarginWithout
<1>5. SettledAccounts' = [SettledAccounts EXCEPT ![u].locked = @ + d]
  BY <1>2, <1>4, SettledTyped, MarginedIs
<1> QED
  BY <1>1, <1>5 DEF Books!Margin

(* Opening, cancelling and expiry move the creator's margin or nothing. *)
LEMMA ChallengeBooks ==
    ASSUME TypeOK, NEW c \in Challenges, CreateStep(c) \/ CancelStep(c) \/ GrowsStale(c)
    PROVE  Books!Margin(CreatorOf[c]) \/ UNCHANGED Books!ledgerVars
<1>1. UNCHANGED <<settle, rooms, jobs, stalled>>
  BY ChallengeLeaves
<1>2. UNCHANGED <<Winners, ToSettle, CutOnce, HalfMade>>
  BY <1>1, BooksStay
<1>3. Lock(CreatorOf[c]) \/ Release(CreatorOf[c]) \/ UNCHANGED wallet
  BY DEF CreateStep, CreateCheck, CreateLock, CreateLockRefused, CreateSet, CreateSetFails,
         CancelStep, CancelFind, CancelAgain, CancelDel, CancelRefund, CancelRefundRefused,
         CancelFails, GrowsStale
<1>4. UNCHANGED wallet => UNCHANGED SettledAccounts
  BY <1>1, AccountsStay
<1>5. CreatorOf[c] \in Users
  BY RequestsAssumption
<1> QED
  BY <1>1, <1>2, <1>3, <1>4, <1>5, MarginStep DEF Books!ledgerVars

(* An acceptance moves the acceptor's margin or nothing. *)
LEMMA AcceptBooks ==
    ASSUME TypeOK, JobsOnce, NEW a \in Accepts, ChatTap(a) \/ AcceptStart(a) \/ AcceptStep(a)
    PROVE  Books!Margin(AcceptorOf[a]) \/ UNCHANGED Books!ledgerVars
<1>0. /\ jobs \in [Accepts -> {"none", "waiting", "active", "completed", "failed"}]
      /\ rooms \in [Accepts -> Room]
  BY DEF TypeOK
<1>1. UNCHANGED <<settle, stalled>>
  BY AcceptLeaves
<1>2. \A b \in Accepts : rooms'[b].winner = rooms[b].winner
  <2>1. CASE AcceptSave(a)
    <3>1. PICK p \in Prices : rooms' =
              [rooms EXCEPT ![a] = [saved |-> TRUE, openPrice |-> p, winner |-> NoOne]]
      BY <2>1 DEF AcceptSave
    <3>2. rooms[a].winner = NoOne
      BY <2>1 DEF AcceptSave, JobsOnce, JobOnce
    <3> QED
      BY <1>0, <3>1, <3>2
  <2>2. CASE ~AcceptSave(a)
    <3>1. UNCHANGED rooms
      BY <2>2 DEF ChatTap, AcceptStart, AcceptStep, ChatQueue, AcceptGet, AcceptLock,
                  AcceptLockRefused, AcceptDel, AcceptEnqueue, AcceptFails, ChatLeaves
    <3> QED
      BY <3>1
  <2> QED
    BY <2>1, <2>2
<1>3. \A b \in Accepts : \/ jobs'[b] = jobs[b]
                         \/ {jobs[b], jobs'[b]} \subseteq {"none", "waiting", "active"}
  <2>1. CASE AcceptEnqueue(a)
    <3>1. jobs' = [jobs EXCEPT ![a] = "waiting"] /\ jobs[a] = "none"
      BY <2>1 DEF AcceptEnqueue, JobsOnce, JobOnce
    <3> QED
      BY <1>0, <3>1
  <2>2. CASE ~AcceptEnqueue(a)
    <3>1. UNCHANGED jobs
      BY <2>2 DEF ChatTap, AcceptStart, AcceptStep, ChatQueue, AcceptGet, AcceptLock,
                  AcceptLockRefused, AcceptDel, AcceptSave, AcceptFails, ChatLeaves
    <3> QED
      BY <3>1
  <2> QED
    BY <2>1, <2>2
<1>4. UNCHANGED <<Winners, ToSettle, CutOnce, HalfMade>>
  BY <1>1, <1>2, <1>3, BooksStay
<1>5. Lock(AcceptorOf[a]) \/ UNCHANGED wallet
  BY DEF ChatTap, AcceptStart, AcceptStep, ChatQueue, AcceptGet, AcceptLock, AcceptLockRefused,
         AcceptDel, AcceptSave, AcceptEnqueue, AcceptFails, ChatLeaves
<1>6. UNCHANGED wallet => UNCHANGED SettledAccounts
  BY <1>1, AccountsStay
<1>7. AcceptorOf[a] \in Users
  BY RequestsAssumption
<1> QED
  BY <1>1, <1>4, <1>5, <1>6, <1>7, MarginStep DEF Books!ledgerVars

(* What the worker settles while calls of it may stand. *)
LEMMA WorkerIs ==
    ASSUME TypeOK, WorkerOK, JobsOnce, settle.pc \in {"call", "record", "undo"}
    PROVE  \E r \in Accepts, w \in Users :
              /\ w \in {Creator(r), AcceptorOf[r]}
              /\ r = settle.room /\ w = settle.winner /\ Creator(r) # AcceptorOf[r]
              /\ jobs[r] = "active"
              /\ \A b \in Accepts : b # r => jobs[b] # "active"
<1>1. PICK r \in Accepts : /\ r = settle.room /\ jobs[r] = "active"
                          /\ \A b \in Accepts : b # r => jobs[b] # "active"
  BY RoomOfWorker
<1>2. settle.winner \in {Creator(r), AcceptorOf[r]} /\ settle.winner \in Users
  BY <1>1, RequestsAssumption DEF WorkerOK, Creator
<1>3. Creator(r) # AcceptorOf[r]
  BY <1>1 DEF JobsOnce, JobOnce
<1> QED
  BY <1>1, <1>2, <1>3

(* The payments that stand, made on the accounts without them. *)
LEMMA PaidIs ==
    ASSUME TypeOK, NEW w, NEW l, NEW n \in 0..4, w # l, SettledAccounts = Without(wallet, w, l, n)
    PROVE  Books!Paid(w, l, n) = wallet
<1> DEFINE p == Books!Paid(w, l, n)
           b == SettledAccounts
<1>0. amount = 10 /\ tax = 1
  BY DEF amount, tax, totalAmount
<1>1. /\ p = [u \in Users |-> p[u]]
      /\ \A u \in Users : p[u] =
            [balance |-> b[u].balance + (IF u = w /\ n >= 2 THEN 9 ELSE 0)
                                      - (IF u = l /\ n >= 3 THEN 10 ELSE 0),
             locked |-> b[u].locked - (IF (u = w /\ n >= 1) \/ (u = l /\ n = 4) THEN 10 ELSE 0)]
  BY <1>0 DEF Books!Paid
<1>2. \A u \in Users :
        /\ b[u].balance = wallet[u].balance - (IF u = w /\ n >= 2 THEN 9 ELSE 0)
                                            + (IF u = l /\ n >= 3 THEN 10 ELSE 0)
        /\ b[u].locked = wallet[u].locked
                           + (IF (u = w /\ n >= 1) \/ (u = l /\ n = 4) THEN 10 ELSE 0)
  BY DEF Without
<1>3. \A u \in Users : wallet[u].balance \in Int /\ wallet[u].locked \in Int
  BY AccountIs DEF TypeOK
<1>a. \A u \in Users : wallet[u] = [balance |-> wallet[u].balance, locked |-> wallet[u].locked]
  BY AccountIs DEF TypeOK
<1> HIDE DEF p, b
<1>4. ASSUME NEW u \in Users PROVE p[u] = wallet[u]
  <2> PICK x \in {0, 9}, y \in {0, 10}, z \in {0, 10} :
          /\ x = IF u = w /\ n >= 2 THEN 9 ELSE 0
          /\ y = IF u = l /\ n >= 3 THEN 10 ELSE 0
          /\ z = IF (u = w /\ n >= 1) \/ (u = l /\ n = 4) THEN 10 ELSE 0
    OBVIOUS
  <2>1. b[u].balance = wallet[u].balance - x + y /\ b[u].locked = wallet[u].locked + z
    BY <1>2
  <2>2. p[u].balance = b[u].balance + x - y /\ p[u].locked = b[u].locked - z
    BY <1>1
  <2>3. b[u].balance + x - y = wallet[u].balance /\ b[u].locked - z = wallet[u].locked
    <3> PICK i \in Int, j \in Int : i = wallet[u].balance /\ j = wallet[u].locked
      BY <1>3
    <3>1. b[u].balance = i - x + y /\ b[u].locked = j + z
      BY <2>1
    <3>2. i - x + y + x - y = i /\ j + z - z = j
      OBVIOUS
    <3> QED
      BY <3>1, <3>2
  <2>4. p[u] = [balance |-> p[u].balance, locked |-> p[u].locked]
    BY <1>1
  <2> QED
    BY <1>a, <2>2, <2>3, <2>4
<1>5. wallet = [u \in Users |-> wallet[u]]
  BY DEF TypeOK
<1>6. p = wallet
  BY <1>1, <1>4, <1>5
<1> QED
  BY <1>6 DEF p

(* A worker that stops with calls standing leaves just these payments made. *)
LEMMA PartPaidBy ==
    ASSUME TypeOK, NEW r \in Accepts, NEW w \in {Creator(r), AcceptorOf[r]},
           r = settle.room, w = settle.winner, Creator(r) # AcceptorOf[r],
           UNCHANGED wallet, settle'.calls = 0
    PROVE  Books!PartPaid(r)
<1> DEFINE l == LoserOf(r, w)
           n == settle.calls
<1>1. /\ w \in PlayersOf(r) /\ l \in PlayersOf(r) /\ w # l /\ n \in 0..4
      /\ wallet \in [Users -> Account]
  BY CallsAre DEF PlayersOf, LoserOf, TypeOK, SettleRun
<1>2. SettledAccounts' = wallet
  BY SettledIs
<1>3. SettledAccounts = Without(wallet, w, l, n)
  BY <1>1, SettledIs, WithoutIs
<1>4. SettledAccounts' = Books!Paid(w, l, n)
  BY <1>1, <1>2, <1>3, PaidIs
<1> HIDE DEF l, n
<1> QED
  BY <1>1, <1>4 DEF Books!PartPaid

(* Before a price is known nothing is paid. *)
LEMMA NonePaid ==
    ASSUME TypeOK, NEW r \in Accepts, Creator(r) # AcceptorOf[r],
           UNCHANGED wallet, settle.calls = 0, settle'.calls = 0
    PROVE  Books!PartPaid(r)
<1> DEFINE w == Creator(r)
           l == AcceptorOf[r]
<1>1. w # l /\ w \in PlayersOf(r) /\ l \in PlayersOf(r)
  BY DEF PlayersOf
<1>2. SettledAccounts = wallet /\ SettledAccounts' = wallet
  BY SettledIs
<1>3. SettledAccounts = Without(wallet, w, l, 0)
  <2>1. wallet \in [Users -> Account] /\ 0 \in 0..4
    BY DEF TypeOK
  <2> QED
    BY <1>2, <2>1, WithoutIs
<1>4. SettledAccounts' = Books!Paid(w, l, 0)
  BY <1>1, <1>2, <1>3, PaidIs
<1> HIDE DEF w, l
<1> QED
  BY <1>1, <1>4 DEF Books!PartPaid

(* The last step of playPvP takes its room from those that are due. *)
LEMMA NoLongerDue ==
    ASSUME TypeOK, NEW r \in Accepts, r = settle.room, jobs[r] = "active",
           settle.pc \notin {"over", "broken"}, NEW pc \in {"over", "broken"}, Over(pc),
           UNCHANGED <<jobs, stalled>>
    PROVE  /\ r \in ToSettle /\ ToSettle' = ToSettle \ {r} /\ UNCHANGED CutOnce
           /\ HalfMade' = HalfMade \cup (IF pc = "broken" THEN {r} ELSE {})
           /\ settle'.calls = 0
<1>1. settle'.pc = pc /\ settle'.room = r /\ settle'.calls = 0
  BY OverIs
<1>2. Ended = {} /\ Ended' = {r}
  BY <1>1 DEF Ended
<1>3. r \in ToSettle /\ ToSettle' = ToSettle \ {r}
  BY <1>2 DEF ToSettle
<1>4. HalfMade = {a \in Accepts : jobs[a] = "failed"}
  BY DEF HalfMade
<1>5. HalfMade' = {a \in Accepts : jobs[a] = "failed"} \cup (IF pc = "broken" THEN {r} ELSE {})
  BY <1>1, <1>2 DEF HalfMade
<1> QED
  BY <1>1, <1>3, <1>4, <1>5 DEF CutOnce

(* The mark BullMQ puts on the job changes no more. *)
LEMMA EndsBooks ==
    ASSUME TypeOK, WorkerOK, SettleEnds
    PROVE  UNCHANGED Books!ledgerVars
<1>1. PICK r \in Accepts, state \in {"completed", "failed"} :
         /\ r = settle.room /\ jobs[r] = "active" /\ jobs' = [jobs EXCEPT ![r] = state]
         /\ state = "failed" <=> settle.pc = "broken"
  BY EndsIs
<1>2. /\ settle.pc \in {"over", "broken"} /\ settle.calls = 0
      /\ settle'.pc = "idle" /\ settle'.calls = 0 /\ UNCHANGED <<rooms, wallet, stalled>>
  BY AtRestIs DEF SettleEnds, WorkerOK
<1>3. Ended = {r} /\ Ended' = {}
  BY <1>1, <1>2 DEF Ended
<1>4. jobs'[r] = state /\ \A a \in Accepts : a # r => jobs'[a] = jobs[a]
  BY <1>1 DEF TypeOK
<1>5. UNCHANGED ToSettle
  BY <1>1, <1>3, <1>4 DEF ToSettle
<1>6. UNCHANGED HalfMade
  <2>1. HalfMade = {a \in Accepts : jobs[a] = "failed"} \cup (IF settle.pc = "broken" THEN {r} ELSE {})
    BY <1>3 DEF HalfMade
  <2>2. HalfMade' = {a \in Accepts : jobs'[a] = "failed"}
    BY <1>2 DEF HalfMade
  <2> QED
    BY <1>1, <1>4, <2>1, <2>2
<1>7. UNCHANGED SettledAccounts
  BY <1>2, AccountsStay
<1> QED
  BY <1>2, <1>5, <1>6, <1>7 DEF Books!ledgerVars, Winners, CutOnce

(* The worker settles a room at once, or drops it, or gives it up half made; *)
(* between these it moves nothing in the books.                              *)
LEMMA SettleBooks ==
    ASSUME TypeOK, WorkerOK, JobsOnce, (\E a \in Accepts : SettleStart(a)) \/ SettleStep
    PROVE  \/ \E r \in Accepts : Books!Settle(r) \/ Books!Drop(r) \/ Books!Fail(r)
           \/ UNCHANGED Books!ledgerVars
<1> DEFINE Goal ==
      \/ \E r \in Accepts : Books!Settle(r) \/ Books!Drop(r) \/ Books!Fail(r)
      \/ UNCHANGED Books!ledgerVars
<1>0. /\ jobs \in [Accepts -> {"none", "waiting", "active", "completed", "failed"}]
      /\ rooms \in [Accepts -> Room] /\ wallet \in [Users -> Account] /\ settle.calls \in 0..4
      /\ settle \in SettleRun
  BY DEF TypeOK, SettleRun
<1>s. UNCHANGED stalled
  BY SettleLeaves
<1>r. settle.pc # "idle" => settle.room \in Accepts /\ jobs[settle.room] = "active"
  BY DEF WorkerOK
<1>q. ASSUME UNCHANGED SettledAccounts, UNCHANGED rooms,
             {settle.pc, settle'.pc} \cap {"over", "broken"} = {},
             UNCHANGED jobs
             \/ \E a \in Accepts : jobs[a] = "waiting" /\ jobs' = [jobs EXCEPT ![a] = "active"]
      PROVE  Goal
  <2>1. \A b \in Accepts : \/ jobs'[b] = jobs[b]
                           \/ {jobs[b], jobs'[b]} \subseteq {"none", "waiting", "active"}
    BY <1>0, <1>q
  <2>2. UNCHANGED <<Winners, ToSettle, CutOnce, HalfMade>>
    BY <1>s, <1>q, <2>1, BooksStay
  <2> QED
    BY <1>q, <2>2 DEF Books!ledgerVars
<1>1. ASSUME NEW a \in Accepts, SettleStart(a) PROVE Goal
  <2>1. /\ UNCHANGED <<wallet, rooms>> /\ jobs[a] = "waiting"
        /\ jobs' = [jobs EXCEPT ![a] = "active"]
        /\ settle.calls = 0 /\ settle'.calls = 0
        /\ settle.pc = "idle" /\ settle'.pc = "price"
    BY <1>1, AtRestIs DEF SettleStart, Settling, WorkerOK, AtRest
  <2>2. UNCHANGED SettledAccounts
    BY <2>1, AccountsStay
  <2> QED
    BY <1>q, <2>1, <2>2
<1>2. CASE SettlePrice
  <2>1. /\ UNCHANGED <<wallet, rooms, jobs>> /\ settle.calls = 0 /\ settle'.calls = 0
        /\ settle.pc = "price" /\ settle'.pc = "call"
    BY <1>0, <1>2 DEF SettlePrice, Settling, WorkerOK, SettleRun
  <2>2. UNCHANGED SettledAccounts
    BY <2>1, AccountsStay
  <2> QED
    BY <1>q, <2>1, <2>2
<1>3. CASE SettleCall
  <2> PICK r \in Accepts, w \in Users :
          /\ w \in {Creator(r), AcceptorOf[r]}
          /\ r = settle.room /\ w = settle.winner /\ Creator(r) # AcceptorOf[r]
    BY <1>3, WorkerIs DEF SettleCall, Settling
  <2> DEFINE l == LoserOf(r, w)
  <2> PICK n \in 0..3 : n = settle.calls
    BY <1>0, <1>3 DEF SettleCall, Settling, WorkerOK
  <2>1. /\ UNCHANGED <<rooms, jobs>> /\ wallet' = AfterCall(Calls(r, w)[n + 1])
        /\ settle.pc = "call"
        /\ settle' = [settle EXCEPT !.calls = n + 1, !.pc = IF n + 1 = 4 THEN "record" ELSE "call"]
    BY <1>3 DEF SettleCall, AfterCall, Settling
  <2>2. /\ settle'.room = r /\ settle'.winner = w /\ settle'.calls = n + 1
        /\ settle'.pc \in {"call", "record"}
    BY <1>0, <2>1 DEF SettleRun
  <2>3. SettledAccounts' = Without(wallet', w, l, n + 1)
    <3>1. n + 1 # 0
      OBVIOUS
    <3> QED
      BY <2>2, <3>1, SettledIs
  <2>4. SettledAccounts = Without(wallet, w, l, n)
    BY <1>0, SettledIs, WithoutIs
  <2>5. Without(AfterCall(Calls(r, w)[n + 1]), w, l, n + 1) = Without(wallet, w, l, n)
    BY WithoutCallIs
  <2>6. UNCHANGED SettledAccounts
    BY <2>1, <2>3, <2>4, <2>5
  <2>7. {settle.pc, settle'.pc} \cap {"over", "broken"} = {}
    BY <2>1, <2>2
  <2> QED
    BY <1>q, <2>1, <2>6, <2>7
<1>4. CASE SettleRecord
  <2> PICK r \in Accepts, w \in Users :
          /\ w \in {Creator(r), AcceptorOf[r]}
          /\ r = settle.room /\ w = settle.winner /\ Creator(r) # AcceptorOf[r]
          /\ jobs[r] = "active"
    BY <1>4, WorkerIs DEF SettleRecord, Settling
  <2> DEFINE l == LoserOf(r, w)
  <2>1. /\ UNCHANGED <<wallet, jobs>> /\ Over("over") /\ settle.calls = 4
        /\ rooms' = [rooms EXCEPT ![r].winner = w] /\ settle.pc \notin {"over", "broken"}
    BY <1>4 DEF SettleRecord, Settling, WorkerOK
  <2>2. w \in PlayersOf(r) /\ l \in PlayersOf(r) /\ w # l
    BY CallsAre DEF PlayersOf, LoserOf
  <2>6. /\ r \in ToSettle /\ ToSettle' = ToSettle \ {r} /\ UNCHANGED <<CutOnce, HalfMade>>
        /\ settle'.calls = 0
    BY <1>s, <2>1, NoLongerDue
  <2>3. SettledAccounts' = wallet /\ SettledAccounts = Without(wallet, w, l, 4)
    BY <2>1, <2>6, SettledIs
  <2>4. SettledAccounts' = Books!Paid(w, l, 4)
    BY <2>2, <2>3, PaidIs
  <2>5. Winners' = [Winners EXCEPT ![r] = w]
    <3>1. \A b \in Accepts : rooms'[b].winner = IF b = r THEN w ELSE rooms[b].winner
      BY <1>0, <2>1 DEF Room
    <3> QED
      BY <3>1 DEF Winners
  <2> HIDE DEF l
  <2>7. Books!Settle(r)
    BY <2>2, <2>4, <2>5, <2>6 DEF Books!Settle
  <2> QED
    BY <2>7
<1>5. CASE SettleFails
  <2>1. /\ UNCHANGED <<wallet, rooms, jobs>> /\ settle.pc \in {"price", "record", "call"}
    BY <1>5 DEF SettleFails, Settling
  <2>2. CASE settle.calls > 0
    <3>1. settle' = [settle EXCEPT !.pc = "undo"]
      BY <1>5, <2>2 DEF SettleFails, Catch, SettleTo
    <3>2. /\ settle'.room = settle.room /\ settle'.winner = settle.winner
          /\ settle'.calls = settle.calls /\ settle'.pc = "undo"
      BY <1>0, <3>1 DEF SettleRun
    <3>3. UNCHANGED SettledAccounts
      BY <2>1, <3>2, AccountsStay
    <3> QED
      BY <1>q, <2>1, <3>2, <3>3
  <2>3. CASE ~(settle.calls > 0)
    <3> PICK r \in Accepts : r = settle.room /\ jobs[r] = "active"
      BY <1>r, <2>1
    <3>1. Over("over")
      BY <1>5, <2>3 DEF SettleFails, Catch
    <3>2. /\ r \in ToSettle /\ ToSettle' = ToSettle \ {r} /\ UNCHANGED <<CutOnce, HalfMade>>
          /\ settle.calls = 0 /\ settle'.calls = 0
      BY <1>0, <1>s, <2>1, <2>3, <3>1, NoLongerDue
    <3>3. UNCHANGED <<SettledAccounts, Winners>>
      BY <2>1, <3>2, AccountsStay DEF Winners
    <3>4. Books!Drop(r)
      BY <3>2, <3>3 DEF Books!Drop
    <3> QED
      BY <3>4
  <2> QED
    BY <2>2, <2>3
<1>6. CASE SettleUndo
  <2> PICK r \in Accepts, w \in Users :
          /\ w \in {Creator(r), AcceptorOf[r]}
          /\ r = settle.room /\ w = settle.winner /\ Creator(r) # AcceptorOf[r]
          /\ jobs[r] = "active"
    BY <1>6, WorkerIs DEF SettleUndo, Settling
  <2> PICK n \in 1..4 : n = settle.calls
    BY <1>0, <1>6 DEF SettleUndo, Settling, WorkerOK
  <2>1. /\ UNCHANGED <<rooms, jobs>> /\ Over("over") /\ wallet' = RolledBack(Calls(r, w), n)
        /\ settle.pc \notin {"over", "broken"}
    BY <1>6 DEF SettleUndo, Settling
  <2>2. /\ r \in ToSettle /\ ToSettle' = ToSettle \ {r} /\ UNCHANGED <<CutOnce, HalfMade>>
        /\ settle'.calls = 0
    BY <1>s, <2>1, NoLongerDue
  <2>3. SettledAccounts' = wallet' /\ SettledAccounts = Without(wallet, w, LoserOf(r, w), n)
    BY <2>2, SettledIs
  <2>4. UNCHANGED SettledAccounts
    BY <2>1, <2>3, UndoneIs
  <2>5. UNCHANGED Winners
    BY <2>1 DEF Winners
  <2>6. Books!Drop(r)
    BY <2>2, <2>4, <2>5 DEF Books!Drop
  <2> QED
    BY <2>6
<1>7. CASE SettleUndoFails
  <2> PICK r \in Accepts, w \in Users :
          /\ w \in {Creator(r), AcceptorOf[r]}
          /\ r = settle.room /\ w = settle.winner /\ Creator(r) # AcceptorOf[r]
          /\ jobs[r] = "active"
    BY <1>7, WorkerIs DEF SettleUndoFails, Settling
  <2>1. /\ UNCHANGED <<wallet, rooms, jobs>> /\ Over("broken")
        /\ settle.pc \notin {"over", "broken"}
    BY <1>7 DEF SettleUndoFails, Settling
  <2>2. /\ r \in ToSettle /\ ToSettle' = ToSettle \ {r} /\ UNCHANGED CutOnce
        /\ HalfMade' = HalfMade \cup {r} /\ settle'.calls = 0
    BY <1>s, <2>1, NoLongerDue
  <2>3. Books!PartPaid(r)
    BY <2>1, <2>2, PartPaidBy
  <2>4. UNCHANGED Winners
    BY <2>1 DEF Winners
  <2>5. Books!Fail(r)
    BY <2>2, <2>3, <2>4 DEF Books!Fail
  <2> QED
    BY <2>5
<1>8. CASE SettleEnds
  BY <1>8, EndsBooks
<1> QED
  BY <1>1, <1>2, <1>3, <1>4, <1>5, <1>6, <1>7, <1>8 DEF SettleStep

(* A crash leaves the wallet's accounts: what stood of a settlement is no   *)
(* longer undone, and its room is due again, or given up the second time.   *)
LEMMA CrashBooks ==
    ASSUME TypeOK, WorkerOK, JobsOnce, Crash
    PROVE  (\E r \in Accepts : Books!Cut(r)) \/ UNCHANGED Books!ledgerVars
<1>0. jobs \in [Accepts -> {"none", "waiting", "active", "completed", "failed"}]
      /\ settle \in SettleRun
  BY DEF TypeOK
<1>1. /\ UNCHANGED <<rooms, wallet>> /\ settle'.pc = "idle" /\ settle'.calls = 0
      /\ \A a \in Accepts : jobs'[a] = JobAfterCrash(a)
      /\ stalled' = stalled \cup Interrupted
  BY AtRestIs DEF Crash
<1>a. UNCHANGED Winners /\ Ended' = {} /\ HalfMade' = {a \in Accepts : jobs'[a] = "failed"}
  BY <1>1 DEF Winners, Ended, HalfMade
<1>b. \A a \in Accepts : <<a, "settle">> \in Interrupted <=> jobs[a] = "active"
  BY DEF Interrupted
<1>c. \A a \in Accepts : jobs[a] # "active" => jobs'[a] = jobs[a]
  BY <1>1 DEF JobAfterCrash
<1>2. CASE settle.pc = "idle"
  <2>1. \A a \in Accepts : jobs'[a] = jobs[a] /\ <<a, "settle">> \notin Interrupted
    BY <1>b, <1>c, <1>2 DEF WorkerOK
  <2>2. UNCHANGED CutOnce
    BY <1>1, <2>1 DEF CutOnce
  <2>3. UNCHANGED SettledAccounts
    <3>1. settle.calls = 0
      BY <1>2, AtRestIs DEF WorkerOK
    <3> QED
      BY <1>1, <3>1, AccountsStay
  <2>4. Ended = {} /\ HalfMade = {a \in Accepts : jobs[a] = "failed"}
    BY <1>2 DEF Ended, HalfMade
  <2>5. UNCHANGED ToSettle
    BY <1>a, <2>1, <2>4 DEF ToSettle
  <2>6. UNCHANGED HalfMade
    BY <1>a, <2>1, <2>4
  <2> QED
    BY <1>a, <2>2, <2>3, <2>5, <2>6 DEF Books!ledgerVars
<1>3. CASE settle.pc # "idle"
  <2> PICK r \in Accepts : /\ r = settle.room /\ jobs[r] = "active"
                          /\ \A b \in Accepts : b # r => jobs[b] # "active"
    BY <1>3, RoomOfWorker
  <2>1. CutOnce' = CutOnce \cup {r}
    BY <1>1, <1>b DEF CutOnce
  <2>2. \A a \in Accepts : a # r => jobs'[a] = jobs[a]
    BY <1>c
  <2>3. Ended \subseteq {r} /\ HalfMade \ {r} = {a \in Accepts : jobs[a] = "failed"}
    BY DEF Ended, HalfMade
  <2>4. r \in ToSettle <=> settle.pc \notin {"over", "broken"}
    BY DEF ToSettle, Ended
  <2>5. ASSUME r \in CutOnce
        PROVE  ToSettle' = ToSettle \ {r} /\ HalfMade' = HalfMade \cup {r}
    <3>1. jobs'[r] = "failed"
      BY <1>1, <2>5 DEF JobAfterCrash, CutOnce
    <3>2. ToSettle' = ToSettle \ {r}
      BY <1>a, <2>2, <2>3, <3>1 DEF ToSettle
    <3>3. HalfMade' = HalfMade \cup {r}
      BY <1>a, <2>2, <2>3, <3>1
    <3> QED
      BY <3>2, <3>3
  <2>6. ASSUME r \notin CutOnce
        PROVE  ToSettle' = ToSettle \cup {r} /\ HalfMade' = HalfMade \ {r}
    <3>1. jobs'[r] = "waiting"
      BY <1>1, <2>6 DEF JobAfterCrash, CutOnce
    <3>2. ToSettle' = ToSettle \cup {r}
      BY <1>a, <2>2, <2>3, <3>1 DEF ToSettle
    <3>3. HalfMade' = HalfMade \ {r}
      BY <1>a, <2>2, <2>3, <3>1
    <3> QED
      BY <3>2, <3>3
  <2>7. r \in ToSettle => Books!PartPaid(r)
    <3> SUFFICES ASSUME settle.pc \notin {"over", "broken"} PROVE Books!PartPaid(r)
      BY <2>4
    <3>1. Creator(r) # AcceptorOf[r]
      BY DEF JobsOnce, JobOnce
    <3>2. CASE settle.pc = "price"
      <4>1. settle.calls = 0
        BY <3>2 DEF WorkerOK
      <4> QED
        BY <1>1, <3>1, <4>1, NonePaid
    <3>3. CASE settle.pc \in {"call", "record", "undo"}
      <4> PICK w \in Users : w \in {Creator(r), AcceptorOf[r]} /\ w = settle.winner
        BY <3>3, WorkerIs
      <4> QED
        BY <1>1, <3>1, PartPaidBy
    <3> QED
      BY <1>0, <1>3, <3>2, <3>3 DEF SettleRun
  <2>8. r \notin ToSettle => UNCHANGED SettledAccounts
    <3>1. r \notin ToSettle => settle.calls = 0
      BY <2>4 DEF WorkerOK
    <3> QED
      BY <1>1, <3>1, AccountsStay
  <2>9. Books!Cut(r)
    BY <1>a, <2>1, <2>5, <2>6, <2>7, <2>8 DEF Books!Cut
  <2> QED
    BY <2>9
<1> QED
  BY <1>2, <1>3

LEMMA BooksStep ==
    ASSUME IInv, [Next]_vars
    PROVE  [Books!LedgerNext]_(Books!ledgerVars)
<1> USE RequestsAssumption DEF IInv
<1>m. ASSUME NEW u \in Users, Books!Margin(u) PROVE [Books!LedgerNext]_(Books!ledgerVars)
  BY <1>m DEF Books!Margin, Books!LedgerNext, Books!ledgerVars
<1>u. \A c \in Challenges, a \in Accepts : CreatorOf[c] \in Users /\ AcceptorOf[a] \in Users
  OBVIOUS
<1>1. ASSUME NEW c \in Challenges, CreateStep(c) \/ CancelStep(c) \/ GrowsStale(c)
      PROVE  [Books!LedgerNext]_(Books!ledgerVars)
  BY <1>1, <1>m, <1>u, ChallengeBooks
<1>2. ASSUME NEW a \in Accepts, ChatTap(a) \/ AcceptStart(a) \/ AcceptStep(a)
      PROVE  [Books!LedgerNext]_(Books!ledgerVars)
  BY <1>2, <1>m, <1>u, AcceptBooks
<1>3. ASSUME (\E a \in Accepts : SettleStart(a)) \/ SettleStep
      PROVE  [Books!LedgerNext]_(Books!ledgerVars)
  BY <1>3, SettleBooks DEF Books!LedgerNext
<1>4. ASSUME Crash PROVE [Books!LedgerNext]_(Books!ledgerVars)
  BY <1>4, CrashBooks DEF Books!LedgerNext
<1>5. ASSUME UNCHANGED vars PROVE UNCHANGED Books!ledgerVars
  <2>1. UNCHANGED <<settle, wallet, rooms, jobs, stalled>>
    BY <1>5 DEF vars
  <2>2. UNCHANGED SettledAccounts
    BY <2>1, AccountsStay
  <2>3. UNCHANGED <<Winners, ToSettle, CutOnce, HalfMade>>
    BY <2>1, BooksStay
  <2> QED
    BY <2>2, <2>3 DEF Books!ledgerVars
<1> QED
  BY <1>1, <1>2, <1>3, <1>4, <1>5 DEF Next

LEMMA BooksStart == Init => Books!LedgerInit
<1> SUFFICES ASSUME Init PROVE Books!LedgerInit
  OBVIOUS
<1>1. SettledAccounts = [u \in Users |-> [balance |-> InitBalance, locked |-> 0]]
  BY AtRestIs, SettledIs DEF Init
<1>2. Winners = [a \in Accepts |-> NoOne]
  BY DEF Init, Winners, NoRoom
<1>3. ToSettle = Accepts /\ CutOnce = {} /\ HalfMade = {}
  BY AtRestIs DEF Init, ToSettle, Ended, CutOnce, HalfMade
<1> QED
  BY <1>1, <1>2, <1>3 DEF Books!LedgerInit

(* playPvP settles a room at once, or not at all, whatever its players      *)
(* stake and get back between its four calls: the game's behaviours are     *)
(* those of RoomLedger.  Half of it stays only where a rollback fails or a  *)
(* crash comes, and a room is settled again only once, after a crash before *)
(* BullMQ has marked its job.                                               *)
THEOREM SettlementIsAtomic == Spec => SettlementsAtomic
<1>1. Init => Books!LedgerInit
  BY BooksStart
<1>2. IInv /\ [Next]_vars => [Books!LedgerNext]_(Books!ledgerVars)
  BY BooksStep
<1> QED
  BY <1>1, <1>2, Invariant, PTL DEF Spec, SettlementsAtomic, Books!LedgerSpec

(* What the books leave the players together, once Won is settled. *)
InTheBooks == [u \in Users |-> SettledAccounts[u].balance]
Won == {a \in Accepts : Winners[a] # NoOne}
NoneHalfMade == CutOnce = {} /\ HalfMade = {}
TaxPaid ==
    /\ SettledAccounts \in [Users -> Account]
    /\ IsFiniteSet(Won)
    /\ NoneHalfMade =>
          SumFunction(InTheBooks) = Cardinality(Users) * InitBalance - Cardinality(Won)

(* The sum after one player is given c and another loses d. *)
LEMMA TwoPayments ==
    ASSUME NEW f \in [Users -> Int], NEW w \in Users, NEW l \in Users, w # l,
           NEW c \in Int, NEW d \in Int
    PROVE  SumFunction([u \in Users |-> f[u] + (IF u = w THEN c ELSE 0) - (IF u = l THEN d ELSE 0)])
              = SumFunction(f) + c - d
<1>0. PICK e \in Int : e = 0 - d
  OBVIOUS
<1> DEFINE g == [f EXCEPT ![w] = @ + c]
           h == [g EXCEPT ![l] = @ + e]
<1>1. g \in [Users -> Int]
  OBVIOUS
<1>2. SumFunction(g) = SumFunction(f) + c
  BY SumFollows, UsersAssumption, ZenonT(60)
<1>3. SumFunction(h) = SumFunction(g) + e
  <2> HIDE DEF g
  <2> QED
    BY <1>1, SumFollows, UsersAssumption, ZenonT(60)
<1>4. h = [u \in Users |-> f[u] + (IF u = w THEN c ELSE 0) - (IF u = l THEN d ELSE 0)]
  <2>1. \A u \in Users : h[u] = f[u] + (IF u = w THEN c ELSE 0) - (IF u = l THEN d ELSE 0)
    BY <1>0
  <2>2. h = [u \in Users |-> h[u]]
    OBVIOUS
  <2> QED
    BY <2>1, <2>2
<1>5. SumFunction(f) \in Int
  BY SumTyped, UsersAssumption
<1> HIDE DEF g, h
<1> QED
  BY <1>0, <1>2, <1>3, <1>4, <1>5

(* A room that is due, and was not cut, has no winner. *)
LEMMA DueHasNoWinner ==
    ASSUME IInv, CutOnce = {}
    PROVE  \A a \in ToSettle : Winners[a] = NoOne
BY DEF IInv, JobsOnce, JobOnce, OverIn, ToSettle, Ended, CutOnce, Winners

(* A room that is settled costs the players together one tax. *)
LEMMA SettleTakesTax ==
    ASSUME NEW a \in Accepts, Books!Settle(a), TaxPaid, SettledAccounts' \in [Users -> Account],
           CutOnce = {} => \A b \in ToSettle : Winners[b] = NoOne
    PROVE  TaxPaid'
<1>1. PICK w \in PlayersOf(a), l \in PlayersOf(a) :
          /\ w # l
          /\ Winners' = [Winners EXCEPT ![a] = w]
          /\ SettledAccounts' = Books!Paid(w, l, 4)
  BY DEF Books!Settle
<1>2. (NoneHalfMade => Winners[a] = NoOne) /\ NoneHalfMade' = NoneHalfMade
  BY DEF Books!Settle, NoneHalfMade
<1>3. w \in Users /\ l \in Users /\ w # NoOne
  BY RequestsAssumption DEF PlayersOf, Creator
<1>4. Won' = Won \cup {a} /\ (NoneHalfMade => a \notin Won)
  BY <1>1, <1>2, <1>3 DEF Won, Winners
<1>5. /\ IsFiniteSet(Won') /\ Cardinality(Won) \in Nat
      /\ NoneHalfMade => Cardinality(Won') = Cardinality(Won) + 1
  BY <1>4, FS_AddElement, FS_CardinalityType DEF TaxPaid
<1>6. InTheBooks \in [Users -> Int]
  BY DEF InTheBooks, TaxPaid, Account
<1>7. InTheBooks' = [u \in Users |-> InTheBooks[u] + (IF u = w THEN 9 ELSE 0)
                                                    - (IF u = l THEN 10 ELSE 0)]
  <2>1. \A u \in Users : SettledAccounts'[u].balance
            = SettledAccounts[u].balance + (IF u = w THEN 9 ELSE 0) - (IF u = l THEN 10 ELSE 0)
    <3>1. amount = 10 /\ amount - tax = 9
      BY DEF tax, totalAmount, amount
    <3>2. \A u \in Users : SettledAccounts'[u].balance
              = SettledAccounts[u].balance + (IF u = w /\ 4 >= 2 THEN amount - tax ELSE 0)
                                           - (IF u = l /\ 4 >= 3 THEN amount ELSE 0)
      BY <1>1, Zenon DEF Books!Paid
    <3> QED
      BY <3>1, <3>2
  <2> QED
    BY <2>1 DEF InTheBooks
<1>8. SumFunction(InTheBooks') = SumFunction(InTheBooks) + 9 - 10
  <2> DEFINE f == InTheBooks
  <2>1. f \in [Users -> Int]
    BY <1>6
  <2>2. InTheBooks' = [u \in Users |-> f[u] + (IF u = w THEN 9 ELSE 0) - (IF u = l THEN 10 ELSE 0)]
    BY <1>7
  <2> HIDE DEF f
  <2>3. SumFunction([u \in Users |-> f[u] + (IF u = w THEN 9 ELSE 0) - (IF u = l THEN 10 ELSE 0)])
            = SumFunction(f) + 9 - 10
    <3>1. 9 \in Int /\ 10 \in Int
      OBVIOUS
    <3> QED
      BY <1>1, <1>3, <2>1, <3>1, TwoPayments, Zenon
  <2> QED
    BY <2>2, <2>3 DEF f
<1>9. SumFunction(InTheBooks) \in Int
  BY <1>6, SumTyped, UsersAssumption
<1>10. Cardinality(Users) * InitBalance \in Int
  BY FS_CardinalityType, UsersAssumption, LimitsAssumption
<1> DEFINE k == Cardinality(Users) * InitBalance
           s == SumFunction(InTheBooks)
           s1 == SumFunction(InTheBooks')
<1>11. NoneHalfMade => s = k - Cardinality(Won)
  BY DEF TaxPaid
<1>12. NoneHalfMade' = NoneHalfMade
  BY <1>2
<1>13. NoneHalfMade' => s1 = k - Cardinality(Won')
  <2>1. s1 = s + 9 - 10 /\ s \in Int /\ k \in Int
    BY <1>8, <1>9, <1>10
  <2> HIDE DEF s, s1, k
  <2> QED
    BY <2>1, <1>5, <1>11, <1>12
<1> QED
  BY <1>5, <1>13 DEF TaxPaid

LEMMA TaxStep ==
    ASSUME [Books!LedgerNext]_(Books!ledgerVars), TaxPaid, SettledAccounts' \in [Users -> Account],
           CutOnce = {} => \A b \in ToSettle : Winners[b] = NoOne
    PROVE  TaxPaid'
<1>1. ASSUME NEW u \in Users, Books!Margin(u) PROVE TaxPaid'
  <2>1. InTheBooks' = InTheBooks
    <3>1. PICK d \in {amount, -amount} : SettledAccounts' = [SettledAccounts EXCEPT ![u].locked = @ + d]
      BY <1>1 DEF Books!Margin
    <3>2. \A v \in Users : SettledAccounts'[v].balance = SettledAccounts[v].balance
      BY <3>1 DEF TaxPaid, Account
    <3> QED
      BY <3>2 DEF InTheBooks
  <2>2. Won' = Won /\ NoneHalfMade' = NoneHalfMade
    BY <1>1 DEF Books!Margin, Won, NoneHalfMade
  <2> QED
    BY <2>1, <2>2 DEF TaxPaid
<1>2. ASSUME NEW a \in Accepts, Books!Settle(a) PROVE TaxPaid'
  BY <1>2, SettleTakesTax
<1>3. ASSUME NEW a \in Accepts, Books!Fail(a) \/ Books!Cut(a) PROVE TaxPaid'
  <2>1. UNCHANGED Winners /\ (a \in HalfMade' \/ a \in CutOnce')
    BY <1>3 DEF Books!Fail, Books!Cut
  <2>2. Won' = Won /\ ~NoneHalfMade'
    BY <2>1 DEF Won, NoneHalfMade
  <2> QED
    BY <2>2 DEF TaxPaid
<1>5. ASSUME NEW a \in Accepts, Books!Drop(a) PROVE TaxPaid'
  <2>1. Won' = Won /\ NoneHalfMade' = NoneHalfMade /\ InTheBooks' = InTheBooks
    BY <1>5 DEF Books!Drop, Won, NoneHalfMade, InTheBooks
  <2> QED
    BY <2>1 DEF TaxPaid
<1>4. ASSUME UNCHANGED Books!ledgerVars PROVE TaxPaid'
  <2>1. Won' = Won /\ NoneHalfMade' = NoneHalfMade /\ InTheBooks' = InTheBooks
    BY <1>4 DEF Books!ledgerVars, Won, NoneHalfMade, InTheBooks
  <2> QED
    BY <2>1 DEF TaxPaid
<1> QED
  BY <1>1, <1>2, <1>3, <1>4, <1>5 DEF Books!LedgerNext

LEMMA TaxStart == ASSUME Init, SettledAccounts \in [Users -> Account] PROVE TaxPaid
<1>1. Books!LedgerInit
  BY BooksStart
<1>2. Won = {}
  BY <1>1 DEF Books!LedgerInit, Won
<1>3. InTheBooks = [u \in Users |-> InitBalance]
  BY <1>1 DEF Books!LedgerInit, InTheBooks
<1>4. SumFunction(InTheBooks) = Cardinality(Users) * InitBalance
  BY <1>3, SumOfConstant, UsersAssumption, LimitsAssumption
<1>5. Cardinality(Users) * InitBalance \in Int
  BY FS_CardinalityType, UsersAssumption, LimitsAssumption
<1>6. IsFiniteSet(Won) /\ Cardinality(Won) = 0
  BY <1>2, FS_EmptySet
<1> DEFINE k == Cardinality(Users) * InitBalance
<1> HIDE DEF k
<1>7. SumFunction(InTheBooks) = k - Cardinality(Won)
  BY <1>4, <1>5, <1>6 DEF k
<1> QED
  BY <1>6, <1>7 DEF TaxPaid, k

(* Nobody's money comes or goes but for the tax: once no settlement is      *)
(* under way and none was cut or failed to roll back, the players together  *)
(* have what they began with, less the tax of each room with a winner.      *)
THEOREM OnlyTaxLeaves == Spec => []TaxIsAllThatLeaves
<1>1. IInv => SettledAccounts \in [Users -> Account]
  BY SettledTyped DEF IInv
<1> DEFINE Typed == SettledAccounts \in [Users -> Account]
<1>2. Init /\ Typed => TaxPaid
  BY TaxStart
<1>3. IInv /\ [Next]_vars /\ Typed' /\ TaxPaid => TaxPaid'
  BY BooksStep, DueHasNoWinner, TaxStep
<1>4. IInv /\ TaxPaid => TaxIsAllThatLeaves
  <2> SUFFICES ASSUME IInv, TaxPaid, SettlementsClean
               PROVE  SumFunction([u \in Users |-> wallet[u].balance])
                         = Cardinality(Users) * InitBalance
                             - tax * Cardinality({a \in Accepts : rooms[a].winner # NoOne})
    BY DEF TaxIsAllThatLeaves
  <2>1. NoneHalfMade
    BY AtRestIs DEF SettlementsClean, NoneHalfMade, CutOnce, HalfMade
  <2>2. SettledAccounts = wallet
    BY SettledIs, AtRestIs DEF SettlementsClean
  <2>3. InTheBooks = [u \in Users |-> wallet[u].balance]
    BY <2>2 DEF InTheBooks
  <2>4. Won = {a \in Accepts : rooms[a].winner # NoOne}
    BY DEF Won, Winners
  <2>5. Cardinality(Won) \in Nat /\ tax = 1
    BY FS_CardinalityType DEF TaxPaid, tax, totalAmount, amount
  <2>6. SumFunction(InTheBooks) = Cardinality(Users) * InitBalance - Cardinality(Won)
    BY <2>1 DEF TaxPaid
  <2>7. tax * Cardinality(Won) = Cardinality(Won)
    BY <2>5
  <2> QED
    BY <2>3, <2>4, <2>6, <2>7
<1> HIDE DEF Typed
<1> QED
  BY <1>1, <1>2, <1>3, <1>4, Invariant, PTL DEF Spec, Typed
=============================================================================

----------------------------- MODULE BotsProofs -----------------------------
(***************************************************************************)
(* What holds of any number of players, matches against the bot and tips,  *)
(* over any prices, failed calls and crashes.                              *)
(*                                                                         *)
(* A match has one job, and a match that was announced is settled again    *)
(* only after a crash, once: so the invariant ties where a command is to   *)
(* whether its room is saved and its job exists, and what was announced to *)
(* where the job is (MatchInv), what the worker holds to the price it read *)
(* (PriceRead), and what a tip's answers say to where the tip is (TipInv). *)
(* The accounts are counted from the rooms, the tips that moved and what   *)
(* the worker has paid that no room tells of yet (BooksInv).               *)
(***************************************************************************)
EXTENDS Bots, TLAPS, WellFoundedInduction, FiniteSetTheorems

(* The worker's variables are those of a match that is being settled. *)
WorkerOK ==
    /\ worker.pc = "idle" => worker.match = NoOne
    /\ worker.pc # "idle" => worker.match \in Blesses
    /\ worker.pc = "price" => worker.calls = 0
    /\ worker.pc = "call" => worker.calls < 2

MatchInv ==
    /\ \A m \in Blesses : m \in Saved => bless[m] \in {"announce", "enqueue", "done", "failed"}
    /\ \A m \in Blesses : jobs[m] # "none" => m \in Saved /\ bless[m] = "done"
    /\ \A m \in Blesses : bless[m] \in {"announce", "enqueue", "done"} => m \in Saved
    /\ \A m \in Blesses : told[m] # NotTold =>
          /\ jobs[m] # "none"
          /\ jobs[m] \in {"waiting", "active"} =>
                m \in stalled \/ (worker.match = m /\ worker.pc = "end")
    /\ worker.pc # "idle" => jobs[worker.match] = "active"

(* From its price on the worker knows the winner. *)
Decided == worker.pc \in {"call", "record", "tell", "undo"}
PriceRead ==
    Decided => \E p \in Prices :
        worker.winner = WinnerOf(worker.match, p) /\ worker.closePrice = Rounded(p)

(* What the worker is about to announce is in the room. *)
RoomIsWorkers ==
    worker.pc = "tell" /\ Alone(worker.match) =>
        /\ result[worker.match].winner = worker.winner
        /\ result[worker.match].closePrice = worker.closePrice

Unsent == {"idle", "find", "check", "transfer"}
TipInv ==
    \A t \in Tips :
        /\ tip[t] \in Unsent =>
              t \notin moved \cup declined \cup tipHistories
              /\ answers[t] \cap {"tipped", "received", "failed"} = {}
        /\ tip[t] = "record" =>
              t \in moved \ (declined \cup tipHistories)
              /\ answers[t] \cap {"tipped", "received", "failed"} = {}
        /\ tip[t] = "notify" =>
              Private(t) /\ "tipped" \in answers[t] /\ "failed" \notin answers[t]

IInv ==
    /\ TypeOK /\ WorkerOK
    /\ MatchInv /\ PriceRead /\ AnnouncedAsSettled
    /\ RoomIsWorkers /\ RoomSaysWhatWasTold
    /\ TipInv /\ TipAnswersAreTrue

-----------------------------------------------------------------------------
(* Values keep their types, over every interleaving of matches and tips:   *)
(* the accounts stay integers, and the worker makes two calls at most.     *)
LEMMA TypeInit == Init => TypeOK /\ WorkerOK
<1> USE BotStateAssumption, BlessesAssumption, TipsAssumption
<1>1. Init => StateTypeOK
  BY DEF Init, StateInit, StateTypeOK, Account
<1>2. Init => MatchTypeOK
  BY DEF Init, MatchInit, MatchTypeOK, NoResult, NotTold, AtRest, Winners, ClosePrices
<1>3. Init => TipTypeOK
  BY DEF Init, TipInit, TipTypeOK, Message
<1>4. Init => WorkerOK
  BY DEF Init, MatchInit, WorkerOK, AtRest
<1> QED
  BY <1>1, <1>2, <1>3, <1>4 DEF TypeOK

(* A call of the wallet service leaves an account of integers. *)
LEMMA CallsKeepAccounts ==
    ASSUME NEW a \in Account, NEW delta \in Int
    PROVE  /\ ChangeLocked(a, delta) \in Account
           /\ ChangeBalance(a, delta) \in Account
BY DEF Account, ChangeLocked, ChangeBalance

LEMMA ChangedIsAccount ==
    ASSUME NEW a \in Account, NEW n \in 1..2
    PROVE  Changed(a, n) \in Account
BY CallsKeepAccounts DEF Changed, amount, totalPrize

LEMMA AtRestIsTyped ==
    /\ AtRest \in [pc : {"idle"}, match : {NoOne}, winner : {NoOne}, closePrice : {0}, calls : {0}]
    /\ 0 \in ClosePrices
BY DEF AtRest, ClosePrices

LEMMA MatchTypeStep ==
    ASSUME TypeOK, WorkerOK,
           (\E m \in Blesses : BlessStart(m) \/ BlessStep(m)) \/ Work
    PROVE  StateTypeOK' /\ MatchTypeOK' /\ WorkerOK'
<1> DEFINE Goal == StateTypeOK' /\ MatchTypeOK' /\ WorkerOK'
<1> USE BotStateAssumption, BlessesAssumption
    DEF TypeOK, StateTypeOK, MatchTypeOK, WorkerOK, Winners
<1>1. ASSUME NEW m \in Blesses, BlessStart(m) PROVE Goal
  BY <1>1 DEF BlessStart, BlessTo, afterBless
<1>2. ASSUME NEW m \in Blesses, BlessBalance(m) PROVE Goal
  BY <1>2 DEF BlessBalance, BlessTo, afterBless
<1>3. ASSUME NEW m \in Blesses, BlessOpen(m) PROVE Goal
  BY <1>3 DEF BlessOpen, BlessTo, afterBless
<1>4. ASSUME NEW m \in Blesses, BlessLock(m) PROVE Goal
  <2>1. wallet' \in [Users -> Account]
    BY <1>4, CallsKeepAccounts DEF BlessLock, amount
  <2> QED
    BY <1>4, <2>1 DEF BlessLock, BlessTo, afterBless
<1>5. ASSUME NEW m \in Blesses, BlessSave(m) PROVE Goal
  BY <1>5 DEF BlessSave, BlessTo, afterBless
<1>6. ASSUME NEW m \in Blesses, BlessAnnounce(m) PROVE Goal
  BY <1>6 DEF BlessAnnounce, BlessTo, afterBless
<1>7. ASSUME NEW m \in Blesses, BlessEnqueue(m) PROVE Goal
  BY <1>7 DEF BlessEnqueue, BlessTo
<1>8. ASSUME NEW m \in Blesses, BlessFails(m) PROVE Goal
  BY <1>8 DEF BlessFails, BlessTo, Dropped, Refused, Fault, afterBless
<1>9. ASSUME NEW m \in Blesses, WorkStart(m) PROVE Goal
  <2>1. worker' = [pc |-> "price", match |-> m, winner |-> NoOne, closePrice |-> 0, calls |-> 0]
    BY <1>9 DEF WorkStart, Dispatch, AtRest
  <2> QED
    BY <1>9, <2>1, AtRestIsTyped DEF WorkStart, Dispatch, beforeJob
<1>10. CASE WorkPrice
  <2>1. PICK p \in Prices :
          LET r == determinePvPResult(worker.match, p) IN
          worker' = [worker EXCEPT !.winner = r.winner, !.closePrice = r.closePrice,
                                   !.pc = IF r.winner = Bot THEN "record" ELSE "call"]
    BY <1>10 DEF WorkPrice
  <2>2. Rounded(p) \in ClosePrices
    BY <2>1 DEF Rounded, ClosePrices
  <2>3. WinnerOf(worker.match, p) \in Users \cup {Bot}
    BY <1>10 DEF WinnerOf, WorkPrice, Working
  <2>4. worker' \in [pc : {"record", "call"}, match : {worker.match}, winner : Users \cup {Bot},
                     closePrice : ClosePrices, calls : {worker.calls}]
    BY <2>1, <2>2, <2>3 DEF determinePvPResult
  <2> QED
    BY <1>10, <2>4 DEF WorkPrice, Working, beforeJob
<1>11. CASE WorkCall
  <2>1. worker.calls + 1 \in 1..2
    BY <1>11 DEF WorkCall, Working
  <2>2. wallet' \in [Users -> Account]
    BY <1>11, <2>1, ChangedIsAccount DEF WorkCall
  <2>3. worker' \in [pc : {"record", "call"}, match : {worker.match}, winner : Winners,
                     closePrice : ClosePrices, calls : 1..2]
    BY <1>11, <2>1 DEF WorkCall
  <2>4. worker'.pc = "call" => worker'.calls < 2
    BY <1>11, <2>1 DEF WorkCall
  <2> QED
    BY <1>11, <2>2, <2>3, <2>4 DEF WorkCall, Working, beforeJob
<1>12. CASE WorkRecord
  BY <1>12 DEF WorkRecord, Working, WorkTo, beforeJob
<1>13. CASE WorkTell
  <2>1. told' \in [Blesses -> [result : {"none", "Pump", "Dump"}, winner : Winners,
                               closePrice : ClosePrices]]
    BY <1>13 DEF WorkTell
  <2> QED
    BY <1>13, <2>1 DEF WorkTell, Working, WorkTo, beforeJob
<1>14. CASE WorkFails
  <2>1. faults' \in 0..MaxFaults
    BY <1>14 DEF WorkFails, Refused, Fault
  <2>2. PICK pc \in {"undo", "end", "failing"} : worker' = [worker EXCEPT !.pc = pc]
    BY <1>14 DEF WorkFails, Catch, WorkTo
  <2>3. worker.pc # "idle"
    BY <1>14 DEF WorkFails, Working
  <2> QED
    BY <1>14, <2>1, <2>2, <2>3 DEF WorkFails, beforeJob
<1>15. CASE WorkUndo
  <2>1. wallet' \in [Users -> Account]
    <3>1. totalPrize - amount = 9 /\ amount = 10
      BY DEF totalPrize, amount
    <3>2. \A u \in Users : wallet[u].balance \in Int /\ wallet[u].locked \in Int
      BY DEF Account
    <3> DEFINE a == wallet[worker.winner]
               undone == [balance |-> IF worker.calls = 2 THEN a.balance - (totalPrize - amount)
                                                          ELSE a.balance,
                          locked |-> a.locked + amount]
    <3>3. wallet' = [wallet EXCEPT ![worker.winner] = undone]
      BY <1>15 DEF WorkUndo
    <3>4. worker.winner \in Users => undone \in Account
      BY <3>1, <3>2 DEF Account
    <3> HIDE DEF undone
    <3> QED
      BY <3>3, <3>4
  <2>2. worker' \in [pc : {"end"}, match : {worker.match}, winner : {worker.winner},
                     closePrice : {worker.closePrice}, calls : {0}]
    BY <1>15 DEF WorkUndo
  <2>3. worker.pc = "undo" /\ worker.match \in Blesses
    BY <1>15 DEF WorkUndo, Working
  <2> QED
    BY <1>15, <2>1, <2>2, <2>3 DEF WorkUndo, beforeJob
<1>16. CASE WorkUndoFails
  <2>1. worker' = [worker EXCEPT !.pc = "failing"] /\ worker.match \in Blesses
    BY <1>16 DEF WorkUndoFails, Working, WorkTo
  <2>2. faults' \in 0..MaxFaults /\ upset' \subseteq Blesses
    BY <1>16, <2>1 DEF WorkUndoFails, Fault
  <2> QED
    BY <1>16, <2>1, <2>2 DEF WorkUndoFails, beforeJob
<1>17. CASE WorkEnds
  <2>1. jobs' \in [Blesses -> {"none", "waiting", "active", "completed", "failed"}]
    BY <1>17 DEF WorkEnds
  <2>2. worker' \in [pc : {"idle"}, match : {NoOne}, winner : {NoOne}, closePrice : {0},
                     calls : {0}]
    BY <1>17, AtRestIsTyped DEF WorkEnds
  <2> QED
    BY <1>17, <2>1, <2>2, AtRestIsTyped DEF WorkEnds, beforeJob
<1> QED
  BY <1>1, <1>2, <1>3, <1>4, <1>5, <1>6, <1>7, <1>8, <1>9, <1>10, <1>11, <1>12, <1>13, <1>14,
     <1>15, <1>16, <1>17 DEF BlessStep, Work, WorkStep

LEMMA TipTypeStep ==
    ASSUME TypeOK, NEW t \in Tips, TipStep(t)
    PROVE  StateTypeOK' /\ TipTypeOK'
<1> USE BotStateAssumption, TipsAssumption DEF TypeOK, StateTypeOK, TipTypeOK, Account
<1> DEFINE Goal == StateTypeOK' /\ TipTypeOK'
<1>1. CASE TipStart(t)
  BY <1>1 DEF TipStart, TipTo, ledgers
<1>2. CASE TipFind(t)
  BY <1>2 DEF TipFind, TipTo, Answer, TipAnswers, Fault, ledgers
<1>3. CASE TipCheck(t)
  BY <1>3 DEF TipCheck, TipTo, Answer, TipAnswers, Fault, ledgers
<1>4. CASE TipTransfer(t)
  <2>1. Transferred(wallet, SenderOf[t], message[t].to, tipAmount) \in [Users -> Account]
    BY DEF Transferred, ChangeBalance, tipAmount
  <2>2. StateTypeOK'
    BY <1>4, <2>1 DEF TipTransfer
  <2>3. TipTypeOK'
    BY <1>4 DEF TipTransfer, AfterTransfer, Tipped, TipTo, Answer, TipAnswers
  <2> QED
    BY <2>2, <2>3
<1>5. CASE TipRecord(t)
  BY <1>5 DEF TipRecord, Tipped, TipTo, Answer, TipAnswers
<1>6. CASE TipFails(t)
  BY <1>6 DEF TipFails, TipTo, Answer, TipAnswers, Refused, Fault, ledgers
<1>7. CASE TipNotify(t)
  BY <1>7 DEF TipNotify, TipTo, Answer, TipAnswers, Fault, ledgers
<1> QED
  BY <1>1, <1>2, <1>3, <1>4, <1>5, <1>6, <1>7 DEF TipStep

LEMMA CrashType ==
    ASSUME TypeOK, WorkerOK, Crash
    PROVE  TypeOK' /\ WorkerOK'
<1> USE BotStateAssumption DEF TypeOK, Crash
<1>1. StateTypeOK'
  BY DEF StateTypeOK
<1>2. MatchTypeOK' /\ WorkerOK'
  <2>1. bless' \in [Blesses -> {"idle", "balance", "open", "lock", "save", "announce",
                                "enqueue", "done", "refused", "failed", "unsaved"}]
    BY DEF MatchTypeOK, MatchCrash, Dropped
  <2>2. worker' \in [pc : {"idle"}, match : {NoOne}, winner : {NoOne}, closePrice : {0},
                     calls : {0}]
    BY AtRestIsTyped DEF MatchCrash
  <2>3. /\ jobs' \in [Blesses -> {"none", "waiting", "active", "completed", "failed"}]
        /\ stalled' \subseteq Blesses /\ upset' \subseteq Blesses
    BY DEF MatchTypeOK, WorkerOK, MatchCrash, Working
  <2> QED
    BY <2>1, <2>2, <2>3, AtRestIsTyped DEF MatchTypeOK, WorkerOK, MatchCrash, Winners
<1>3. TipTypeOK'
  BY DEF TipTypeOK, TipCrash, ledgers
<1> QED
  BY <1>1, <1>2, <1>3

LEMMA TypeStep == TypeOK /\ WorkerOK /\ [Next]_vars => TypeOK' /\ WorkerOK'
<1> SUFFICES ASSUME TypeOK, WorkerOK, [Next]_vars PROVE TypeOK' /\ WorkerOK'
  OBVIOUS
<1>1. CASE ((\E m \in Blesses : BlessStart(m) \/ BlessStep(m)) \/ Work) /\ UNCHANGED tipVars
  <2>1. TipTypeOK'
    BY <1>1 DEF TypeOK, TipTypeOK, tipVars
  <2> QED
    BY <1>1, <2>1, MatchTypeStep DEF TypeOK
<1>2. CASE \E t \in Tips : TipStep(t) /\ UNCHANGED matchVars
  <2>1. MatchTypeOK' /\ WorkerOK'
    BY <1>2 DEF TypeOK, MatchTypeOK, WorkerOK, matchVars
  <2> QED
    BY <1>2, <2>1, TipTypeStep DEF TypeOK
<1>3. CASE Crash
  BY <1>3, CrashType
<1>4. CASE UNCHANGED vars
  BY <1>4 DEF vars, matchVars, tipVars, TypeOK, StateTypeOK, MatchTypeOK, TipTypeOK, WorkerOK
<1> QED
  BY <1>1, <1>2, <1>3, <1>4 DEF Next

-----------------------------------------------------------------------------
(* updateOne finds a room: that of the match itself or one that fits.      *)
LEMMA LeastIndex ==
    ASSUME NEW T \in SUBSET Nat, T # {}
    PROVE  \E i \in T : \A j \in T : i <= j
<1>1. PICK i \in T : \A j \in T : ~(<<j, i>> \in OpToRel(<, Nat))
  BY WFMin, NatLessThanWellFounded
<1>2. \A j \in T : ~(j < i)
  BY <1>1 DEF OpToRel
<1> QED
  BY <1>2

(* The room a result is stored in is one that was saved and has the match's  *)
(* player and price.                                                         *)
LEMMA RoomOfFits ==
    ASSUME MatchTypeOK, NEW m \in Saved
    PROVE  RoomOf(m) \in Saved /\ Fits(RoomOf(m), m)
<1> DEFINE fitting == {i \in DOMAIN pvprooms : Fits(pvprooms[i], m)}
<1>1. fitting \in SUBSET Nat /\ fitting # {}
  BY DEF Saved, Fits, MatchTypeOK
<1>2. \E i \in fitting : \A j \in fitting : i <= j
  BY <1>1, LeastIndex
<1>3. (CHOOSE i \in fitting : \A j \in fitting : i <= j) \in fitting
  BY <1>2
<1> QED
  BY <1>3 DEF RoomOf, Saved

LEMMA RoomAppended ==
    ASSUME MatchTypeOK, NEW m \in Blesses, pvprooms' = Append(pvprooms, m)
    PROVE  Saved' = Saved \cup {m}
<1>1. /\ DOMAIN pvprooms' = 1..(Len(pvprooms) + 1) /\ DOMAIN pvprooms = 1..Len(pvprooms)
      /\ \A i \in 1..Len(pvprooms) : pvprooms'[i] = pvprooms[i]
      /\ pvprooms'[Len(pvprooms) + 1] = m /\ Len(pvprooms) \in Nat
  BY DEF MatchTypeOK
<1> QED
  BY <1>1 DEF Saved

LEMMA SavedAreMatches == MatchTypeOK => Saved \subseteq Blesses
BY DEF MatchTypeOK, Saved

(* A price that moved by more than the rounding stays on its side. *)
LEMMA RoundedStaysAside ==
    ASSUME NEW p \in Nat, NEW open \in Nat, Rounded(p) \notin (open - 5)..(open + 5)
    PROVE  /\ p # open
           /\ Rounded(p) > open <=> p > open
BY DEF Rounded

(* Away from the open price the rounded price tells the winner's side. *)
LEMMA SideIsWinners ==
    ASSUME MatchTypeOK, NEW m \in Blesses, NEW p \in Prices,
           Rounded(p) \notin (openPrice[m] - 5)..(openPrice[m] + 5)
    PROVE  WinnerOf(m, p) = PlayerOf[m]
               <=> (IF Rounded(p) > openPrice[m] THEN "Pump" ELSE "Dump") = TargetOf[m]
<1>1. p \in Nat /\ openPrice[m] \in Nat
  <2>1. Prices \subseteq Nat
    BY BlessesAssumption
  <2>2. openPrice[m] \in Prices \cup {0}
    BY DEF MatchTypeOK
  <2>3. p \in Nat
    BY <2>1
  <2>4. openPrice[m] \in Prices => openPrice[m] \in Nat
    BY <2>1
  <2> QED
    BY <2>2, <2>3, <2>4
<1>2. p # openPrice[m] /\ (Rounded(p) > openPrice[m] <=> p > openPrice[m])
  BY <1>1, RoundedStaysAside
<1>3. p < openPrice[m] <=> ~(p > openPrice[m])
  BY <1>1, <1>2
<1>4. WinnerOf(m, p) = PlayerOf[m] <=>
          \/ TargetOf[m] = "Pump" /\ p > openPrice[m]
          \/ TargetOf[m] = "Dump" /\ p < openPrice[m]
  <2>1. PlayerOf[m] # Bot
    BY BlessesAssumption
  <2> QED
    BY <2>1, Zenon DEF WinnerOf
<1>5. TargetOf[m] = "Pump" \/ TargetOf[m] = "Dump"
  BY BlessesAssumption
<1>a. "Pump" # "Dump"
  OBVIOUS
<1>6. CASE p > openPrice[m]
  BY <1>2, <1>3, <1>4, <1>5, <1>a, <1>6, Zenon
<1>7. CASE ~(p > openPrice[m])
  BY <1>2, <1>3, <1>4, <1>5, <1>a, <1>7, Zenon
<1> QED
  BY <1>6, <1>7

-----------------------------------------------------------------------------
(* Steps of the matches. *)

MatchGroup ==
    MatchInv /\ PriceRead /\ AnnouncedAsSettled /\ RoomIsWorkers /\ RoomSaysWhatWasTold

LEMMA MatchGroupInit == Init => MatchGroup
<1> SUFFICES ASSUME Init PROVE MatchGroup
  OBVIOUS
<1>1. Saved = {}
  BY DEF Init, MatchInit, Saved
<1> QED
  BY <1>1 DEF Init, MatchInit, MatchGroup, MatchInv, PriceRead, Decided, AnnouncedAsSettled,
     RoomIsWorkers, RoomSaysWhatWasTold, AtRest

(* A room that is saved keeps its price, and another one can only make it  *)
(* less alone.                                                             *)
LEMMA MoreRooms ==
    ASSUME Saved \subseteq Saved', \A r \in Saved : openPrice'[r] = openPrice[r],
           NEW m \in Saved, Alone(m)'
    PROVE  Alone(m)
BY DEF Alone

(* What leaves rooms and worker alone leaves results as they were told. *)
LEMMA CommandsLeaveResults ==
    ASSUME MatchTypeOK, MatchGroup, WorkerOK, UNCHANGED <<result, worker, told>>,
           \A r \in Blesses : jobs[r] = "failed" => jobs'[r] = "failed",
           Saved \subseteq Saved', \A r \in Saved : openPrice'[r] = openPrice[r],
           \A r \in Saved' \ Saved : told[r] = NotTold
    PROVE  PriceRead' /\ AnnouncedAsSettled' /\ RoomIsWorkers' /\ RoomSaysWhatWasTold'
<1> USE DEF MatchGroup, MatchInv
<1>1. worker.pc # "idle" => worker.match \in Saved
  BY DEF WorkerOK
<1>2. PriceRead'
  BY <1>1 DEF PriceRead, Decided, WinnerOf
<1>3. AnnouncedAsSettled'
  BY DEF AnnouncedAsSettled
<1>4. RoomIsWorkers'
  BY <1>1, MoreRooms DEF RoomIsWorkers
<1>5. RoomSaysWhatWasTold'
  <2>1. \A m \in Saved : MayBeUntold(m) => MayBeUntold(m)'
    BY SavedAreMatches DEF MayBeUntold
  <2> QED
    BY <2>1, MoreRooms DEF RoomSaysWhatWasTold
<1> QED
  BY <1>2, <1>3, <1>4, <1>5

LEMMA BlessSteps ==
    ASSUME MatchTypeOK, WorkerOK, MatchGroup, NEW m \in Blesses, BlessStart(m) \/ BlessStep(m)
    PROVE  MatchGroup'
<1> DEFINE Told == /\ Saved \subseteq Saved'
                   /\ \A r \in Saved : openPrice'[r] = openPrice[r]
                   /\ \A r \in Saved' \ Saved : told[r] = NotTold
                   /\ \A r \in Blesses : jobs[r] = "failed" => jobs'[r] = "failed"
<1> SUFFICES MatchInv' /\ Told /\ UNCHANGED <<result, worker, told>>
  BY CommandsLeaveResults DEF MatchGroup
<1> USE DEF MatchTypeOK, MatchGroup, MatchInv
<1> DEFINE Goal == MatchInv' /\ Told /\ UNCHANGED <<result, worker, told>>
<1>a. UNCHANGED pvprooms => Saved' = Saved
  BY DEF Saved
<1>b. Saved \subseteq Blesses
  BY SavedAreMatches
<1>1. CASE BlessStart(m)
  BY <1>1, <1>a, <1>b DEF BlessStart, BlessTo, afterBless
<1>2. CASE BlessBalance(m)
  BY <1>2, <1>a, <1>b DEF BlessBalance, BlessTo, afterBless
<1>3. CASE BlessOpen(m)
  BY <1>3, <1>a, <1>b DEF BlessOpen, BlessTo, afterBless
<1>4. CASE BlessLock(m)
  BY <1>4, <1>a, <1>b DEF BlessLock, BlessTo, afterBless
<1>5. CASE BlessSave(m)
  <2>1. Saved' = Saved \cup {m}
    BY <1>5, RoomAppended DEF BlessSave
  <2> QED
    BY <1>5, <1>b, <2>1 DEF BlessSave, BlessTo, afterBless
<1>6. CASE BlessAnnounce(m)
  BY <1>6, <1>a, <1>b DEF BlessAnnounce, BlessTo, afterBless
<1>7. CASE BlessEnqueue(m)
  BY <1>7, <1>a, <1>b DEF BlessEnqueue, BlessTo, WorkerOK
<1>8. CASE BlessFails(m)
  BY <1>8, <1>a, <1>b DEF BlessFails, BlessTo, Dropped, afterBless
<1> QED
  BY <1>1, <1>2, <1>3, <1>4, <1>5, <1>6, <1>7, <1>8 DEF BlessStep

(* The worker. *)
RoomsKept == UNCHANGED <<bless, openPrice, pvprooms, result, told>>

(* A job that goes on keeps its winner and price, or fails; the result is  *)
(* stored and told in steps of their own.                                  *)
LEMMA JobGoesOn ==
    ASSUME MatchTypeOK, WorkerOK, MatchGroup, worker.pc \notin {"idle", "end", "failing"},
           RoomsKept, UNCHANGED <<jobs, stalled>>, worker'.match = worker.match,
           \/ worker'.pc = "failing"
           \/ /\ Decided /\ worker.pc # "tell" /\ worker'.pc \in {"call", "record", "undo", "end"}
              /\ worker'.winner = worker.winner /\ worker'.closePrice = worker.closePrice
    PROVE  MatchGroup'
<1> USE BlessesAssumption DEF MatchTypeOK, MatchGroup, RoomsKept
<1>1. Saved' = Saved /\ \A m \in Saved : Alone(m)' <=> Alone(m)
  BY DEF Saved, Alone
<1>2. MatchInv'
  BY <1>1 DEF MatchInv
<1>3. PriceRead'
  BY DEF PriceRead, Decided, WinnerOf
<1>4. AnnouncedAsSettled' /\ RoomIsWorkers'
  BY DEF AnnouncedAsSettled, RoomIsWorkers
<1>5. \A m \in Saved : MayBeUntold(m) => MayBeUntold(m)'
  BY DEF MayBeUntold
<1>6. RoomSaysWhatWasTold'
  BY <1>1, <1>5 DEF RoomSaysWhatWasTold
<1> QED
  BY <1>2, <1>3, <1>4, <1>6

LEMMA WorkSteps ==
    ASSUME MatchTypeOK, WorkerOK, MatchGroup, Work
    PROVE  MatchGroup'
<1> USE BlessesAssumption DEF MatchTypeOK, MatchGroup
<1>a. Saved' = Saved /\ UNCHANGED <<bless, openPrice, pvprooms>>
  <2>1. UNCHANGED beforeJob
    BY DEF Work, WorkStart, WorkStep, WorkPrice, WorkCall, WorkRecord, WorkTell, WorkFails,
       WorkUndo, WorkUndoFails, WorkEnds
  <2> QED
    BY <2>1 DEF beforeJob, Saved
<1>b. \A m \in Saved : Alone(m)' <=> Alone(m)
  BY <1>a DEF Alone
<1>c. Saved \subseteq Blesses
  BY SavedAreMatches
<1>d. worker.pc # "idle" => worker.match \in Saved /\ jobs[worker.match] = "active"
  BY DEF MatchInv, WorkerOK
<1>1. ASSUME NEW m \in Blesses, WorkStart(m) PROVE MatchGroup'
  <2>1. /\ worker'.pc = "price" /\ worker'.match = m
        /\ jobs' = [jobs EXCEPT ![m] = "active"] /\ UNCHANGED <<result, told, stalled>>
    BY <1>1 DEF WorkStart, Dispatch, AtRest
  <2>2. worker.pc = "idle" /\ jobs[m] = "waiting"
    BY <1>1 DEF WorkStart, Working
  <2>3. MatchInv'
    BY <1>a, <1>c, <2>1, <2>2 DEF MatchInv
  <2>4. PriceRead' /\ AnnouncedAsSettled' /\ RoomIsWorkers'
    BY <1>a, <2>1 DEF PriceRead, Decided, AnnouncedAsSettled, RoomIsWorkers
  <2>5. \A o \in Saved : MayBeUntold(o) => MayBeUntold(o)'
    BY <1>c, <2>1, <2>2 DEF MayBeUntold, WorkerOK
  <2>6. RoomSaysWhatWasTold'
    BY <1>a, <1>b, <2>1, <2>5 DEF RoomSaysWhatWasTold
  <2> QED
    BY <2>3, <2>4, <2>6
<1>2. CASE WorkPrice
  <2>1. PICK p \in Prices :
          /\ worker'.match = worker.match
          /\ worker'.winner = WinnerOf(worker.match, p)
          /\ worker'.closePrice = Rounded(p)
          /\ worker'.pc \in {"record", "call"}
    BY <1>2 DEF WorkPrice, determinePvPResult
  <2>2. worker.pc = "price" /\ UNCHANGED <<jobs, result, told, stalled>>
    BY <1>2 DEF WorkPrice, Working
  <2>3. MatchInv' /\ AnnouncedAsSettled' /\ RoomIsWorkers'
    BY <1>a, <2>1, <2>2 DEF MatchInv, AnnouncedAsSettled, RoomIsWorkers
  <2>4. PriceRead'
    BY <1>a, <2>1 DEF PriceRead, WinnerOf
  <2>5. RoomSaysWhatWasTold'
    BY <1>a, <1>b, <2>1, <2>2 DEF RoomSaysWhatWasTold, MayBeUntold
  <2> QED
    BY <2>3, <2>4, <2>5
<1>3. CASE WorkCall
  <2>1. /\ worker.pc = "call" /\ worker'.pc \in {"call", "record"}
        /\ worker'.match = worker.match /\ worker'.winner = worker.winner
        /\ worker'.closePrice = worker.closePrice
        /\ UNCHANGED <<jobs, stalled, result, told>>
    BY <1>3 DEF WorkCall, Working
  <2> QED
    BY <2>1, <1>a, JobGoesOn DEF Decided, RoomsKept
<1>4. CASE WorkRecord
  <2> DEFINE m == worker.match
             r == [winner |-> worker.winner, closePrice |-> worker.closePrice]
  <2>1. /\ worker.pc = "record" /\ worker' = [worker EXCEPT !.pc = "tell"]
        /\ UNCHANGED <<jobs, told, stalled>> /\ result' = [result EXCEPT ![RoomOf(m)] = r]
    BY <1>4 DEF WorkRecord, Working, WorkTo
  <2>2. RoomOf(m) \in Saved /\ Fits(RoomOf(m), m)
    BY <1>d, <2>1, RoomOfFits
  <2>3. MatchInv' /\ AnnouncedAsSettled'
    BY <1>a, <2>1 DEF MatchInv, AnnouncedAsSettled
  <2>4. PriceRead'
    BY <1>a, <2>1 DEF PriceRead, Decided, WinnerOf
  <2>5. Alone(m) => RoomOf(m) = m
    BY <2>2 DEF Alone, Fits
  <2>6. RoomIsWorkers'
    BY <1>b, <1>c, <1>d, <2>1, <2>5 DEF RoomIsWorkers
  <2>7. ASSUME NEW o \in Saved, Alone(o), o # m PROVE RoomOf(m) # o
    BY <1>d, <2>1, <2>2, <2>7 DEF Alone, Fits
  <2>8. RoomSaysWhatWasTold'
    <3>1. MayBeUntold(m)' /\ \A o \in Saved : MayBeUntold(o) => MayBeUntold(o)'
      BY <2>1 DEF MayBeUntold
    <3>2. \A o \in Saved : Alone(o) /\ o # m => result'[o] = result[o]
      BY <1>c, <2>1, <2>2, <2>7
    <3> QED
      BY <1>a, <1>b, <2>1, <3>1, <3>2 DEF RoomSaysWhatWasTold
  <2> QED
    BY <2>3, <2>4, <2>6, <2>8
<1>5. CASE WorkTell
  <2> DEFINE m == worker.match
             side == IF worker.closePrice > openPrice[m] THEN "Pump" ELSE "Dump"
             what == [result |-> side, winner |-> worker.winner, closePrice |-> worker.closePrice]
  <2>1. /\ worker.pc = "tell" /\ worker'.pc = "end" /\ worker'.match = m
        /\ UNCHANGED <<result, jobs, stalled>> /\ told' = [told EXCEPT ![m] = what]
    BY <1>5 DEF WorkTell, Working, WorkTo
  <2>2. m \in Blesses
    BY <1>c, <1>d, <2>1
  <2>3. MatchInv'
    BY <1>a, <1>d, <2>1, <2>2 DEF MatchInv
  <2>4. PriceRead' /\ RoomIsWorkers'
    BY <2>1 DEF PriceRead, Decided, RoomIsWorkers
  <2>5. AnnouncedAsSettled'
    <3>1. PICK p \in Prices : worker.winner = WinnerOf(m, p) /\ worker.closePrice = Rounded(p)
      BY <2>1 DEF PriceRead, Decided
    <3> QED
      BY <1>a, <2>1, <2>2, <3>1, SideIsWinners DEF AnnouncedAsSettled
  <2>6. RoomSaysWhatWasTold'
    <3>1. told'[m].winner = worker.winner /\ told'[m].closePrice = worker.closePrice
      BY <2>1, <2>2
    <3>2. \A o \in Saved : o # m => told'[o] = told[o] /\ (MayBeUntold(o) => MayBeUntold(o)')
      BY <1>c, <2>1, <2>2 DEF MayBeUntold
    <3> QED
      BY <1>a, <1>b, <2>1, <3>1, <3>2 DEF RoomSaysWhatWasTold, RoomIsWorkers
  <2> QED
    BY <2>3, <2>4, <2>5, <2>6
<1>6. CASE WorkFails
  <2>1. /\ worker.pc \in {"price", "tell", "record", "call"} /\ RoomsKept
        /\ UNCHANGED <<jobs, stalled>>
    BY <1>6, <1>a DEF WorkFails, Working, RoomsKept
  <2>2. \/ WorkTo("failing")
        \/ worker.pc \in {"record", "call"} /\ \E pc \in {"undo", "end"} : WorkTo(pc)
    BY <1>6 DEF WorkFails, Working, Catch
  <2>3. /\ worker'.match = worker.match /\ worker'.winner = worker.winner
        /\ worker'.closePrice = worker.closePrice
    BY <2>2 DEF WorkTo
  <2>4. \/ worker'.pc = "failing"
        \/ worker.pc \in {"record", "call"} /\ worker'.pc \in {"undo", "end"}
    BY <2>2 DEF WorkTo
  <2> QED
    BY <2>1, <2>3, <2>4, JobGoesOn DEF Decided
<1>7. CASE WorkUndo
  <2>1. /\ worker.pc = "undo" /\ worker'.pc = "end" /\ worker'.match = worker.match
        /\ worker'.winner = worker.winner /\ worker'.closePrice = worker.closePrice
        /\ UNCHANGED <<jobs, stalled, result, told>>
    BY <1>7 DEF WorkUndo, Working
  <2> QED
    BY <2>1, <1>a, JobGoesOn DEF RoomsKept, Decided
<1>8. CASE WorkUndoFails
  <2>1. /\ worker.pc = "undo" /\ worker'.pc = "failing" /\ worker'.match = worker.match
        /\ UNCHANGED <<jobs, stalled, result, told>>
    BY <1>8 DEF WorkUndoFails, Working, WorkTo
  <2> QED
    BY <2>1, <1>a, JobGoesOn DEF RoomsKept
<1>9. CASE WorkEnds
  <2> DEFINE m == worker.match
  <2>1. /\ worker.pc \in {"end", "failing"} /\ worker'.pc = "idle"
        /\ jobs' = [jobs EXCEPT ![m] = IF worker.pc = "end" THEN "completed" ELSE "failed"]
        /\ UNCHANGED <<result, told, stalled>>
    BY <1>9 DEF WorkEnds, Working, AtRest
  <2>2. m \in Saved /\ m \in Blesses
    BY <1>c, <1>d, <2>1
  <2>3. MatchInv'
    BY <1>a, <1>d, <2>1, <2>2 DEF MatchInv
  <2>4. PriceRead' /\ AnnouncedAsSettled' /\ RoomIsWorkers'
    BY <1>a, <2>1 DEF PriceRead, Decided, AnnouncedAsSettled, RoomIsWorkers
  <2>5. \A o \in Saved : MayBeUntold(o) => MayBeUntold(o)'
    BY <1>c, <1>d, <2>1, <2>2 DEF MayBeUntold
  <2>6. RoomSaysWhatWasTold'
    BY <1>a, <1>b, <2>1, <2>5 DEF RoomSaysWhatWasTold
  <2> QED
    BY <2>3, <2>4, <2>6
<1> QED
  BY <1>1, <1>2, <1>3, <1>4, <1>5, <1>6, <1>7, <1>8, <1>9 DEF Work, WorkStep

LEMMA MatchesOverCrash ==
    ASSUME MatchTypeOK, WorkerOK, MatchGroup, MatchCrash
    PROVE  MatchGroup'
<1> USE BlessesAssumption DEF MatchTypeOK, MatchGroup, MatchCrash
<1>1. Saved' = Saved /\ \A m \in Saved : Alone(m)' <=> Alone(m)
  BY DEF Saved, Alone
<1>2. worker'.pc = "idle"
  BY DEF AtRest
<1>3. Saved \subseteq Blesses
  BY SavedAreMatches
<1>4. worker.pc # "idle" => worker.match \in Saved /\ jobs[worker.match] = "active"
  BY DEF MatchInv, WorkerOK
<1>c. IF worker.pc = "idle" THEN UNCHANGED <<jobs, stalled>>
      ELSE /\ jobs' = [jobs EXCEPT ![worker.match] = IF worker.match \in stalled THEN "failed"
                                                                                 ELSE "waiting"]
           /\ stalled' = stalled \cup {worker.match}
  BY DEF Working
<1>5. MatchInv'
  <2>1. \A m \in Blesses :
          /\ jobs'[m] # "none" => jobs[m] # "none"
          /\ jobs[m] # "none" => jobs'[m] # "none"
          /\ told[m] # NotTold /\ jobs'[m] \in {"waiting", "active"} => m \in stalled'
    BY <1>3, <1>4, <1>c DEF MatchInv, WorkerOK
  <2>2. \A m \in Blesses :
          /\ bless[m] \in {"announce", "enqueue"} => bless'[m] = "failed"
          /\ bless[m] \in {"done", "failed"} => bless'[m] = bless[m]
          /\ bless'[m] \in {"announce", "enqueue", "done"} => bless'[m] = bless[m]
    BY DEF Dropped
  <2> QED
    BY <1>1, <1>2, <1>3, <2>1, <2>2 DEF MatchInv
<1>6. PriceRead' /\ AnnouncedAsSettled' /\ RoomIsWorkers'
  BY <1>2 DEF PriceRead, Decided, AnnouncedAsSettled, RoomIsWorkers
<1>7. RoomSaysWhatWasTold'
  <2>1. \A m \in Saved : told[m] # NotTold /\ MayBeUntold(m) => MayBeUntold(m)'
    BY <1>3, <1>4, <1>c DEF MayBeUntold, MatchInv, WorkerOK
  <2> QED
    BY <1>1, <2>1 DEF RoomSaysWhatWasTold
<1> QED
  BY <1>5, <1>6, <1>7

-----------------------------------------------------------------------------
(* Steps of the tips: one tip's answers depend on that tip alone. *)

TipGood(t) ==
    /\ tip[t] \in Unsent =>
          /\ t \notin moved /\ t \notin declined /\ t \notin tipHistories
          /\ "tipped" \notin answers[t] /\ "received" \notin answers[t]
          /\ "failed" \notin answers[t]
    /\ tip[t] = "record" =>
          /\ t \in moved /\ t \notin declined /\ t \notin tipHistories
          /\ "tipped" \notin answers[t] /\ "received" \notin answers[t]
          /\ "failed" \notin answers[t]
    /\ tip[t] = "notify" =>
          Private(t) /\ "tipped" \in answers[t] /\ "failed" \notin answers[t]
    /\ "tipped" \in answers[t] => (t \in moved /\ t \in tipHistories) \/ t \in declined
    /\ "received" \in answers[t] => "tipped" \in answers[t]
    /\ "failed" \in answers[t] =>
          t \notin tipHistories \/ (Private(t) /\ "tipped" \in answers[t])
    /\ t \in tipHistories => t \in moved /\ t \notin declined

(* What holds of tips is said of each alone. *)
LEMMA TipsAreGood ==
    TipInv /\ TipAnswersAreTrue <=> \A t \in Tips : TipGood(t)
BY DEF TipInv, TipAnswersAreTrue, TipGood

LEMMA TipSteps ==
    ASSUME TipTypeOK, \A o \in Tips : TipGood(o), NEW t \in Tips, TipStep(t)
    PROVE  \A o \in Tips : TipGood(o)'
<1> USE DEF TipTypeOK
<1> DEFINE Others == \A o \in Tips \ {t} :
                        /\ tip'[o] = tip[o] /\ message'[o] = message[o] /\ answers'[o] = answers[o]
                        /\ o \in moved' <=> o \in moved
                        /\ o \in declined' <=> o \in declined
                        /\ o \in tipHistories' <=> o \in tipHistories
           Goal == Others /\ TipGood(t)'
<1> SUFFICES Goal
  BY DEF TipGood, Private
<1>1. CASE TipStart(t)
  BY <1>1 DEF TipStart, TipTo, ledgers, TipGood, Unsent, Private
<1>2. CASE TipFind(t)
  BY <1>2 DEF TipFind, TipTo, Answer, ledgers, TipGood, Unsent, Private
<1>3. CASE TipCheck(t)
  BY <1>3 DEF TipCheck, TipTo, Answer, ledgers, TipGood, Unsent, Private
<1>4. CASE TipTransfer(t)
  BY <1>4 DEF TipTransfer, AfterTransfer, Tipped, TipTo, Answer, TipGood, Unsent, Private
<1>5. CASE TipRecord(t)
  BY <1>5 DEF TipRecord, Tipped, TipTo, Answer, TipGood, Unsent, Private
<1>6. CASE TipFails(t)
  BY <1>6 DEF TipFails, TipTo, Answer, ledgers, TipGood, Unsent, Private
<1>7. CASE TipNotify(t)
  BY <1>7 DEF TipNotify, TipTo, Answer, ledgers, TipGood, Unsent, Private
<1> QED
  BY <1>1, <1>2, <1>3, <1>4, <1>5, <1>6, <1>7 DEF TipStep

LEMMA TipsOverCrash ==
    ASSUME TipTypeOK, \A t \in Tips : TipGood(t), TipCrash
    PROVE  \A t \in Tips : TipGood(t)'
BY DEF TipTypeOK, TipCrash, ledgers, TipGood, Unsent, Private

-----------------------------------------------------------------------------
(* The invariant is inductive, and implies the properties. *)
LEMMA InvInit == Init => IInv
<1>1. Init => \A t \in Tips : TipGood(t)
  BY DEF Init, TipInit, TipGood
<1> QED
  BY <1>1, TypeInit, MatchGroupInit, TipsAreGood DEF IInv, MatchGroup

LEMMA InvStep == IInv /\ [Next]_vars => IInv'
<1> SUFFICES ASSUME IInv, [Next]_vars PROVE IInv'
  OBVIOUS
<1> USE DEF IInv
<1>1. TypeOK' /\ WorkerOK' /\ MatchTypeOK /\ TipTypeOK
  BY TypeStep DEF TypeOK
<1>2. MatchGroup /\ \A t \in Tips : TipGood(t)
  BY TipsAreGood DEF MatchGroup
<1>a. ASSUME UNCHANGED matchVars PROVE MatchGroup'
  BY <1>2, <1>a DEF matchVars, MatchGroup, MatchInv, PriceRead, Decided, WinnerOf,
     AnnouncedAsSettled, RoomIsWorkers, RoomSaysWhatWasTold, MayBeUntold, Alone, Saved
<1>b. ASSUME UNCHANGED tipVars PROVE \A t \in Tips : TipGood(t)'
  BY <1>2, <1>b DEF tipVars, TipGood, Private
<1>3. MatchGroup' /\ \A t \in Tips : TipGood(t)'
  <2>1. CASE (\E m \in Blesses : BlessStart(m) \/ BlessStep(m)) /\ UNCHANGED tipVars
    BY <2>1, <1>1, <1>2, <1>b, BlessSteps
  <2>2. CASE Work /\ UNCHANGED tipVars
    BY <2>2, <1>1, <1>2, <1>b, WorkSteps
  <2>3. CASE \E t \in Tips : TipStep(t) /\ UNCHANGED matchVars
    BY <2>3, <1>1, <1>2, <1>a, TipSteps
  <2>4. CASE Crash
    BY <2>4, <1>1, <1>2, MatchesOverCrash, TipsOverCrash DEF Crash
  <2>5. CASE UNCHANGED vars
    BY <2>5, <1>a, <1>b DEF vars
  <2> QED
    BY <2>1, <2>2, <2>3, <2>4, <2>5 DEF Next
<1>4. TipInv' /\ TipAnswersAreTrue'
  BY <1>3 DEF TipInv, TipAnswersAreTrue, TipGood
<1> QED
  BY <1>1, <1>3, <1>4 DEF MatchGroup

(* The invariant holds in every reachable state. *)
THEOREM Invariant == Spec => []IInv
BY InvInit, InvStep, PTL DEF Spec

(* The accounts stay integers, rooms are matches', the worker and every    *)
(* command is where the code can be.                                       *)
THEOREM TypeCorrect == Spec => []TypeOK
<1>1. IInv => TypeOK
  BY DEF IInv
<1> QED
  BY <1>1, Invariant, PTL

(* The side that is announced is the winner's, for prices that moved by    *)
(* more than the rounding of the close price (determinePvPResult).         *)
THEOREM SidesAreTold == Spec => []AnnouncedAsSettled
<1>1. IInv => AnnouncedAsSettled
  BY DEF IInv
<1> QED
  BY <1>1, Invariant, PTL

(* The result of a match is stored in its own room, when no other room has *)
(* its players and open price, and is the one the chat was last told of,   *)
(* over any failed calls and crashes, those between the announcement and   *)
(* BullMQ's end of the job included: only a job that failed may have       *)
(* stored a result nobody was told of (updateOne and the announcement in   *)
(* handlePvPResultWithBot).                                                *)
THEOREM ResultsAreInTheirRooms == Spec => []RoomSaysWhatWasTold
<1>1. IInv => RoomSaysWhatWasTold
  BY DEF IInv
<1> QED
  BY <1>1, Invariant, PTL

(* What tipHopium's callers tell the players agrees with the transfers and *)
(* the history, over failed calls and crashes.                             *)
THEOREM TipsAreTold == Spec => []TipAnswersAreTrue
<1>1. IInv => TipAnswersAreTrue
  BY DEF IInv
<1> QED
  BY <1>1, Invariant, PTL

-----------------------------------------------------------------------------
(* No settlement of u was left half made, and his rooms are told apart. *)
Clean(u) == \A m \in Blesses : PlayerOf[m] = u => m \notin upset /\ (m \in Saved => Alone(m))

(* What the worker has given a winner whose room does not say so. *)
Pays(u) == worker.pc \in {"call", "record", "undo"} /\ worker.winner = u
PrizeOf(u) == IF Pays(u) /\ worker.calls = 2 THEN 1 ELSE 0
FreedOf(u) == IF Pays(u) /\ worker.calls >= 1 THEN 1 ELSE 0
WinnerPaid ==
    /\ worker.pc = "call" => worker.winner # Bot
    /\ worker.pc \in {"record", "tell"} => worker.calls = (IF worker.winner = Bot THEN 0 ELSE 2)
    /\ worker.pc = "undo" => worker.winner # Bot /\ worker.calls \in {1, 2}

(* A match that has yet to be settled has not been won. *)
Waits(m) ==
    \/ jobs[m] \in {"none", "waiting"}
    \/ worker.match = m /\ (worker.pc \in {"tell", "end", "failing"} => worker.calls = 0)
NotYetWon ==
    /\ \A m \in Blesses : result[m].winner \in {NoOne, Bot, PlayerOf[m]}
    /\ \A m \in Blesses : Waits(m) /\ Clean(PlayerOf[m]) => result[m].winner # PlayerOf[m]

Opened == Saved \cup {m \in Blesses : bless[m] \in {"save", "unsaved"}}
MovedTo(u) == {t \in moved : message[t].to = u}
MovedBy(u) == {t \in moved : SenderOf[t] = u}

Book(u) ==
    /\ wallet[u].balance = InitBalance
           + 9 * (Cardinality(WonBy(u)) + PrizeOf(u))
           + 5 * (Cardinality(MovedTo(u)) - Cardinality(MovedBy(u)))
    /\ wallet[u].locked = 10 * (Cardinality(OpenedBy(u) \ WonBy(u)) - FreedOf(u))

BooksInv ==
    /\ WinnerPaid /\ NotYetWon
    /\ IsFiniteSet(Opened) /\ IsFiniteSet(moved)
    /\ \A u \in Users : Clean(u) => Book(u)

LEMMA PlayersAre ==
    ASSUME IInv
    PROVE  /\ Saved \subseteq Blesses /\ \A m \in Blesses : PlayerOf[m] \in Users
           /\ Bot \notin Users /\ NoOne \notin Users /\ NoOne # Bot
           /\ worker.pc # "idle" => worker.match \in Saved
           /\ Decided => worker.winner \in {Bot, PlayerOf[worker.match]}
<1>1. Saved \subseteq Blesses
  BY SavedAreMatches DEF IInv, TypeOK
<1>2. worker.pc # "idle" => worker.match \in Saved
  BY DEF IInv, WorkerOK, MatchInv
<1>3. Decided => worker.winner \in {Bot, PlayerOf[worker.match]}
  BY DEF IInv, PriceRead, WinnerOf
<1> QED
  BY <1>1, <1>2, <1>3, BlessesAssumption

(* Two rooms of one price stay two, and what was upset stays so. *)
LEMMA CleanShrinks ==
    ASSUME IInv, [Next]_vars, NEW u \in Users, Clean(u)'
    PROVE  Clean(u)
<1> USE DEF IInv, TypeOK
<1>1. Saved \subseteq Blesses
  BY PlayersAre
<1>a. UNCHANGED pvprooms => Saved' = Saved
  BY DEF Saved
<1>2. Saved \subseteq Saved' /\ upset \subseteq upset' /\ \A r \in Saved : openPrice'[r] = openPrice[r]
  <2> DEFINE Goal == /\ Saved \subseteq Saved' /\ upset \subseteq upset'
                     /\ \A r \in Saved : openPrice'[r] = openPrice[r]
  <2>1. ASSUME NEW m \in Blesses, BlessSave(m) PROVE Goal
    <3>1. Saved' = Saved \cup {m}
      BY <2>1, RoomAppended DEF BlessSave
    <3> QED
      BY <2>1, <3>1 DEF BlessSave, afterBless
  <2>2. ASSUME NEW m \in Blesses, BlessOpen(m) PROVE Goal
    <3>1. m \notin Saved
      BY <2>2 DEF BlessOpen, MatchInv
    <3> QED
      BY <2>2, <3>1, <1>1, <1>a DEF BlessOpen, afterBless, MatchTypeOK
  <2>3. ASSUME UNCHANGED <<pvprooms, openPrice>>, upset \subseteq upset' PROVE Goal
    BY <2>3, <1>a
  <2>4. ASSUME NEW m \in Blesses, BlessStart(m) \/ BlessStep(m) PROVE Goal
    BY <2>1, <2>2, <2>3, <2>4
       DEF BlessStart, BlessStep, BlessBalance, BlessLock, BlessAnnounce, BlessEnqueue, BlessFails,
           afterBless
  <2>5. ASSUME Work PROVE Goal
    BY <2>5, <2>3 DEF Work, WorkStart, WorkStep, WorkPrice, WorkCall, WorkRecord, WorkTell, WorkFails,
       WorkUndo, WorkUndoFails, WorkEnds, beforeJob
  <2>6. ASSUME UNCHANGED matchVars PROVE Goal
    BY <2>6, <2>3 DEF matchVars
  <2>7. ASSUME Crash PROVE Goal
    BY <2>7, <2>3 DEF Crash, MatchCrash, Working
  <2> QED
    BY <2>4, <2>5, <2>6, <2>7 DEF Next, vars
<1>3. \A m \in Saved : Alone(m)' => Alone(m)
  BY <1>2, MoreRooms
<1> QED
  BY <1>2, <1>3 DEF Clean


(* Before its price is read nothing is paid; after it, a winner is paid in *)
(* two calls and the bot in none.                                          *)
LEMMA WinnerPaidStep ==
    ASSUME IInv, WinnerPaid, [Next]_vars
    PROVE  WinnerPaid'
<1> USE PlayersAre DEF IInv, TypeOK, MatchTypeOK, WorkerOK, WinnerPaid
<1>1. ASSUME UNCHANGED worker PROVE WinnerPaid'
  BY <1>1
<1>2. ASSUME worker' = AtRest PROVE WinnerPaid'
  BY <1>2 DEF AtRest
<1>3. ASSUME NEW m \in Blesses, WorkStart(m) PROVE WinnerPaid'
  BY <1>3 DEF WorkStart, Dispatch, AtRest
<1>4. CASE WorkPrice
  <2>1. PICK p \in Prices :
          LET r == determinePvPResult(worker.match, p) IN
          worker' = [worker EXCEPT !.winner = r.winner, !.closePrice = r.closePrice,
                                   !.pc = IF r.winner = Bot THEN "record" ELSE "call"]
    BY <1>4 DEF WorkPrice
  <2>2. worker'.pc = (IF worker'.winner = Bot THEN "record" ELSE "call") /\ worker'.calls = 0
    BY <1>4, <2>1 DEF WorkPrice, Working
  <2> QED
    BY <2>2
<1>5. CASE WorkCall
  <2>1. worker'.pc \in {"call", "record"} /\ worker'.winner = worker.winner /\ worker.winner # Bot
    BY <1>5 DEF WorkCall, Working
  <2>2. worker'.pc = "record" => worker'.calls = 2
    BY <1>5 DEF WorkCall, Working
  <2> QED
    BY <2>1, <2>2
<1>6. CASE WorkRecord
  BY <1>6 DEF WorkRecord, WorkTo, Working
<1>7. CASE WorkTell \/ WorkUndo \/ WorkUndoFails
  <2>1. worker'.pc \in {"end", "failing"}
    BY <1>7 DEF WorkTell, WorkUndo, WorkUndoFails, WorkTo
  <2> QED
    BY <2>1
<1>e. CASE WorkEnds
  BY <1>e, <1>2 DEF WorkEnds
<1>8. CASE WorkFails
  <2>1. CASE WorkTo("end") \/ WorkTo("failing")
    BY <2>1 DEF WorkTo
  <2>2. CASE (Working("record") \/ Working("call")) /\ worker.calls > 0 /\ WorkTo("undo")
    BY <2>2 DEF Working, WorkTo
  <2> QED
    BY <1>8, <2>1, <2>2 DEF WorkFails, Catch
<1>9. ASSUME NEW m \in Blesses, BlessStart(m) \/ BlessStep(m) PROVE WinnerPaid'
  BY <1>9, <1>1 DEF BlessStart, BlessStep, BlessBalance, BlessOpen, BlessLock, BlessSave,
     BlessAnnounce, BlessEnqueue, BlessFails, afterBless
<1>10. CASE UNCHANGED matchVars
  BY <1>10, <1>1 DEF matchVars
<1>11. CASE Crash
  BY <1>11, <1>2 DEF Crash, MatchCrash
<1> QED
  BY <1>3, <1>4, <1>5, <1>6, <1>7, <1>e, <1>8, <1>9, <1>10, <1>11 DEF Next, Work, WorkStep, vars

(* A job is taken up again only if nothing was paid. *)
LEMMA WaitsShrinks ==
    ASSUME IInv, WinnerPaid, [Next]_vars, NEW m \in Blesses, Waits(m)', Clean(PlayerOf[m])'
    PROVE  Waits(m)
<1> USE PlayersAre DEF IInv, TypeOK, MatchTypeOK, WorkerOK, MatchInv
<1>1. ASSUME UNCHANGED <<jobs, worker>> PROVE Waits(m)
  BY <1>1 DEF Waits
<1>2. ASSUME NEW b \in Blesses, BlessEnqueue(b) PROVE Waits(m)
  BY <1>2 DEF BlessEnqueue, Waits
<1>3. ASSUME NEW b \in Blesses, BlessStart(b) \/ BlessStep(b) PROVE Waits(m)
  BY <1>1, <1>2, <1>3 DEF BlessStart, BlessStep, BlessBalance, BlessOpen, BlessLock, BlessSave,
     BlessAnnounce, BlessFails, afterBless
<1>4. ASSUME NEW b \in Blesses, WorkStart(b) PROVE Waits(m)
  BY <1>4 DEF WorkStart, Dispatch, AtRest, Waits
<1>5. CASE WorkEnds
  <2>1. worker' = AtRest /\ worker.pc # "idle"
    BY <1>5 DEF WorkEnds
  <2>2. jobs'[worker.match] \in {"completed", "failed"}
        /\ \A b \in Blesses : b # worker.match => jobs'[b] = jobs[b]
    BY <1>5, <2>1 DEF WorkEnds
  <2> QED
    BY <2>1, <2>2, BlessesAssumption DEF AtRest, Waits
<1>6. ASSUME UNCHANGED jobs, worker'.match = worker.match,
             worker.pc \notin {"tell", "end", "failing"}
      PROVE  Waits(m)
  BY <1>6 DEF Waits
<1>p. CASE WorkPrice
  <2>1. PICK p \in Prices :
          LET r == determinePvPResult(worker.match, p) IN
          worker' = [worker EXCEPT !.winner = r.winner, !.closePrice = r.closePrice,
                                   !.pc = IF r.winner = Bot THEN "record" ELSE "call"]
    BY <1>p DEF WorkPrice
  <2>2. worker'.match = worker.match
    BY <2>1
  <2> QED
    BY <1>p, <1>6, <2>2 DEF WorkPrice, Working
<1>7. CASE WorkCall
  <2>1. worker'.match = worker.match /\ worker.pc = "call"
    BY <1>7 DEF WorkCall, Working
  <2> QED
    BY <1>7, <2>1, <1>6 DEF WorkCall
<1>r. CASE WorkRecord
  BY <1>r, <1>6 DEF WorkRecord, WorkTo, Working
<1>8. CASE WorkTell \/ WorkFails
  <2>1. UNCHANGED jobs /\ worker'.match = worker.match /\ worker'.calls = worker.calls
    BY <1>8 DEF WorkTell, WorkFails, Catch, WorkTo
  <2>2. worker.pc = "tell" => worker'.pc \in {"end", "failing"}
    BY <1>8 DEF WorkTell, WorkFails, WorkTo, Working
  <2>3. worker.pc \notin {"end", "failing"}
    BY <1>8 DEF WorkTell, WorkFails, Working
  <2> QED
    BY <2>1, <2>2, <2>3 DEF Waits
<1>u. CASE WorkUndo
  <2>1. UNCHANGED jobs /\ worker'.match = worker.match /\ worker.pc = "undo"
    BY <1>u DEF WorkUndo, Working
  <2> QED
    BY <2>1, <1>6
<1>v. CASE WorkUndoFails
  <2>1. UNCHANGED jobs /\ worker'.match = worker.match /\ worker.pc = "undo"
    BY <1>v DEF WorkUndoFails, WorkTo, Working
  <2> QED
    BY <2>1, <1>6
<1>9. CASE UNCHANGED matchVars
  BY <1>9, <1>1 DEF matchVars
<1>10. CASE Crash
  <2>1. worker' = AtRest
    BY <1>10 DEF Crash, MatchCrash
  <2>2. CASE worker.pc = "idle"
    BY <1>10, <2>1, <2>2, BlessesAssumption DEF Crash, MatchCrash, Working, AtRest, Waits
  <2>3. CASE worker.pc # "idle"
    <3>1. jobs' = [jobs EXCEPT ![worker.match] = IF worker.match \in stalled THEN "failed" ELSE "waiting"]
      BY <1>10, <2>3 DEF Crash, MatchCrash, Working
    <3>2. upset' = IF worker.calls > 0 THEN upset \cup {worker.match} ELSE upset
      BY <1>10, <2>3 DEF Crash, MatchCrash, Working
    <3>3. CASE worker.match # m
      BY <2>1, <3>1, <3>3, BlessesAssumption DEF AtRest, Waits
    <3>4. CASE worker.match = m
      <4>1. worker.calls = 0
        BY <3>2, <3>4 DEF Clean
      <4> QED
        BY <3>4, <4>1 DEF Waits
    <3> QED
      BY <3>3, <3>4
  <2> QED
    BY <2>2, <2>3
<1> QED
  BY <1>3, <1>4, <1>5, <1>p, <1>7, <1>r, <1>8, <1>u, <1>v, <1>9, <1>10 DEF Next, Work, WorkStep, vars

(* The room of a clean player's match is its own. *)
LEMMA OwnRoom ==
    ASSUME IInv, NEW m \in Saved, Clean(PlayerOf[m])
    PROVE  RoomOf(m) = m
<1>1. RoomOf(m) \in Saved /\ Fits(RoomOf(m), m)
  BY RoomOfFits DEF IInv, TypeOK
<1>2. Alone(m)
  BY PlayersAre DEF Clean
<1> QED
  BY <1>1, <1>2 DEF Alone, Fits

(* One step writes results (updateOne in handlePvPResultWithBot). *)
LEMMA OnlyRecordWrites ==
    ASSUME [Next]_vars
    PROVE  UNCHANGED result \/ WorkRecord
BY DEF Next, vars, matchVars, BlessStart, BlessStep, BlessBalance, BlessOpen, BlessLock, BlessSave,
   BlessAnnounce, BlessEnqueue, BlessFails, afterBless, Work, WorkStart, WorkStep, WorkPrice,
   WorkCall, WorkTell, WorkFails, WorkUndo, WorkUndoFails, WorkEnds, Crash, MatchCrash

(* What is recorded is the player's of the room, or the bot's. *)
LEMMA Recorded ==
    ASSUME IInv, WorkRecord
    PROVE  /\ result' = [result EXCEPT ![RoomOf(worker.match)] =
                            [winner |-> worker.winner, closePrice |-> worker.closePrice]]
           /\ worker.match \in Saved
           /\ RoomOf(worker.match) \in Saved /\ Fits(RoomOf(worker.match), worker.match)
           /\ worker.winner \in {Bot, PlayerOf[worker.match]}
           /\ worker'.match = worker.match /\ worker'.winner = worker.winner
           /\ worker.pc = "record" /\ worker'.pc = "tell" /\ worker'.calls = worker.calls
           /\ UNCHANGED <<jobs, wallet, bless, pvprooms, openPrice>> /\ Saved' = Saved
<1>1. worker.match \in Saved /\ worker.winner \in {Bot, PlayerOf[worker.match]}
  BY PlayersAre DEF WorkRecord, Working, Decided
<1>2. RoomOf(worker.match) \in Saved /\ Fits(RoomOf(worker.match), worker.match)
  BY <1>1, RoomOfFits DEF IInv, TypeOK
<1>3. /\ worker'.match = worker.match /\ worker'.winner = worker.winner
      /\ worker.pc = "record" /\ worker'.pc = "tell" /\ worker'.calls = worker.calls
  BY DEF WorkRecord, WorkTo, Working, IInv, TypeOK, MatchTypeOK
<1> QED
  BY <1>1, <1>2, <1>3 DEF WorkRecord, beforeJob, Saved

LEMMA NotYetWonStep ==
    ASSUME IInv, WinnerPaid, NotYetWon, [Next]_vars
    PROVE  NotYetWon'
<1> USE PlayersAre
<1>1. CASE UNCHANGED result
  <2>1. ASSUME NEW m \in Blesses, Waits(m)', Clean(PlayerOf[m])'
        PROVE  result'[m].winner # PlayerOf[m]
    BY <1>1, <2>1, WaitsShrinks, CleanShrinks DEF NotYetWon
  <2> QED
    BY <1>1, <2>1 DEF NotYetWon
<1>2. CASE WorkRecord
  <2> DEFINE r == RoomOf(worker.match)
  <2>1. /\ r \in Blesses /\ PlayerOf[r] = PlayerOf[worker.match]
        /\ result'[r].winner = worker.winner
        /\ \A m \in Blesses : m # r => result'[m] = result[m]
    BY <1>2, Recorded DEF Fits, IInv, TypeOK, MatchTypeOK
  <2>2. \A m \in Blesses : result'[m].winner \in {NoOne, Bot, PlayerOf[m]}
    BY <1>2, <2>1, Recorded DEF NotYetWon
  <2>3. ASSUME NEW m \in Blesses, Waits(m)', Clean(PlayerOf[m])'
        PROVE  result'[m].winner # PlayerOf[m]
    <3>1. Waits(m) /\ Clean(PlayerOf[m])
      BY <2>3, WaitsShrinks, CleanShrinks
    <3>2. CASE m # r
      BY <2>1, <3>1, <3>2 DEF NotYetWon
    <3>3. CASE m = r
      <4>1. r = worker.match
        BY <1>2, <2>1, <3>1, <3>3, Recorded, OwnRoom
      <4>2. jobs'[m] = "active"
        BY <1>2, <3>3, <4>1, Recorded DEF IInv, MatchInv
      <4>3. worker.winner = Bot
        BY <1>2, <2>3, <4>2, Recorded DEF Waits, WinnerPaid
      <4> QED
        BY <2>1, <3>3, <4>3
    <3> QED
      BY <3>2, <3>3
  <2> QED
    BY <2>2, <2>3 DEF NotYetWon
<1> QED
  BY <1>1, <1>2, OnlyRecordWrites


(* What the accounts are counted from is finite. *)
LEMMA FinitelyMany ==
    ASSUME IInv, BooksInv, NEW u \in Users
    PROVE  /\ IsFiniteSet(WonBy(u)) /\ Cardinality(WonBy(u)) \in Nat
           /\ IsFiniteSet(OpenedBy(u) \ WonBy(u)) /\ Cardinality(OpenedBy(u) \ WonBy(u)) \in Nat
           /\ IsFiniteSet(MovedTo(u)) /\ Cardinality(MovedTo(u)) \in Nat
           /\ IsFiniteSet(MovedBy(u)) /\ Cardinality(MovedBy(u)) \in Nat
           /\ WonBy(u) \subseteq OpenedBy(u)
<1>1. OpenedBy(u) \subseteq Opened /\ WonBy(u) \subseteq Opened
  BY DEF OpenedBy, WonBy, Opened
<1>2. MovedTo(u) \subseteq moved /\ MovedBy(u) \subseteq moved
  BY DEF MovedTo, MovedBy
<1>3. WonBy(u) \subseteq OpenedBy(u)
  BY PlayersAre DEF WonBy, OpenedBy, BooksInv, NotYetWon
<1>4. (OpenedBy(u) \ WonBy(u)) \subseteq Opened
  BY <1>1
<1>5. IsFiniteSet(Opened) /\ IsFiniteSet(moved)
  BY DEF BooksInv
<1> QED
  BY <1>1, <1>2, <1>3, <1>4, <1>5, FS_Subset, FS_CardinalityType

(* Nothing of u changes. *)
Still(u) ==
    /\ wallet'[u] = wallet[u]
    /\ WonBy(u)' = WonBy(u) /\ OpenedBy(u)' = OpenedBy(u)
    /\ MovedTo(u)' = MovedTo(u) /\ MovedBy(u)' = MovedBy(u)
    /\ PrizeOf(u)' = PrizeOf(u) /\ FreedOf(u)' = FreedOf(u)

(* An account that nothing touched is as its book says. *)
LEMMA StillBook ==
    ASSUME NEW u, Book(u), Still(u)
    PROVE  Book(u)'
BY DEF Book, Still

(* A match that is saved, or could not be, was open before. *)
LEMMA OpenedStays ==
    ASSUME IInv, (\E m \in Blesses : (BlessStart(m) \/ BlessStep(m)) /\ ~BlessLock(m)) \/ Crash
    PROVE  Opened' = Opened /\ \A u : OpenedBy(u)' = OpenedBy(u)
<1> USE PlayersAre DEF IInv, TypeOK, MatchTypeOK
<1>a. SUFFICES Opened' = Opened
  BY DEF Opened, OpenedBy
<1>1. ASSUME UNCHANGED pvprooms,
             \A b \in Blesses : bless'[b] \in {"save", "unsaved"} <=> bless[b] \in {"save", "unsaved"}
      PROVE  Opened' = Opened
  BY <1>1 DEF Opened, Saved
<1>2. ASSUME NEW m \in Blesses, BlessSave(m) PROVE Opened' = Opened
  <2>1. Saved' = Saved \cup {m}
    BY <1>2, RoomAppended DEF BlessSave
  <2> QED
    BY <1>2, <2>1 DEF BlessSave, BlessTo, Opened
<1>3. ASSUME NEW m \in Blesses, BlessStart(m) \/ BlessBalance(m) \/ BlessOpen(m)
      PROVE  Opened' = Opened
  BY <1>1, <1>3 DEF BlessStart, BlessBalance, BlessOpen, BlessTo
<1>4. ASSUME NEW m \in Blesses, BlessAnnounce(m) \/ BlessEnqueue(m) PROVE Opened' = Opened
  BY <1>1, <1>4 DEF BlessAnnounce, BlessEnqueue, BlessTo
<1>5. ASSUME NEW m \in Blesses, BlessFails(m) PROVE Opened' = Opened
  BY <1>1, <1>5 DEF BlessFails, BlessTo, Dropped
<1>6. CASE Crash
  BY <1>1, <1>6 DEF Crash, MatchCrash, Dropped
<1> QED
  BY <1>2, <1>3, <1>4, <1>5, <1>6 DEF BlessStep

(* Of the commands only the one that locks a margin opens a match. *)
LEMMA Opens ==
    ASSUME IInv, BooksInv, NEW m \in Blesses, BlessStart(m) \/ BlessStep(m), ~BlessLock(m),
           NEW u \in Users, Clean(u)
    PROVE  OpenedBy(u)' = OpenedBy(u) /\ WonBy(u)' = WonBy(u)
<1> USE PlayersAre DEF IInv, TypeOK, MatchTypeOK, MatchInv
<1>1. OpenedBy(u)' = OpenedBy(u)
  BY OpenedStays
<1>2. CASE BlessSave(m)
  <2>1. Saved' = Saved \cup {m}
    BY <1>2, RoomAppended DEF BlessSave
  <2>2. UNCHANGED <<result, jobs>> /\ bless[m] = "save"
    BY <1>2 DEF BlessSave, afterBless
  <2>3. PlayerOf[m] = u => result[m].winner # u
    <3>1. Waits(m)
      BY <2>2 DEF Waits
    <3>2. Clean(PlayerOf[m]) => result[m].winner # PlayerOf[m]
      <4> HIDE DEF IInv, TypeOK, MatchTypeOK, MatchInv
      <4> QED
        BY <3>1 DEF BooksInv, NotYetWon
    <3> QED
      BY <3>2
  <2>4. result[m].winner # u
    BY <2>3 DEF BooksInv, NotYetWon
  <2> QED
    BY <1>1, <2>1, <2>2, <2>4 DEF WonBy
<1>3. CASE ~BlessSave(m)
  <2>1. UNCHANGED <<pvprooms, result>>
    BY <1>3 DEF BlessStart, BlessStep, BlessBalance, BlessOpen, BlessAnnounce, BlessEnqueue,
       BlessFails, afterBless
  <2> QED
    BY <1>1, <2>1 DEF WonBy, Saved
<1> QED
  BY <1>2, <1>3

(* A command leaves settlements and tips alone. *)
LEMMA CommandsKeep ==
    ASSUME NEW m \in Blesses, BlessStart(m) \/ BlessStep(m), UNCHANGED tipVars
    PROVE  /\ UNCHANGED <<worker, result, upset, moved, message>>
           /\ ~BlessLock(m) => UNCHANGED wallet
           /\ \A u : MovedTo(u)' = MovedTo(u) /\ MovedBy(u)' = MovedBy(u)
           /\ \A u : PrizeOf(u)' = PrizeOf(u) /\ FreedOf(u)' = FreedOf(u)
<1>1. UNCHANGED <<worker, result, upset, moved, message>>
  BY DEF BlessStart, BlessStep, BlessBalance, BlessOpen, BlessLock, BlessSave, BlessAnnounce,
     BlessEnqueue, BlessFails, afterBless, tipVars
<1>2. ~BlessLock(m) => UNCHANGED wallet
  BY DEF BlessStart, BlessStep, BlessBalance, BlessOpen, BlessSave, BlessAnnounce, BlessEnqueue,
     BlessFails
<1> QED
  BY <1>1, <1>2 DEF MovedTo, MovedBy, PrizeOf, FreedOf, Pays

(* A margin is locked for a match that is not open yet. *)
LEMMA LockOpens ==
    ASSUME IInv, BooksInv, NEW m \in Blesses, BlessLock(m), UNCHANGED tipVars
    PROVE  /\ Opened' = Opened \cup {m}
           /\ \A u \in Users : Clean(u) => Book(u)'
<1> USE PlayersAre DEF IInv, TypeOK, MatchTypeOK, StateTypeOK, MatchInv
<1>1. /\ UNCHANGED <<pvprooms, result>> /\ bless[m] = "lock"
      /\ bless' = [bless EXCEPT ![m] = "save"]
      /\ wallet' = [wallet EXCEPT ![PlayerOf[m]] = ChangeLocked(@, amount)]
  BY DEF BlessLock, BlessTo, afterBless
<1>2. Saved' = Saved /\ m \notin Saved
  <2>1. m \notin Saved
    BY <1>1
  <2> QED
    BY <1>1, <2>1 DEF Saved
<1>3. Opened' = Opened \cup {m}
  BY <1>1, <1>2 DEF Opened
<1>4. ASSUME NEW u \in Users, Clean(u), PlayerOf[m] = u PROVE Book(u)'
  <2>1. WonBy(u)' = WonBy(u) /\ m \notin WonBy(u)
    BY <1>1, <1>2 DEF WonBy
  <2>2. OpenedBy(u)' = OpenedBy(u) \cup {m} /\ m \notin OpenedBy(u)
    BY <1>1, <1>2, <1>4 DEF OpenedBy
  <2>3. (OpenedBy(u) \ WonBy(u))' = (OpenedBy(u) \ WonBy(u)) \cup {m}
    BY <2>1, <2>2
  <2>4. Cardinality((OpenedBy(u) \ WonBy(u))') = Cardinality(OpenedBy(u) \ WonBy(u)) + 1
    BY <2>2, <2>3, FinitelyMany, FS_AddElement
  <2>5. wallet'[u].balance = wallet[u].balance /\ wallet'[u].locked = wallet[u].locked + 10
    BY <1>1, <1>4 DEF ChangeLocked, Account, amount
  <2>6. Book(u) /\ FreedOf(u) \in {0, 1} /\ Cardinality(OpenedBy(u) \ WonBy(u)) \in Nat
    BY <1>4, FinitelyMany DEF BooksInv, FreedOf
  <2>7. /\ MovedTo(u)' = MovedTo(u) /\ MovedBy(u)' = MovedBy(u)
        /\ PrizeOf(u)' = PrizeOf(u) /\ FreedOf(u)' = FreedOf(u)
    BY CommandsKeep DEF BlessStep
  <2>8. wallet'[u].balance = InitBalance
           + 9 * (Cardinality(WonBy(u)') + PrizeOf(u)')
           + 5 * (Cardinality(MovedTo(u)') - Cardinality(MovedBy(u)'))
    BY <2>1, <2>5, <2>6, <2>7 DEF Book
  <2>9. wallet'[u].locked = 10 * (Cardinality((OpenedBy(u) \ WonBy(u))') - FreedOf(u)')
    <3> DEFINE c == Cardinality(OpenedBy(u) \ WonBy(u))
               d == Cardinality((OpenedBy(u) \ WonBy(u))')
               f == FreedOf(u)
    <3>1. wallet[u].locked = 10 * (c - f) /\ c \in Nat /\ f \in {0, 1} /\ d = c + 1
      BY <2>4, <2>6 DEF Book
    <3>2. wallet'[u].locked = wallet[u].locked + 10 /\ FreedOf(u)' = f
      BY <2>5, <2>7
    <3> HIDE DEF c, d, f
    <3>3. wallet'[u].locked = 10 * (d - f)
      BY <3>1, <3>2
    <3> QED
      BY <3>2, <3>3 DEF d, f
  <2> QED
    BY <2>8, <2>9 DEF Book
<1>5. ASSUME NEW u \in Users, Clean(u), PlayerOf[m] # u PROVE Book(u)'
  <2>1. WonBy(u)' = WonBy(u)
    BY <1>1, <1>2 DEF WonBy
  <2>2. OpenedBy(u)' = OpenedBy(u)
    BY <1>1, <1>2, <1>5 DEF OpenedBy
  <2>3. wallet'[u] = wallet[u]
    BY <1>1, <1>5
  <2> QED
    BY <1>5, <2>1, <2>2, <2>3, CommandsKeep, StillBook DEF Still, BooksInv, BlessStep
<1> QED
  BY <1>3, <1>4, <1>5


(* The worker's steps that pay or take nothing. *)
LEMMA WorkKeeps ==
    ASSUME IInv, BooksInv, Work, UNCHANGED tipVars, ~WorkCall, ~WorkRecord, ~WorkUndo,
           NEW u \in Users, Clean(u)'
    PROVE  Still(u) /\ Opened' = Opened
<1> USE PlayersAre DEF IInv, TypeOK, MatchTypeOK, WorkerOK
<1>1. UNCHANGED <<wallet, bless, pvprooms, result, moved, message>>
  BY DEF Work, WorkStart, WorkStep, WorkPrice, WorkTell, WorkFails, WorkUndoFails, WorkEnds,
     beforeJob, tipVars
<1>2. Opened' = Opened /\ Saved' = Saved
  BY <1>1 DEF Opened, Saved
<1>3. /\ WonBy(u)' = WonBy(u) /\ OpenedBy(u)' = OpenedBy(u)
      /\ MovedTo(u)' = MovedTo(u) /\ MovedBy(u)' = MovedBy(u)
  BY <1>1, <1>2 DEF WonBy, OpenedBy, MovedTo, MovedBy
<1>4. PrizeOf(u)' = PrizeOf(u) /\ FreedOf(u)' = FreedOf(u)
  <2> DEFINE Goal == PrizeOf(u)' = PrizeOf(u) /\ FreedOf(u)' = FreedOf(u)
  <2>a. ~Pays(u) \/ worker.calls = 0 => PrizeOf(u) = 0 /\ FreedOf(u) = 0
    BY DEF PrizeOf, FreedOf
  <2>b. ~Pays(u)' \/ worker'.calls = 0 => PrizeOf(u)' = 0 /\ FreedOf(u)' = 0
    BY DEF PrizeOf, FreedOf
  <2>1. ASSUME NEW m \in Blesses, WorkStart(m) PROVE Goal
    <3>1. ~Pays(u) /\ ~Pays(u)'
      BY <2>1 DEF WorkStart, Dispatch, AtRest, Working, Pays
    <3> QED
      BY <3>1, <2>a, <2>b
  <2>2. CASE WorkPrice
    <3>1. PICK p \in Prices :
            LET r == determinePvPResult(worker.match, p) IN
            worker' = [worker EXCEPT !.winner = r.winner, !.closePrice = r.closePrice,
                                     !.pc = IF r.winner = Bot THEN "record" ELSE "call"]
      BY <2>2 DEF WorkPrice
    <3>2. worker.calls = 0 /\ worker'.calls = 0
      BY <2>2, <3>1 DEF WorkPrice, Working
    <3> QED
      BY <3>2, <2>a, <2>b
  <2>3. CASE WorkTell
    <3>1. ~Pays(u) /\ ~Pays(u)'
      BY <2>3 DEF WorkTell, WorkTo, Working, Pays
    <3> QED
      BY <3>1, <2>a, <2>b
  <2>4. CASE WorkFails
    <3>1. CASE worker.calls > 0 /\ WorkTo("undo") /\ (Working("record") \/ Working("call"))
      <4>1. /\ worker'.calls = worker.calls /\ worker'.winner = worker.winner
            /\ worker.pc \in {"record", "call"} /\ worker'.pc = "undo"
        BY <3>1 DEF WorkTo, Working
      <4>2. Pays(u)' = Pays(u)
        BY <4>1 DEF Pays
      <4> QED
        BY <4>1, <4>2 DEF PrizeOf, FreedOf
    <3>2. CASE /\ WorkTo("end") \/ WorkTo("failing")
               /\ worker.calls = 0 \/ worker.pc \in {"price", "tell"}
      <4>1. ~Pays(u)' /\ (~Pays(u) \/ worker.calls = 0)
        BY <3>2 DEF Pays, WorkTo
      <4> QED
        BY <4>1, <2>a, <2>b
    <3> QED
      BY <2>4, <3>1, <3>2 DEF WorkFails, Catch, Working
  <2>5. CASE WorkUndoFails
    <3>1. worker'.pc = "failing" /\ worker.match \in upset' /\ worker.pc = "undo"
      BY <2>5 DEF WorkUndoFails, WorkTo, Working
    <3>2. PlayerOf[worker.match] # u
      BY <3>1 DEF Clean
    <3>3. ~Pays(u) /\ ~Pays(u)'
      BY <3>1, <3>2 DEF Pays, Decided
    <3> QED
      BY <3>3, <2>a, <2>b
  <2>6. CASE WorkEnds
    <3>1. ~Pays(u) /\ ~Pays(u)'
      BY <2>6 DEF WorkEnds, AtRest, Pays
    <3> QED
      BY <3>1, <2>a, <2>b
  <2> QED
    BY <2>1, <2>2, <2>3, <2>4, <2>5, <2>6 DEF Work, WorkStep
<1> QED
  BY <1>1, <1>2, <1>3, <1>4 DEF Still

(* A call, and what takes all calls back, changes the worker's account by  *)
(* what the worker then holds.                                             *)
LEMMA CallBooks ==
    ASSUME IInv, BooksInv, WorkCall \/ WorkUndo, UNCHANGED tipVars, NEW u \in Users, Clean(u)
    PROVE  Book(u)' /\ Opened' = Opened
<1> USE PlayersAre DEF IInv, TypeOK, MatchTypeOK, StateTypeOK, WorkerOK
<1>1. UNCHANGED <<bless, pvprooms, result, moved, message>>
  BY DEF WorkCall, WorkUndo, beforeJob, tipVars
<1>2. Opened' = Opened /\ Saved' = Saved
  BY <1>1 DEF Opened, Saved
<1>3. /\ WonBy(u)' = WonBy(u) /\ OpenedBy(u)' = OpenedBy(u)
      /\ MovedTo(u)' = MovedTo(u) /\ MovedBy(u)' = MovedBy(u)
  BY <1>1, <1>2 DEF WonBy, OpenedBy, MovedTo, MovedBy
<1>4. PICK i \in Int : i = wallet[u].balance
  BY DEF Account
<1>5. PICK k \in Int : k = wallet[u].locked
  BY DEF Account
<1>6. amount = 10 /\ totalPrize - amount = 9
  BY DEF amount, totalPrize
<1>7. /\ wallet'[u].balance - 9 * PrizeOf(u)' = i - 9 * PrizeOf(u)
      /\ wallet'[u].locked + 10 * FreedOf(u)' = k + 10 * FreedOf(u)
      /\ wallet'[u].balance \in Int /\ wallet'[u].locked \in Int
  <2> DEFINE Goal == /\ wallet'[u].balance - 9 * PrizeOf(u)' = i - 9 * PrizeOf(u)
                     /\ wallet'[u].locked + 10 * FreedOf(u)' = k + 10 * FreedOf(u)
                     /\ wallet'[u].balance \in Int /\ wallet'[u].locked \in Int
  <2>1. worker.winner \in Users /\ worker.calls \in 0..2
    BY DEF WorkCall, WorkUndo, Working, Decided, BooksInv, WinnerPaid
  <2>2. CASE worker.winner # u
    <3>1. wallet'[u] = wallet[u]
      BY <2>1, <2>2 DEF WorkCall, WorkUndo
    <3>2. worker'.winner = worker.winner
      BY DEF WorkCall, WorkUndo
    <3>3. ~Pays(u) /\ ~Pays(u)'
      BY <2>2, <3>2 DEF Pays
    <3> QED
      BY <3>1, <3>3, <1>4, <1>5 DEF PrizeOf, FreedOf
  <2>3. CASE worker.winner = u /\ WorkCall
    <3>1. /\ worker.pc = "call" /\ worker.calls \in {0, 1}
          /\ wallet' = [wallet EXCEPT ![u] = Changed(@, worker.calls + 1)]
      BY <2>3 DEF WorkCall, Working
    <3>2. /\ worker'.calls = worker.calls + 1 /\ worker'.winner = u
          /\ worker'.pc \in {"call", "record"}
      BY <2>3, <3>1 DEF WorkCall
    <3>3. Pays(u) /\ Pays(u)'
      BY <2>3, <3>1, <3>2 DEF Pays
    <3>4. CASE worker.calls = 0
      <4>1. wallet'[u] = [wallet[u] EXCEPT !.locked = @ + (-10)]
        BY <3>1, <3>4, <1>6 DEF Changed, ChangeLocked
      <4>2. wallet'[u].balance = i /\ wallet'[u].locked = k - 10
        BY <4>1, <1>4, <1>5 DEF Account
      <4>3. PrizeOf(u) = 0 /\ PrizeOf(u)' = 0 /\ FreedOf(u) = 0 /\ FreedOf(u)' = 1
        BY <3>2, <3>3, <3>4 DEF PrizeOf, FreedOf
      <4> QED
        BY <4>2, <4>3
    <3>5. CASE worker.calls = 1
      <4>1. wallet'[u] = [wallet[u] EXCEPT !.balance = @ + 9]
        BY <3>1, <3>5, <1>6 DEF Changed, ChangeBalance
      <4>2. wallet'[u].balance = i + 9 /\ wallet'[u].locked = k
        BY <4>1, <1>4, <1>5 DEF Account
      <4>3. PrizeOf(u) = 0 /\ PrizeOf(u)' = 1 /\ FreedOf(u) = 1 /\ FreedOf(u)' = 1
        BY <3>2, <3>3, <3>5 DEF PrizeOf, FreedOf
      <4> QED
        BY <4>2, <4>3
    <3> QED
      BY <3>1, <3>4, <3>5
  <2>4. CASE worker.winner = u /\ WorkUndo
    <3>1. /\ worker.pc = "undo" /\ worker.calls \in {1, 2} /\ worker'.pc = "end"
      BY <2>4 DEF WorkUndo, Working, BooksInv, WinnerPaid
    <3>2. Pays(u) /\ ~Pays(u)'
      BY <2>4, <3>1 DEF Pays
    <3>3. /\ wallet'[u].balance = (IF worker.calls = 2 THEN i - 9 ELSE i)
          /\ wallet'[u].locked = k + 10
      BY <2>1, <2>4, <1>4, <1>5, <1>6 DEF WorkUndo
    <3>4. /\ PrizeOf(u) = (IF worker.calls = 2 THEN 1 ELSE 0) /\ FreedOf(u) = 1
          /\ PrizeOf(u)' = 0 /\ FreedOf(u)' = 0
      BY <3>1, <3>2 DEF PrizeOf, FreedOf
    <3> QED
      BY <3>1, <3>3, <3>4
  <2> QED
    BY <2>2, <2>3, <2>4
<1> DEFINE w == Cardinality(WonBy(u))
           o == Cardinality(OpenedBy(u) \ WonBy(u))
           t == Cardinality(MovedTo(u)) - Cardinality(MovedBy(u))
<1>8. w \in Int /\ o \in Int /\ t \in Int /\ InitBalance \in Int
  <2>1. w \in Nat /\ o \in Nat /\ Cardinality(MovedTo(u)) \in Nat /\ Cardinality(MovedBy(u)) \in Nat
    BY FinitelyMany
  <2> QED
    BY <2>1, BotStateAssumption
<1>9. /\ PrizeOf(u) \in {0, 1} /\ FreedOf(u) \in {0, 1}
      /\ PrizeOf(u)' \in {0, 1} /\ FreedOf(u)' \in {0, 1}
  BY DEF PrizeOf, FreedOf
<1>10. i = InitBalance + 9 * (w + PrizeOf(u)) + 5 * t /\ k = 10 * (o - FreedOf(u))
  BY <1>4, <1>5 DEF BooksInv, Book
<1>11. /\ w' = w /\ t' = t /\ o' = o
  BY <1>3
<1>12. /\ wallet'[u].balance = InitBalance + 9 * (w + PrizeOf(u)') + 5 * t
       /\ wallet'[u].locked = 10 * (o - FreedOf(u)')
  <2>p. PICK p \in Int : p = PrizeOf(u)
    BY <1>9
  <2>f. PICK f \in Int : f = FreedOf(u)
    BY <1>9
  <2>q. PICK q \in Int : q = PrizeOf(u)'
    BY <1>9
  <2>g. PICK g \in Int : g = FreedOf(u)'
    BY <1>9
  <2>1. p = PrizeOf(u) /\ f = FreedOf(u) /\ q = PrizeOf(u)' /\ g = FreedOf(u)'
    BY <2>p, <2>f, <2>q, <2>g
  <2>2. PICK x \in Int, y \in Int : x = wallet'[u].balance /\ y = wallet'[u].locked
    BY <1>7
  <2> HIDE DEF w, o, t
  <2>3. x - 9 * q = i - 9 * p /\ y + 10 * g = k + 10 * f
    BY <1>7, <2>1, <2>2
  <2>4. i = InitBalance + 9 * (w + p) + 5 * t /\ k = 10 * (o - f)
    BY <1>10, <2>1
  <2>5. x = InitBalance + 9 * (w + q) + 5 * t /\ y = 10 * (o - g)
    BY <1>8, <2>3, <2>4
  <2> QED
    BY <2>1, <2>2, <2>5
<1> QED
  BY <1>2, <1>11, <1>12 DEF Book


(* The room says what the worker held, so that the worker need not. *)
LEMMA RecordBooks ==
    ASSUME IInv, BooksInv, WorkRecord, UNCHANGED tipVars, NEW u \in Users, Clean(u)
    PROVE  Book(u)' /\ Opened' = Opened
<1> DEFINE b == worker.match
           r == RoomOf(b)
<1> USE PlayersAre
<1>1. /\ r \in Saved /\ r \in Blesses /\ b \in Saved /\ b \in Blesses
      /\ PlayerOf[r] = PlayerOf[b]
      /\ result'[r].winner = worker.winner
      /\ \A m \in Blesses : m # r => result'[m] = result[m]
  BY Recorded DEF Fits, IInv, TypeOK, MatchTypeOK
<1>2. /\ worker.pc = "record" /\ worker'.pc = "tell"
      /\ worker.calls = (IF worker.winner = Bot THEN 0 ELSE 2)
      /\ worker.winner \in {Bot, PlayerOf[b]}
  BY Recorded DEF BooksInv, WinnerPaid
<1>3. /\ Saved' = Saved /\ Opened' = Opened /\ wallet' = wallet
      /\ OpenedBy(u)' = OpenedBy(u) /\ MovedTo(u)' = MovedTo(u) /\ MovedBy(u)' = MovedBy(u)
  BY Recorded DEF Opened, OpenedBy, MovedTo, MovedBy, tipVars
<1>4. PrizeOf(u)' = 0 /\ FreedOf(u)' = 0
  BY <1>2 DEF PrizeOf, FreedOf, Pays
<1>5. WonBy(u)' = {m \in Saved : result'[m].winner = u}
  BY <1>3 DEF WonBy
<1> HIDE DEF r, b
<1>6. ASSUME worker.winner # u, result[r].winner # u PROVE Book(u)'
  <2>1. WonBy(u)' = WonBy(u)
    BY <1>1, <1>5, <1>6 DEF WonBy
  <2>2. PrizeOf(u) = 0 /\ FreedOf(u) = 0
    BY <1>6 DEF PrizeOf, FreedOf, Pays
  <2> QED
    BY <1>3, <1>4, <2>1, <2>2, StillBook DEF Still, BooksInv
<1>7. CASE PlayerOf[b] # u
  <2>1. result[r].winner # u /\ worker.winner # u
    BY <1>1, <1>2, <1>7 DEF BooksInv, NotYetWon
  <2> QED
    BY <1>3, <1>6, <2>1
<1>8. CASE PlayerOf[b] = u
  <2>1. r = b
    BY <1>1, <1>8, OwnRoom DEF r, b
  <2>2. Waits(b)
    BY <1>2 DEF Waits, b
  <2>3. result[r].winner # u
    BY <1>1, <1>8, <2>1, <2>2 DEF BooksInv, NotYetWon
  <2>4. CASE worker.winner = Bot
    BY <1>3, <1>6, <2>3, <2>4
  <2>5. CASE worker.winner = u
    <3>1. WonBy(u)' = WonBy(u) \cup {r} /\ r \notin WonBy(u)
      BY <1>1, <1>5, <2>3, <2>5 DEF WonBy
    <3>2. r \in OpenedBy(u) \ WonBy(u)
      BY <1>1, <1>8, <3>1 DEF OpenedBy
    <3>3. (OpenedBy(u) \ WonBy(u))' = (OpenedBy(u) \ WonBy(u)) \ {r}
      BY <1>3, <3>1
    <3>4. PrizeOf(u) = 1 /\ FreedOf(u) = 1
      BY <1>2, <2>5 DEF PrizeOf, FreedOf, Pays
    <3> DEFINE w == Cardinality(WonBy(u))
               o == Cardinality(OpenedBy(u) \ WonBy(u))
               v == Cardinality(WonBy(u)')
               q == Cardinality((OpenedBy(u) \ WonBy(u))')
               t == Cardinality(MovedTo(u)) - Cardinality(MovedBy(u))
    <3>5. v = w + 1 /\ w \in Nat
      BY <3>1, FinitelyMany, FS_AddElement
    <3>6. q = o - 1 /\ o \in Nat
      <4> DEFINE S == OpenedBy(u) \ WonBy(u)
      <4>1. IsFiniteSet(S) /\ Cardinality(S) \in Nat
        BY FinitelyMany
      <4>2. r \in S
        BY <3>2
      <4> HIDE DEF S
      <4>3. Cardinality(S \ {r}) = Cardinality(S) - 1
        BY <4>1, <4>2, FS_RemoveElement
      <4> QED
        BY <3>3, <4>1, <4>3 DEF S
    <3>7. wallet[u].balance = InitBalance + 9 * (w + 1) + 5 * t /\ wallet[u].locked = 10 * (o - 1)
      BY <3>4 DEF BooksInv, Book
    <3>8. wallet'[u].balance = InitBalance + 9 * (v + 0) + 5 * t' /\ wallet'[u].locked = 10 * (q - 0)
      <4>1. t' = t
        BY <1>3
      <4> HIDE DEF w, o, v, q, t
      <4> QED
        BY <1>3, <3>5, <3>6, <3>7, <4>1
    <3>9. Book(u)'
      BY <1>4, <3>8 DEF Book
    <3> QED
      BY <1>3, <3>9
  <2> QED
    BY <1>2, <1>8, <2>4, <2>5
<1> QED
  BY <1>7, <1>8

(* A crash moves no money of players it leaves clean. *)
LEMMA CrashKeeps ==
    ASSUME IInv, BooksInv, Crash, NEW u \in Users, Clean(u)'
    PROVE  Still(u)
<1> USE PlayersAre DEF IInv, TypeOK, MatchTypeOK
<1>1. UNCHANGED <<wallet, pvprooms, result, moved, message>> /\ worker' = AtRest
  BY DEF Crash, MatchCrash, TipCrash, ledgers
<1>5. /\ WonBy(u)' = WonBy(u) /\ OpenedBy(u)' = OpenedBy(u)
      /\ MovedTo(u)' = MovedTo(u) /\ MovedBy(u)' = MovedBy(u)
  BY <1>1, OpenedStays DEF WonBy, Saved, MovedTo, MovedBy
<1>6. PrizeOf(u)' = 0 /\ FreedOf(u)' = 0
  BY <1>1 DEF PrizeOf, FreedOf, Pays, AtRest
<1>7. ASSUME Pays(u), worker.calls > 0 PROVE FALSE
  <2>1. worker.pc # "idle" /\ PlayerOf[worker.match] = u
    BY <1>7 DEF Pays, Decided
  <2>2. worker.match \in upset'
    BY <1>7, <2>1 DEF Crash, MatchCrash, Working
  <2> QED
    BY <2>1, <2>2 DEF Clean
<1>8. PrizeOf(u) = 0 /\ FreedOf(u) = 0
  BY <1>7 DEF PrizeOf, FreedOf
<1> QED
  BY <1>1, <1>5, <1>6, <1>8 DEF Still

LEMMA OneMore ==
    ASSUME NEW S, IsFiniteSet(S), Cardinality(S) \in Nat, NEW x, x \notin S, NEW c
    PROVE  Cardinality(IF c THEN S \cup {x} ELSE S) = Cardinality(S) + (IF c THEN 1 ELSE 0)
<1>1. Cardinality(S \cup {x}) = Cardinality(S) + 1
  BY FS_AddElement
<1> QED
  BY <1>1

(* A tip is entered where its money moves. *)
LEMMA TipBooks ==
    ASSUME IInv, BooksInv, NEW t \in Tips, TipStep(t), UNCHANGED matchVars
    PROVE  /\ IsFiniteSet(moved') /\ Opened' = Opened
           /\ \A u \in Users : Clean(u) => Book(u)'
<1> USE DEF IInv, TypeOK, StateTypeOK, TipTypeOK
<1>1. /\ Opened' = Opened
      /\ \A u : WonBy(u)' = WonBy(u) /\ OpenedBy(u)' = OpenedBy(u)
      /\ \A u : PrizeOf(u)' = PrizeOf(u) /\ FreedOf(u)' = FreedOf(u)
  BY DEF matchVars, Opened, Saved, WonBy, OpenedBy, PrizeOf, FreedOf, Pays
<1>2. ASSUME UNCHANGED <<wallet, moved>>, \A s \in moved : message'[s] = message[s]
      PROVE  /\ IsFiniteSet(moved')
             /\ \A u \in Users : Clean(u) => Book(u)'
  <2>1. \A u : MovedTo(u)' = MovedTo(u) /\ MovedBy(u)' = MovedBy(u)
    BY <1>2 DEF MovedTo, MovedBy
  <2> QED
    BY <1>1, <1>2, <2>1, StillBook DEF Still, BooksInv
<1>3. CASE TipStart(t)
  <2>1. t \notin moved
    BY <1>3 DEF TipStart, TipInv, Unsent
  <2>2. \A s \in moved : message'[s] = message[s]
    BY <1>3, <2>1 DEF TipStart
  <2> QED
    BY <1>1, <1>2, <1>3, <2>2 DEF TipStart, ledgers
<1>4. CASE TipFind(t) \/ TipCheck(t) \/ TipRecord(t) \/ TipFails(t) \/ TipNotify(t)
  BY <1>1, <1>2, <1>4 DEF TipFind, TipCheck, TipRecord, TipFails, TipNotify, ledgers
<1>5. ASSUME TipTransfer(t), UNCHANGED <<wallet, moved>>
      PROVE  /\ IsFiniteSet(moved') /\ Opened' = Opened
             /\ \A u \in Users : Clean(u) => Book(u)'
  BY <1>1, <1>2, <1>5 DEF TipTransfer
<1>6. ASSUME TipTransfer(t), ~UNCHANGED <<wallet, moved>>
      PROVE  /\ IsFiniteSet(moved') /\ Opened' = Opened
             /\ \A u \in Users : Clean(u) => Book(u)'
  <2> DEFINE s == SenderOf[t]
             r == message[t].to
  <2>1. /\ wallet' = Transferred(wallet, s, r, tipAmount)
        /\ moved' = moved \cup {t} /\ UNCHANGED message
        /\ tip[t] = "transfer"
    BY <1>6 DEF TipTransfer
  <2>2. t \notin moved
    BY <2>1 DEF TipInv, Unsent
  <2>3. IsFiniteSet(moved')
    BY <2>1, FS_AddElement DEF BooksInv
  <2>4. ASSUME NEW u \in Users, Clean(u) PROVE Book(u)'
    <3> DEFINE to == IF u = r THEN 1 ELSE 0
               by == IF u = s THEN 1 ELSE 0
    <3>1. /\ wallet'[u].balance = wallet[u].balance + 5 * (to - by)
          /\ wallet'[u].locked = wallet[u].locked
      <4>1. wallet'[u] = ChangeBalance(wallet[u], (IF u = r THEN 5 ELSE 0) - (IF u = s THEN 5 ELSE 0))
        BY <2>1 DEF Transferred, tipAmount
      <4>2. (IF u = r THEN 5 ELSE 0) - (IF u = s THEN 5 ELSE 0) = 5 * (to - by)
        OBVIOUS
      <4> QED
        BY <4>1, <4>2 DEF ChangeBalance, Account
    <3>2. Cardinality(MovedTo(u)') = Cardinality(MovedTo(u)) + to
      <4>1. MovedTo(u)' = (IF u = r THEN MovedTo(u) \cup {t} ELSE MovedTo(u)) /\ t \notin MovedTo(u)
        BY <2>1, <2>2 DEF MovedTo
      <4>2. IsFiniteSet(MovedTo(u)) /\ Cardinality(MovedTo(u)) \in Nat
        BY FinitelyMany
      <4> QED
        BY <4>1, <4>2, OneMore
    <3>3. Cardinality(MovedBy(u)') = Cardinality(MovedBy(u)) + by
      <4>1. MovedBy(u)' = (IF u = s THEN MovedBy(u) \cup {t} ELSE MovedBy(u)) /\ t \notin MovedBy(u)
        BY <2>1, <2>2 DEF MovedBy
      <4>2. IsFiniteSet(MovedBy(u)) /\ Cardinality(MovedBy(u)) \in Nat
        BY FinitelyMany
      <4> QED
        BY <4>1, <4>2, OneMore
    <3>4. /\ Cardinality(MovedTo(u)) \in Nat /\ Cardinality(MovedBy(u)) \in Nat
          /\ to \in Nat /\ by \in Nat
      BY FinitelyMany
    <3> DEFINE base == InitBalance + 9 * (Cardinality(WonBy(u)) + PrizeOf(u))
               x == Cardinality(MovedTo(u))
               y == Cardinality(MovedBy(u))
               x1 == Cardinality(MovedTo(u)')
               y1 == Cardinality(MovedBy(u)')
    <3>5. wallet[u].balance = base + 5 * (x - y) /\ base' = base
      BY <1>1, <2>4 DEF BooksInv, Book
    <3>6. base \in Int
      <4>1. Cardinality(WonBy(u)) \in Nat /\ PrizeOf(u) \in Nat
        BY FinitelyMany DEF PrizeOf
      <4> QED
        BY <4>1, BotStateAssumption
    <3>7. wallet'[u].balance = base' + 5 * (x1 - y1)
      <4> HIDE DEF base, x, y, x1, y1, to, by
      <4>1. x1 = x + to /\ y1 = y + by
        BY <3>2, <3>3 DEF x, y, x1, y1
      <4>2. x \in Nat /\ y \in Nat
        BY <3>4 DEF x, y
      <4> QED
        BY <3>1, <3>4, <3>5, <3>6, <4>1, <4>2
    <3> QED
      BY <1>1, <2>4, <3>1, <3>7 DEF BooksInv, Book
  <2> QED
    BY <1>1, <2>3, <2>4
<1> QED
  BY <1>3, <1>4, <1>5, <1>6 DEF TipStep


LEMMA BooksStep ==
    ASSUME IInv, BooksInv, [Next]_vars
    PROVE  BooksInv'
<1> DEFINE Goal == /\ IsFiniteSet(Opened') /\ IsFiniteSet(moved')
                   /\ \A u \in Users : Clean(u)' => Book(u)'
<1>1. WinnerPaid' /\ NotYetWon'
  BY WinnerPaidStep, NotYetWonStep DEF BooksInv
<1>2. \A u \in Users : Clean(u)' => Clean(u)
  BY CleanShrinks
<1>3. IsFiniteSet(Opened) /\ IsFiniteSet(moved) /\ \A u \in Users : Clean(u) => Book(u)
  BY DEF BooksInv
<1>4. ASSUME NEW m \in Blesses, BlessStart(m) \/ BlessStep(m), UNCHANGED tipVars PROVE Goal
  <2>1. UNCHANGED moved
    BY <1>4, CommandsKeep
  <2>2. CASE BlessLock(m)
    BY <1>2, <1>3, <1>4, <2>1, <2>2, LockOpens, FS_AddElement
  <2>3. CASE ~BlessLock(m)
    <3>1. IsFiniteSet(Opened')
      BY <1>3, <1>4, <2>3, OpenedStays
    <3>2. ASSUME NEW u \in Users, Clean(u)' PROVE Book(u)'
      BY <1>2, <1>3, <1>4, <2>3, <3>2, Opens, CommandsKeep, StillBook DEF Still
    <3> QED
      BY <1>3, <2>1, <3>1, <3>2
  <2> QED
    BY <2>2, <2>3
<1>5. ASSUME Work, UNCHANGED tipVars PROVE Goal
  <2>1. UNCHANGED moved
    BY <1>5 DEF tipVars
  <2>2. IsFiniteSet(Opened')
    <3>1. UNCHANGED <<bless, pvprooms>>
      BY <1>5 DEF Work, WorkStart, WorkStep, WorkPrice, WorkCall, WorkRecord, WorkTell, WorkFails,
         WorkUndo, WorkUndoFails, WorkEnds, beforeJob
    <3> QED
      BY <1>3, <3>1 DEF Opened, Saved
  <2>3. ASSUME NEW u \in Users, Clean(u)' PROVE Book(u)'
    <3>1. CASE WorkCall \/ WorkUndo
      BY <1>2, <1>5, <2>3, <3>1, CallBooks
    <3>2. CASE WorkRecord
      BY <1>2, <1>5, <2>3, <3>2, RecordBooks
    <3>3. CASE ~WorkCall /\ ~WorkUndo /\ ~WorkRecord
      BY <1>2, <1>3, <1>5, <2>3, <3>3, WorkKeeps, StillBook
    <3> QED
      BY <3>1, <3>2, <3>3
  <2> QED
    BY <1>3, <2>1, <2>2, <2>3
<1>6. ASSUME NEW t \in Tips, TipStep(t), UNCHANGED matchVars PROVE Goal
  BY <1>2, <1>3, <1>6, TipBooks
<1>7. ASSUME Crash PROVE Goal
  <2>1. UNCHANGED moved
    BY <1>7 DEF Crash, TipCrash, ledgers
  <2>2. IsFiniteSet(Opened')
    BY <1>3, <1>7, OpenedStays
  <2> QED
    BY <1>2, <1>3, <1>7, <2>1, <2>2, CrashKeeps, StillBook
<1>8. ASSUME UNCHANGED vars PROVE Goal
  <2>1. UNCHANGED <<wallet, bless, pvprooms, result, worker, moved, message>>
    BY <1>8 DEF vars, matchVars, tipVars
  <2>2. Opened' = Opened /\ \A u : Still(u)
    BY <2>1 DEF Opened, Saved, Still, WonBy, OpenedBy, MovedTo, MovedBy, PrizeOf, FreedOf, Pays
  <2> QED
    BY <1>2, <1>3, <2>1, <2>2, StillBook
<1>9. Goal
  BY <1>4, <1>5, <1>6, <1>7, <1>8 DEF Next
<1> QED
  BY <1>1, <1>9 DEF BooksInv

LEMMA BooksStart ==
    ASSUME Init
    PROVE  BooksInv
<1> USE BlessesAssumption, BotStateAssumption DEF Init, StateInit, MatchInit, TipInit
<1>1. Saved = {}
  BY DEF Saved
<1>2. WinnerPaid
  BY DEF WinnerPaid, AtRest
<1>3. NotYetWon
  BY DEF NotYetWon, NoResult
<1>4. Opened = {} /\ moved = {}
  BY <1>1 DEF Opened
<1>5. IsFiniteSet(Opened) /\ IsFiniteSet(moved)
  BY <1>4, FS_EmptySet
<1>6. ASSUME NEW u \in Users PROVE Book(u)
  <2>1. WonBy(u) = {} /\ OpenedBy(u) \ WonBy(u) = {} /\ MovedTo(u) = {} /\ MovedBy(u) = {}
    BY <1>1 DEF WonBy, OpenedBy, MovedTo, MovedBy
  <2>2. Cardinality({}) = 0
    BY FS_EmptySet
  <2>3. PrizeOf(u) = 0 /\ FreedOf(u) = 0
    BY DEF PrizeOf, FreedOf, Pays, AtRest
  <2>4. wallet[u].balance = InitBalance /\ wallet[u].locked = 0
    OBVIOUS
  <2> HIDE DEF Init, StateInit, MatchInit, TipInit
  <2> QED
    BY <2>1, <2>2, <2>3, <2>4 DEF Book
<1> QED
  BY <1>2, <1>3, <1>5, <1>6 DEF BooksInv

(* When nothing of a player is on its way, what the invariant counts is    *)
(* what the database holds.                                                *)
LEMMA BooksAreSo ==
    ASSUME IInv, BooksInv
    PROVE  BooksBalance
<1> SUFFICES ASSUME NEW u \in Users, Accountable(u)
             PROVE  /\ wallet[u].balance = InitBalance
                           + (totalPrize - amount) * Cardinality(WonBy(u))
                           + tipAmount * (Cardinality(SentTo(u)) - Cardinality(SentBy(u)))
                    /\ wallet[u].locked = amount * Cardinality(OpenedBy(u) \ WonBy(u))
  BY DEF BooksBalance
<1>1. Book(u)
  BY PlayersAre DEF Accountable, BooksInv, Clean
<1>2. tipHistories \subseteq moved
  BY DEF IInv, TipAnswersAreTrue, TypeOK, TipTypeOK
<1>3. MovedTo(u) = SentTo(u) /\ MovedBy(u) = SentBy(u)
  BY <1>2 DEF Accountable, MovedTo, MovedBy, SentTo, SentBy
<1>4. PrizeOf(u) = 0 /\ FreedOf(u) = 0
  BY DEF Accountable, PrizeOf, FreedOf, Pays
<1>5. amount = 10 /\ totalPrize - amount = 9 /\ tipAmount = 5
  BY DEF amount, totalPrize, tipAmount
<1>6. /\ Cardinality(WonBy(u)) \in Nat /\ Cardinality(OpenedBy(u) \ WonBy(u)) \in Nat
  BY FinitelyMany
<1> QED
  BY <1>1, <1>3, <1>4, <1>5, <1>6 DEF Book

(* A player's account is what the rooms and the tip history say of it,      *)
(* over every interleaving of matches and tips, failed calls and crashes,   *)
(* but for the exceptions Accountable names (handlePvPResultWithBot and     *)
(* its rollbackWallet, createAndAcceptPvPWithBot, tipHopium).               *)
THEOREM AccountsAreAsRecorded == Spec => []BooksBalance
<1>1. Init => BooksInv
  BY BooksStart
<1>2. IInv /\ BooksInv /\ [Next]_vars => BooksInv'
  BY BooksStep
<1>3. IInv /\ BooksInv => BooksBalance
  BY BooksAreSo
<1> QED
  BY <1>1, <1>2, <1>3, Invariant, PTL DEF Spec
=============================================================================

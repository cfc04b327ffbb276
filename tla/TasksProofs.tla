----------------------------- MODULE TasksProofs -----------------------------
(***************************************************************************)
(* What holds of any number of tasks, clicks and claims, over any number   *)
(* of days, failed calls and crashes.                                      *)
(*                                                                         *)
(* A claim that found its task claimable pays only if nobody else marked   *)
(* the task in between.  So the invariant says of a task whose claims the  *)
(* lock kept apart that one claim at most is at work (OneAtWork), that     *)
(* what it found is still so (StillClaimable), that a mark stays on record *)
(* (MarksOnRecord), and hence that two marks are of two days (MarkedOnce). *)
(***************************************************************************)
EXTENDS Tasks, TLAPS

Unmarked == {"idle", "set", "find", "condition", "recheck", "mark"}
Deciding == {"condition", "recheck", "mark"}

(* Where a claim is says what it has done. *)
Progress ==
    \A c \in Claims :
        /\ claim[c] \in Unmarked => markedOn[c] = 0
        /\ claim[c] \in {"log", "pay", "credit"} => markedOn[c] > 0
        /\ claim[c] \in {"pay", "credit"} => c \in logged
        /\ claim[c] = "credit" => c \in paid
        /\ c \in paid => markedOn[c] > 0 /\ c \in logged
        /\ c \in credited => c \in paid

DatesPast == \A s \in UserTasks : userTask[s].claimedAt <= today

MarksOnRecord ==
    \A c \in Claims :
        markedOn[c] > 0 =>
            Completed(TaskOf[c]) /\ markedOn[c] <= userTask[TaskOf[c]].claimedAt

ClicksOneTime ==
    \A r \in Clicks : click[r] = "create" => TypeOf(TaskOf[r]) = "ONE_TIME"

KeptApart(c, d) ==
    c # d /\ TaskOf[c] = TaskOf[d] /\ TaskOf[c] \notin overlapped

OneAtWork ==
    \A c, d \in Claims :
        KeptApart(c, d) => claim[c] \notin Guarded \/ claim[d] \notin Guarded

StillClaimable ==
    \A c \in Claims :
        TaskOf[c] \notin overlapped /\ claim[c] \in Deciding =>
            /\ TypeOf(TaskOf[c]) = "ONE_TIME" => ~Completed(TaskOf[c])
            /\ TypeOf(TaskOf[c]) = "DAILY" => checkUserTaskDailyClaimable(TaskOf[c])

MarkedOnce ==
    \A c, d \in Claims :
        KeptApart(c, d) /\ markedOn[c] > 0 /\ markedOn[d] > 0 =>
            /\ TypeOf(TaskOf[c]) # "ONE_TIME"
            /\ TypeOf(TaskOf[c]) = "DAILY" => markedOn[c] # markedOn[d]

IInv ==
    /\ TypeOK /\ Progress /\ DatesPast /\ MarksOnRecord /\ ClicksOneTime
    /\ OneAtWork /\ StillClaimable /\ MarkedOnce

-----------------------------------------------------------------------------
(* Values keep their types: what the code writes is in range over every     *)
(* interleaving.                                                            *)
LEMMA TypeStep == TypeOK /\ [Next]_vars => TypeOK'
<1> SUFFICES ASSUME TypeOK, [Next]_vars PROVE TypeOK'
  OBVIOUS
<1> USE TasksAssumption, BoundsAssumption DEF TypeOK, UserTask, Task, ClaimPCs, Guarded
<1>1. ASSUME NEW r \in Clicks, ClickFind(r) PROVE TypeOK'
  BY <1>1 DEF ClickFind, ClickTo, recordVars, counters
<1>2. ASSUME NEW r \in Clicks, ClickCreate(r) PROVE TypeOK'
  BY <1>2 DEF ClickCreate, ClickTo, counters
<1>3. ASSUME NEW r \in Clicks, ClickFails(r) PROVE TypeOK'
  BY <1>3 DEF ClickFails, ClickTo, Fault, recordVars
<1>4. ASSUME NEW c \in Claims, ClaimGet(c) PROVE TypeOK'
  BY <1>4 DEF ClaimGet, ClaimTo, recordVars, counters
<1>5. ASSUME NEW c \in Claims, ClaimSet(c) PROVE TypeOK'
  BY <1>5 DEF ClaimSet, ClaimTo, recordVars, counters
<1>6. ASSUME NEW c \in Claims, ClaimFind(c) PROVE TypeOK'
  BY <1>6 DEF ClaimFind, ClaimTo, recordVars, counters
<1>7. ASSUME NEW c \in Claims, ClaimCondition(c) PROVE TypeOK'
  BY <1>7 DEF ClaimCondition, ClaimTo, recordVars, counters
<1>8. ASSUME NEW c \in Claims, ClaimRecheck(c) PROVE TypeOK'
  BY <1>8 DEF ClaimRecheck, ClaimTo, recordVars, counters
<1>9. ASSUME NEW c \in Claims, ClaimMark(c) PROVE TypeOK'
  BY <1>9 DEF ClaimMark, Marked, ClaimTo, counters
<1>10. ASSUME NEW c \in Claims, ClaimLog(c) PROVE TypeOK'
  BY <1>10 DEF ClaimLog, ClaimTo, counters
<1>11. ASSUME NEW c \in Claims, ClaimPay(c) PROVE TypeOK'
  BY <1>11 DEF ClaimPay, ClaimTo, counters
<1>12. ASSUME NEW c \in Claims, ClaimCredit(c) PROVE TypeOK'
  BY <1>12 DEF ClaimCredit, ClaimTo, counters
<1>13. ASSUME NEW c \in Claims, ClaimUnlock(c) PROVE TypeOK'
  BY <1>13 DEF ClaimUnlock, ClaimTo, recordVars, counters
<1>14. ASSUME NEW c \in Claims, ClaimFails(c) PROVE TypeOK'
  BY <1>14 DEF ClaimFails, ClaimTo, Fault, recordVars
<1>15. ASSUME NEW s \in UserTasks, LockExpires(s) PROVE TypeOK'
  BY <1>15 DEF LockExpires, recordVars, counters
<1>16. CASE NextDay
  BY <1>16 DEF NextDay, recordVars, counters
<1>17. CASE Crash
  BY <1>17 DEF Crash, recordVars
<1>18. CASE UNCHANGED vars
  BY <1>18 DEF vars
<1> QED
  BY <1>1, <1>2, <1>3, <1>4, <1>5, <1>6, <1>7, <1>8, <1>9, <1>10, <1>11, <1>12, <1>13,
     <1>14, <1>15, <1>16, <1>17, <1>18 DEF Next, ClaimStep

(* The invariant is inductive: one claim at work at a time keeps what it   *)
(* found true until it marks the task.                                     *)
LEMMA InvStep == IInv /\ [Next]_vars => IInv'
<1> DEFINE Rest == /\ Progress /\ DatesPast /\ MarksOnRecord /\ ClicksOneTime
                   /\ OneAtWork /\ StillClaimable /\ MarkedOnce
<1> SUFFICES ASSUME IInv, [Next]_vars, TypeOK' PROVE Rest'
  BY TypeStep DEF IInv
<1> USE TasksAssumption, BoundsAssumption DEF IInv, TypeOK, UserTask, Task, ClaimPCs, Guarded
<1>1. ASSUME NEW r \in Clicks, ClickFind(r) PROVE Rest'
  <2>1. ClicksOneTime'
    BY <1>1 DEF ClickFind, ClickTo, recordVars, counters, ClicksOneTime, TypeOf
  <2>2. Progress' /\ DatesPast' /\ MarksOnRecord' /\ OneAtWork' /\ StillClaimable' /\ MarkedOnce'
    BY <1>1 DEF ClickFind, ClickTo, recordVars, counters, Progress, Unmarked, DatesPast,
       MarksOnRecord, Completed, OneAtWork, KeptApart, StillClaimable, Deciding, TypeOf,
       checkUserTaskDailyClaimable, MarkedOnce
  <2> QED
    BY <2>1, <2>2
<1>2. ASSUME NEW r \in Clicks, ClickCreate(r) PROVE Rest'
  <2>1. DatesPast'
    BY <1>2 DEF ClickCreate, ClickTo, counters, DatesPast, Creatable
  <2>2. MarksOnRecord'
    BY <1>2 DEF ClickCreate, ClickTo, counters, MarksOnRecord, DatesPast, Completed,
       Creatable
  <2>3. ClicksOneTime'
    BY <1>2 DEF ClickCreate, ClickTo, counters, ClicksOneTime, TypeOf
  <2>4. StillClaimable'
    BY <1>2 DEF ClickCreate, ClickTo, counters, StillClaimable, Deciding, Completed,
       TypeOf, checkUserTaskDailyClaimable, ClicksOneTime, Creatable
  <2>5. Progress' /\ OneAtWork' /\ MarkedOnce'
    BY <1>2 DEF ClickCreate, ClickTo, counters, Progress, Unmarked, OneAtWork, KeptApart,
       MarkedOnce, TypeOf
  <2> QED
    BY <2>1, <2>2, <2>3, <2>4, <2>5
<1>3. ASSUME NEW r \in Clicks, ClickFails(r) PROVE Rest'
  <2>1. ClicksOneTime'
    BY <1>3 DEF ClickFails, ClickTo, Fault, recordVars, ClicksOneTime, TypeOf
  <2>2. Progress' /\ DatesPast' /\ MarksOnRecord' /\ OneAtWork' /\ StillClaimable' /\ MarkedOnce'
    BY <1>3 DEF ClickFails, ClickTo, Fault, recordVars, Progress, Unmarked, DatesPast,
       MarksOnRecord, Completed, OneAtWork, KeptApart, StillClaimable, Deciding, TypeOf,
       checkUserTaskDailyClaimable, MarkedOnce
  <2> QED
    BY <2>1, <2>2
<1>4. ASSUME NEW c \in Claims, ClaimGet(c) PROVE Rest'
  <2>1. Progress'
    BY <1>4 DEF ClaimGet, ClaimTo, recordVars, counters, Progress, Unmarked
  <2>2. OneAtWork'
    BY <1>4 DEF ClaimGet, ClaimTo, recordVars, counters, OneAtWork, KeptApart
  <2>3. StillClaimable'
    BY <1>4 DEF ClaimGet, ClaimTo, recordVars, counters, StillClaimable, Deciding,
       Completed, TypeOf, checkUserTaskDailyClaimable
  <2>4. DatesPast' /\ MarksOnRecord' /\ ClicksOneTime' /\ MarkedOnce'
    BY <1>4 DEF ClaimGet, ClaimTo, recordVars, counters, DatesPast, MarksOnRecord,
       Completed, ClicksOneTime, TypeOf, MarkedOnce, KeptApart
  <2> QED
    BY <2>1, <2>2, <2>3, <2>4
<1>5. ASSUME NEW c \in Claims, ClaimSet(c) PROVE Rest'
  <2>1. Progress'
    BY <1>5 DEF ClaimSet, ClaimTo, recordVars, counters, Progress, Unmarked
  <2>2. OneAtWork'
    BY <1>5 DEF ClaimSet, ClaimTo, recordVars, counters, OneAtWork, KeptApart
  <2>3. StillClaimable'
    BY <1>5 DEF ClaimSet, ClaimTo, recordVars, counters, StillClaimable, Deciding,
       Completed, TypeOf, checkUserTaskDailyClaimable
  <2>4. MarkedOnce'
    BY <1>5 DEF ClaimSet, ClaimTo, recordVars, counters, MarkedOnce, KeptApart, TypeOf
  <2>5. DatesPast' /\ MarksOnRecord' /\ ClicksOneTime'
    BY <1>5 DEF ClaimSet, ClaimTo, recordVars, counters, DatesPast, MarksOnRecord,
       Completed, ClicksOneTime, TypeOf
  <2> QED
    BY <2>1, <2>2, <2>3, <2>4, <2>5
<1>6. ASSUME NEW c \in Claims, ClaimFind(c) PROVE Rest'
  <2>1. Progress'
    BY <1>6 DEF ClaimFind, ClaimTo, recordVars, counters, Progress, Unmarked
  <2>2. OneAtWork'
    BY <1>6 DEF ClaimFind, ClaimTo, recordVars, counters, OneAtWork, KeptApart
  <2>3. StillClaimable'
    BY <1>6 DEF ClaimFind, ClaimTo, recordVars, counters, StillClaimable, Deciding,
       Completed, TypeOf, checkUserTaskDailyClaimable, Claimable, GroupOf
  <2>4. DatesPast' /\ MarksOnRecord' /\ ClicksOneTime' /\ MarkedOnce'
    BY <1>6 DEF ClaimFind, ClaimTo, recordVars, counters, DatesPast, MarksOnRecord,
       Completed, ClicksOneTime, TypeOf, MarkedOnce, KeptApart
  <2> QED
    BY <2>1, <2>2, <2>3, <2>4
<1>7. ASSUME NEW c \in Claims, ClaimCondition(c) PROVE Rest'
  <2>1. Progress'
    BY <1>7 DEF ClaimCondition, ClaimTo, recordVars, counters, Progress, Unmarked
  <2>2. OneAtWork'
    BY <1>7 DEF ClaimCondition, ClaimTo, recordVars, counters, OneAtWork, KeptApart
  <2>3. StillClaimable'
    BY <1>7 DEF ClaimCondition, ClaimTo, recordVars, counters, StillClaimable, Deciding,
       Completed, TypeOf, checkUserTaskDailyClaimable
  <2>4. DatesPast' /\ MarksOnRecord' /\ ClicksOneTime' /\ MarkedOnce'
    BY <1>7 DEF ClaimCondition, ClaimTo, recordVars, counters, DatesPast, MarksOnRecord,
       Completed, ClicksOneTime, TypeOf, MarkedOnce, KeptApart
  <2> QED
    BY <2>1, <2>2, <2>3, <2>4
<1>8. ASSUME NEW c \in Claims, ClaimRecheck(c) PROVE Rest'
  <2>1. Progress'
    BY <1>8 DEF ClaimRecheck, ClaimTo, recordVars, counters, Progress, Unmarked
  <2>2. OneAtWork'
    BY <1>8 DEF ClaimRecheck, ClaimTo, recordVars, counters, OneAtWork, KeptApart
  <2>3. StillClaimable'
    BY <1>8 DEF ClaimRecheck, ClaimTo, recordVars, counters, StillClaimable, Deciding,
       Completed, TypeOf, checkUserTaskDailyClaimable
  <2>4. DatesPast' /\ MarksOnRecord' /\ ClicksOneTime' /\ MarkedOnce'
    BY <1>8 DEF ClaimRecheck, ClaimTo, recordVars, counters, DatesPast, MarksOnRecord,
       Completed, ClicksOneTime, TypeOf, MarkedOnce, KeptApart
  <2> QED
    BY <2>1, <2>2, <2>3, <2>4
<1>9. ASSUME NEW c \in Claims, ClaimMark(c) PROVE Rest'
  <2>1. Progress'
    BY <1>9 DEF ClaimMark, Marked, ClaimTo, counters, Progress, Unmarked
  <2>2. DatesPast'
    BY <1>9 DEF ClaimMark, Marked, ClaimTo, counters, DatesPast
  <2>3. MarksOnRecord'
    BY <1>9 DEF ClaimMark, Marked, ClaimTo, counters, MarksOnRecord, DatesPast, Completed,
       Progress, Unmarked
  <2>4. OneAtWork'
    BY <1>9 DEF ClaimMark, Marked, ClaimTo, counters, OneAtWork, KeptApart
  <2>5. StillClaimable'
    BY <1>9 DEF ClaimMark, Marked, ClaimTo, counters, StillClaimable, Deciding, Completed,
       TypeOf, checkUserTaskDailyClaimable, OneAtWork, KeptApart
  <2>6. MarkedOnce'
    BY <1>9 DEF ClaimMark, Marked, ClaimTo, counters, MarkedOnce, KeptApart, TypeOf,
       MarksOnRecord, StillClaimable, Deciding, Completed, checkUserTaskDailyClaimable,
       Progress, Unmarked
  <2>7. ClicksOneTime'
    BY <1>9 DEF ClaimMark, Marked, ClaimTo, counters, ClicksOneTime, TypeOf
  <2> QED
    BY <2>1, <2>2, <2>3, <2>4, <2>5, <2>6, <2>7
<1>10. ASSUME NEW c \in Claims, ClaimLog(c) PROVE Rest'
  <2>1. Progress'
    BY <1>10 DEF ClaimLog, ClaimTo, counters, Progress, Unmarked
  <2>2. OneAtWork'
    BY <1>10 DEF ClaimLog, ClaimTo, counters, OneAtWork, KeptApart
  <2>3. StillClaimable'
    BY <1>10 DEF ClaimLog, ClaimTo, counters, StillClaimable, Deciding, Completed, TypeOf,
       checkUserTaskDailyClaimable
  <2>4. DatesPast' /\ MarksOnRecord' /\ ClicksOneTime' /\ MarkedOnce'
    BY <1>10 DEF ClaimLog, ClaimTo, counters, DatesPast, MarksOnRecord, Completed,
       ClicksOneTime, TypeOf, MarkedOnce, KeptApart
  <2> QED
    BY <2>1, <2>2, <2>3, <2>4
<1>11. ASSUME NEW c \in Claims, ClaimPay(c) PROVE Rest'
  <2>1. Progress'
    BY <1>11 DEF ClaimPay, ClaimTo, counters, Progress, Unmarked
  <2>2. OneAtWork'
    BY <1>11 DEF ClaimPay, ClaimTo, counters, OneAtWork, KeptApart
  <2>3. StillClaimable'
    BY <1>11 DEF ClaimPay, ClaimTo, counters, StillClaimable, Deciding, Completed, TypeOf,
       checkUserTaskDailyClaimable
  <2>4. DatesPast' /\ MarksOnRecord' /\ ClicksOneTime' /\ MarkedOnce'
    BY <1>11 DEF ClaimPay, ClaimTo, counters, DatesPast, MarksOnRecord, Completed,
       ClicksOneTime, TypeOf, MarkedOnce, KeptApart
  <2> QED
    BY <2>1, <2>2, <2>3, <2>4
<1>12. ASSUME NEW c \in Claims, ClaimCredit(c) PROVE Rest'
  <2>1. Progress'
    BY <1>12 DEF ClaimCredit, ClaimTo, counters, Progress, Unmarked
  <2>2. OneAtWork'
    BY <1>12 DEF ClaimCredit, ClaimTo, counters, OneAtWork, KeptApart
  <2>3. StillClaimable'
    BY <1>12 DEF ClaimCredit, ClaimTo, counters, StillClaimable, Deciding, Completed,
       TypeOf, checkUserTaskDailyClaimable
  <2>4. DatesPast' /\ MarksOnRecord' /\ ClicksOneTime' /\ MarkedOnce'
    BY <1>12 DEF ClaimCredit, ClaimTo, counters, DatesPast, MarksOnRecord, Completed,
       ClicksOneTime, TypeOf, MarkedOnce, KeptApart
  <2> QED
    BY <2>1, <2>2, <2>3, <2>4
<1>13. ASSUME NEW c \in Claims, ClaimUnlock(c) PROVE Rest'
  <2>1. Progress'
    BY <1>13 DEF ClaimUnlock, ClaimTo, recordVars, counters, Progress, Unmarked
  <2>2. OneAtWork'
    BY <1>13 DEF ClaimUnlock, ClaimTo, recordVars, counters, OneAtWork, KeptApart
  <2>3. StillClaimable'
    BY <1>13 DEF ClaimUnlock, ClaimTo, recordVars, counters, StillClaimable, Deciding,
       Completed, TypeOf, checkUserTaskDailyClaimable
  <2>4. DatesPast' /\ MarksOnRecord' /\ ClicksOneTime' /\ MarkedOnce'
    BY <1>13 DEF ClaimUnlock, ClaimTo, recordVars, counters, DatesPast, MarksOnRecord,
       Completed, ClicksOneTime, TypeOf, MarkedOnce, KeptApart
  <2> QED
    BY <2>1, <2>2, <2>3, <2>4
<1>14. ASSUME NEW c \in Claims, ClaimFails(c) PROVE Rest'
  <2>1. Progress'
    BY <1>14 DEF ClaimFails, ClaimTo, Fault, recordVars, Progress, Unmarked
  <2>2. OneAtWork'
    BY <1>14 DEF ClaimFails, ClaimTo, Fault, recordVars, OneAtWork, KeptApart
  <2>3. StillClaimable'
    BY <1>14 DEF ClaimFails, ClaimTo, Fault, recordVars, StillClaimable, Deciding,
       Completed, TypeOf, checkUserTaskDailyClaimable
  <2>4. DatesPast' /\ MarksOnRecord' /\ ClicksOneTime' /\ MarkedOnce'
    BY <1>14 DEF ClaimFails, ClaimTo, Fault, recordVars, DatesPast, MarksOnRecord,
       Completed, ClicksOneTime, TypeOf, MarkedOnce, KeptApart
  <2> QED
    BY <2>1, <2>2, <2>3, <2>4
<1>15. ASSUME NEW s \in UserTasks, LockExpires(s) PROVE Rest'
  BY <1>15 DEF LockExpires, recordVars, counters, Progress, Unmarked, DatesPast,
     MarksOnRecord, Completed, ClicksOneTime, TypeOf, OneAtWork, KeptApart,
     StillClaimable, Deciding, checkUserTaskDailyClaimable, MarkedOnce
<1>16. CASE NextDay
  <2>1. DatesPast'
    BY <1>16 DEF NextDay, recordVars, counters, DatesPast
  <2>2. StillClaimable'
    BY <1>16 DEF NextDay, recordVars, counters, StillClaimable, Deciding, Completed,
       TypeOf, checkUserTaskDailyClaimable, DatesPast
  <2>3. Progress' /\ MarksOnRecord' /\ ClicksOneTime' /\ OneAtWork' /\ MarkedOnce'
    BY <1>16 DEF NextDay, recordVars, counters, Progress, Unmarked, MarksOnRecord,
       DatesPast, Completed, ClicksOneTime, TypeOf, OneAtWork, KeptApart, MarkedOnce
  <2> QED
    BY <2>1, <2>2, <2>3
<1>17. CASE Crash
  <2>1. Progress'
    BY <1>17 DEF Crash, recordVars, Progress, Unmarked
  <2>2. ClicksOneTime'
    BY <1>17 DEF Crash, recordVars, ClicksOneTime, TypeOf
  <2>3. OneAtWork'
    BY <1>17 DEF Crash, recordVars, OneAtWork, KeptApart
  <2>4. StillClaimable'
    BY <1>17 DEF Crash, recordVars, StillClaimable, Deciding, Completed, TypeOf,
       checkUserTaskDailyClaimable
  <2>5. DatesPast' /\ MarksOnRecord' /\ MarkedOnce'
    BY <1>17 DEF Crash, recordVars, DatesPast, MarksOnRecord, Completed, MarkedOnce,
       KeptApart, TypeOf
  <2> QED
    BY <2>1, <2>2, <2>3, <2>4, <2>5
<1>18. CASE UNCHANGED vars
  BY <1>18 DEF vars, Progress, Unmarked, DatesPast, MarksOnRecord, Completed,
     ClicksOneTime, TypeOf, OneAtWork, KeptApart, StillClaimable, Deciding,
     checkUserTaskDailyClaimable, MarkedOnce
<1> QED
  BY <1>1, <1>2, <1>3, <1>4, <1>5, <1>6, <1>7, <1>8, <1>9, <1>10, <1>11, <1>12, <1>13,
     <1>14, <1>15, <1>16, <1>17, <1>18 DEF Next, ClaimStep

(* The collections, the lock and the requests keep their types, whatever    *)
(* the interleaving of clicks, claims, midnights and crashes.               *)
THEOREM TypeCorrect == Spec => []TypeOK
<1>1. Init => TypeOK
  BY TasksAssumption, BoundsAssumption DEF Init, TypeOK, UserTask, Task, ClaimPCs
<1> QED
  BY <1>1, TypeStep, PTL DEF Spec

LEMMA Inv == Spec => []IInv
<1>1. Init => IInv
  <2> SUFFICES ASSUME Init PROVE IInv
    OBVIOUS
  <2>1. TypeOK
    BY TasksAssumption, BoundsAssumption DEF Init, TypeOK, UserTask, Task, ClaimPCs
  <2>2. Progress /\ MarksOnRecord /\ MarkedOnce
    BY DEF Init, Progress, MarksOnRecord, MarkedOnce
  <2>3. DatesPast /\ ClicksOneTime
    BY TasksAssumption DEF Init, DatesPast, ClicksOneTime
  <2>4. OneAtWork /\ StillClaimable
    BY DEF Init, OneAtWork, StillClaimable, Guarded, Deciding
  <2> QED
    BY <2>1, <2>2, <2>3, <2>4 DEF IInv
<1> QED
  BY <1>1, InvStep, PTL DEF Spec

(* A task whose claims the lock kept apart is paid once, and a daily one    *)
(* once a day, for any number of claims, failures and crashes: claimTask    *)
(* needs nothing but the lock and its own checks.                           *)
THEOREM PaidOnce == Spec => []PaidOncePerPeriod
<1>1. IInv => PaidOncePerPeriod
  BY DEF IInv, TypeOK, Progress, MarkedOnce, KeptApart, PaidOncePerPeriod, PaidTwice
<1> QED
  BY <1>1, Inv, PTL

(* Whatever was paid stays on record, the lock kept apart or not: neither a *)
(* click nor another claim makes a paid task look unclaimed.                *)
THEOREM PaymentsOnRecord == Spec => []PaidIsOnRecord
<1>1. IInv => PaidIsOnRecord
  BY DEF IInv, TypeOK, Progress, MarksOnRecord, PaidIsOnRecord
<1> QED
  BY <1>1, Inv, PTL
=============================================================================

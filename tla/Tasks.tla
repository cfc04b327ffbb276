-------------------------------- MODULE Tasks --------------------------------
(***************************************************************************)
(* Claiming the reward of a task (src/src/tasks/tasks.service.ts).  A      *)
(* one-time task becomes claimable by a click; a daily one is claimable    *)
(* again each day.  claimTask guards itself by a lock in the cache, marks  *)
(* the user's task COMPLETED, logs the claim and then pays it.             *)
(*                                                                         *)
(* Every await is a step of its own.  Calls may fail without effect and    *)
(* the process may crash; the cache and the database survive.  Nothing in  *)
(* the code relates two users or two tasks, so that a user's task is one   *)
(* thing here.                                                             *)
(***************************************************************************)
EXTENDS Integers, FiniteSets

CONSTANTS
    UserTasks,      \* pairs of a user and an enabled task
    Clicks,         \* PUT tasks/click requests
    Claims,         \* PUT tasks/claim requests
    TaskOf          \* the user's task each request is about

CONSTANTS           \* bounds of the model, not of the system
    MaxDay, MaxFaults, MaxCrashes

ASSUME TasksAssumption == TaskOf \in [Clicks \cup Claims -> UserTasks]
ASSUME BoundsAssumption == MaxDay \in Nat \ {0} /\ MaxFaults \in Nat /\ MaxCrashes \in Nat

VARIABLES
    today,
    task,       \* the tasks collection, which no request changes
    userTask,   \* the users_tasks collection
    lock,       \* the user's tasks whose lock is in the cache
    click,      \* where each click is
    claim,      \* where each claim is
    markedOn,   \* the day on which each claim marked its task COMPLETED, or 0
    logged,     \* the claims in users_tasks_logs
    paid,       \* the claims whose reward was paid
    credited,   \* the claims whose points were credited
    overlapped, \* the user's tasks of which two claims were past the lock at a time
    faults, crashes

vars == <<today, task, userTask, lock, click, claim, markedOn, logged, paid, credited, overlapped,
          faults, crashes>>
recordVars == <<task, userTask, markedOn, logged, paid, credited>>
counters == <<faults, crashes>>

(* A PARTNER task is treated as a ONE_TIME one throughout.  The wallet pays *)
(* for HOPIUM tasks, LUCKY ones are paid in tickets.                        *)
Task == [type : {"DAILY", "FIXED", "ONE_TIME"}, group : {"HOPIUM", "LUCKY"}]
Guarded == {"find", "condition", "recheck", "mark", "log", "pay", "credit", "unlock"}
ClaimPCs == {"idle", "set", "done", "lost"} \cup Guarded
UserTask == [status : {"NONE", "CLAIMABLE", "COMPLETED"}, claimedAt : 0..MaxDay]

TypeOK ==
    /\ today \in 1..MaxDay
    /\ task \in [UserTasks -> Task]
    /\ userTask \in [UserTasks -> UserTask]
    /\ lock \subseteq UserTasks /\ overlapped \subseteq UserTasks
    /\ click \in [Clicks -> {"idle", "create", "done", "lost"}]
    /\ claim \in [Claims -> ClaimPCs]
    /\ markedOn \in [Claims -> 0..MaxDay]
    /\ logged \subseteq Claims /\ paid \subseteq Claims /\ credited \subseteq Claims
    /\ faults \in 0..MaxFaults /\ crashes \in 0..MaxCrashes

Init ==
    /\ today = 1
    /\ task \in [UserTasks -> Task]
    /\ userTask = [s \in UserTasks |-> [status |-> "NONE", claimedAt |-> 0]]
    /\ lock = {} /\ overlapped = {}
    /\ click = [r \in Clicks |-> "idle"]
    /\ claim = [c \in Claims |-> "idle"]
    /\ markedOn = [c \in Claims |-> 0]
    /\ logged = {} /\ paid = {} /\ credited = {}
    /\ faults = 0 /\ crashes = 0

-----------------------------------------------------------------------------
Fault == faults < MaxFaults /\ faults' = faults + 1

TypeOf(s) == task[s].type
GroupOf(s) == task[s].group
Completed(s) == userTask[s].status = "COMPLETED"

(* checkUserTaskDailyClaimable: never claimed, or before this day began. *)
checkUserTaskDailyClaimable(s) ==
    userTask[s].status = "NONE" \/ userTask[s].claimedAt < today

(* What claimDailyTask, claimOneTimeTask and claimLuckyTask ask of it: a    *)
(* FIXED task is refused with HOPIUM and has no condition here with LUCKY.  *)
Claimable(s) ==
    \/ TypeOf(s) = "DAILY" /\ checkUserTaskDailyClaimable(s)
    \/ TypeOf(s) = "ONE_TIME" /\ userTask[s].status \notin {"NONE", "COMPLETED"}
    \/ TypeOf(s) = "FIXED" /\ GroupOf(s) = "LUCKY"

-----------------------------------------------------------------------------
(* updateUserTaskStatus.  Nothing in the code makes a task UNCOMPLETED.     *)

ClickTo(r, pc) == click' = [click EXCEPT ![r] = pc]

ClickFind(r) ==
    LET s == TaskOf[r] IN
    /\ click[r] = "idle"
    /\ ClickTo(r, IF TypeOf(s) = "ONE_TIME" /\ userTask[s].status = "NONE"
                  THEN "create" ELSE "done")
    /\ UNCHANGED <<today, recordVars, lock, claim, overlapped, counters>>

(* The collection has a unique index on the user and the task. *)
(* Mutant: an upsert. *)
Upsertable(s) == TRUE
Creatable(s) == userTask[s].status = "NONE"

ClickCreate(r) ==
    LET s == TaskOf[r] IN
    /\ click[r] = "create"
    /\ ClickTo(r, "done")
    /\ userTask' = IF Creatable(s)
                   THEN [userTask EXCEPT ![s] = [status |-> "CLAIMABLE", claimedAt |-> today]]
                   ELSE userTask
    /\ UNCHANGED <<today, task, markedOn, logged, paid, credited, lock, claim, overlapped,
                   counters>>

ClickFails(r) ==
    /\ click[r] \in {"idle", "create"}
    /\ Fault
    /\ ClickTo(r, "done")
    /\ UNCHANGED <<today, recordVars, lock, claim, overlapped, crashes>>

-----------------------------------------------------------------------------
(* claimTask. *)

ClaimTo(c, pc) == claim' = [claim EXCEPT ![c] = pc]

IsLocked(c) == TaskOf[c] \in lock

ClaimGet(c) ==
    /\ claim[c] = "idle"
    /\ ClaimTo(c, IF IsLocked(c) THEN "done" ELSE "set")
    /\ UNCHANGED <<today, recordVars, lock, click, overlapped, counters>>

ClaimSet(c) ==
    LET s == TaskOf[c] IN
    /\ claim[c] = "set"
    /\ lock' = lock \cup {s}
    /\ overlapped' = IF \E d \in Claims : TaskOf[d] = s /\ claim[d] \in Guarded
                     THEN overlapped \cup {s} ELSE overlapped
    /\ ClaimTo(c, "find")
    /\ UNCHANGED <<today, recordVars, click, counters>>

(* Daily tasks paid by the wallet have no further condition. *)
ClaimFind(c) ==
    LET s == TaskOf[c] IN
    /\ claim[c] = "find"
    /\ ClaimTo(c, IF ~Claimable(s) THEN "unlock"
                  ELSE IF TypeOf(s) = "DAILY" /\ GroupOf(s) = "HOPIUM" THEN "recheck"
                  ELSE "condition")
    /\ UNCHANGED <<today, recordVars, lock, click, overlapped, counters>>

(* isOneTimeTaskCompleted and the conditions of claimLuckyTask: what other *)
(* parts of the system and Telegram know of the user.                      *)
ClaimCondition(c) ==
    /\ claim[c] = "condition"
    /\ \E fulfilled \in BOOLEAN :
          ClaimTo(c, IF ~fulfilled THEN "unlock"
                     ELSE IF GroupOf(TaskOf[c]) = "HOPIUM" THEN "recheck" ELSE "mark")
    /\ UNCHANGED <<today, recordVars, lock, click, overlapped, counters>>

(* userClaimTaskPoint looks again; userClaimTaskTicket does not. *)
ClaimRecheck(c) ==
    LET s == TaskOf[c] IN
    /\ claim[c] = "recheck"
    /\ ClaimTo(c, IF TypeOf(s) = "ONE_TIME" /\ Completed(s) THEN "unlock" ELSE "mark")
    /\ UNCHANGED <<today, recordVars, lock, click, overlapped, counters>>

(* Mutant: the claim is dated at the end of the day. *)
MarkedAtEndOfDay(s) == [status |-> "COMPLETED", claimedAt |-> today + 1]
(* Mutant: only the status is updated. *)
MarkedUndated(s) == [userTask[s] EXCEPT !.status = "COMPLETED"]
Marked(s) == [status |-> "COMPLETED", claimedAt |-> today]

ClaimMark(c) ==
    LET s == TaskOf[c] IN
    /\ claim[c] = "mark"
    /\ userTask' = [userTask EXCEPT ![s] = Marked(s)]
    /\ markedOn' = [markedOn EXCEPT ![c] = today]
    /\ ClaimTo(c, "log")
    /\ UNCHANGED <<today, task, logged, paid, credited, lock, click, overlapped, counters>>

ClaimLog(c) ==
    /\ claim[c] = "log"
    /\ logged' = logged \cup {c}
    /\ ClaimTo(c, "pay")
    /\ UNCHANGED <<today, task, userTask, markedOn, paid, credited, lock, click, overlapped,
                   counters>>

ClaimPay(c) ==
    /\ claim[c] = "pay"
    /\ paid' = paid \cup {c}
    /\ ClaimTo(c, IF GroupOf(TaskOf[c]) = "HOPIUM" THEN "credit" ELSE "unlock")
    /\ UNCHANGED <<today, task, userTask, markedOn, logged, credited, lock, click, overlapped,
                   counters>>

ClaimCredit(c) ==
    /\ claim[c] = "credit"
    /\ credited' = credited \cup {c}
    /\ ClaimTo(c, "unlock")
    /\ UNCHANGED <<today, task, userTask, markedOn, logged, paid, lock, click, overlapped,
                   counters>>

(* The finally block deletes the lock, whoever set it last. *)
ClaimUnlock(c) ==
    /\ claim[c] = "unlock"
    /\ lock' = lock \ {TaskOf[c]}
    /\ ClaimTo(c, "done")
    /\ UNCHANGED <<today, recordVars, click, overlapped, counters>>

(* Reading and setting the lock are outside the try block. *)
ClaimFails(c) ==
    /\ claim[c] \in {"idle", "set"} \cup Guarded
    /\ Fault
    /\ ClaimTo(c, IF claim[c] \in Guarded \ {"unlock"} THEN "unlock" ELSE "done")
    /\ UNCHANGED <<today, recordVars, lock, click, overlapped, crashes>>

-----------------------------------------------------------------------------
(* The lock's five minutes are over.  Calls have no deadline, so a claim    *)
(* may still be at work.                                                    *)
LockExpires(s) ==
    /\ s \in lock
    /\ lock' = lock \ {s}
    /\ UNCHANGED <<today, recordVars, click, claim, overlapped, counters>>

NextDay ==
    /\ today < MaxDay
    /\ today' = today + 1
    /\ UNCHANGED <<recordVars, lock, click, claim, overlapped, counters>>

Crash ==
    /\ crashes < MaxCrashes
    /\ crashes' = crashes + 1
    /\ click' = [r \in Clicks |-> IF click[r] = "create" THEN "lost" ELSE click[r]]
    /\ claim' = [c \in Claims |->
                   IF claim[c] \in {"set"} \cup Guarded THEN "lost" ELSE claim[c]]
    /\ UNCHANGED <<today, recordVars, lock, overlapped, faults>>

-----------------------------------------------------------------------------
ClaimStep(c) ==
    \/ ClaimSet(c) \/ ClaimFind(c) \/ ClaimCondition(c) \/ ClaimRecheck(c) \/ ClaimMark(c)
    \/ ClaimLog(c) \/ ClaimPay(c) \/ ClaimCredit(c) \/ ClaimUnlock(c) \/ ClaimFails(c)

Next ==
    \/ \E r \in Clicks : ClickFind(r) \/ ClickCreate(r) \/ ClickFails(r)
    \/ \E c \in Claims : ClaimGet(c) \/ ClaimStep(c)
    \/ \E s \in UserTasks : LockExpires(s)
    \/ NextDay \/ Crash

Spec == Init /\ [][Next]_vars

-----------------------------------------------------------------------------
(* Properties. *)

PaidTwice(s) ==
    \E c, d \in paid :
        /\ c # d /\ TaskOf[c] = s /\ TaskOf[d] = s
        /\ \/ TypeOf(s) = "ONE_TIME"
           \/ TypeOf(s) = "DAILY" /\ markedOn[c] = markedOn[d]

(* 'Task already claimed' (tasks.service.ts:187): a one-time task is paid   *)
(* once and a daily one once a day.  It does not hold: the lock is read and *)
(* then set, and two claims may both read it before either sets it.         *)
ClaimedOnce == \A s \in UserTasks : ~PaidTwice(s)

(* It holds of every task whose claims the lock did keep apart, over clicks *)
(* that race, failed claims, midnights and locks that a crash left behind.  *)
PaidOncePerPeriod == \A s \in UserTasks \ overlapped : ~PaidTwice(s)

(* Whatever was paid is on record: the claim is in the log and the task is  *)
(* COMPLETED, no earlier than the claim marked it, so that no click, failed *)
(* claim or second claim makes it look unclaimed again.  Points are counted *)
(* for paid claims only.                                                    *)
PaidIsOnRecord ==
    /\ credited \subseteq paid
    /\ \A c \in paid :
          /\ c \in logged /\ Completed(TaskOf[c])
          /\ 0 < markedOn[c] /\ markedOn[c] <= userTask[TaskOf[c]].claimedAt
=============================================================================

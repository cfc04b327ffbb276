---------------------------- MODULE PvPChallenge ----------------------------
(***************************************************************************)
(* The life of a challenge until its room waits to be settled: how it is   *)
(* opened from the web or the chat, accepted from the web (requests run    *)
(* side by side) or the chat (a queue with one worker), and cancelled by   *)
(* the cron when it is five minutes old.                                   *)
(*                                                                         *)
(* A sweep of the cron is taken to end before the next, ten seconds later. *)
(***************************************************************************)
EXTENDS PvPState

OpenWebOf(u) ==
    {c \in pvpKeys : TypeOf[c] = "WEB" /\ CreatorOf[c] \in IdPrefixOf[u] \cup {u}}

(* createPvPPosition counts keys, processPvPCommand looks at the balance. *)
MayCreate(c) ==
    LET u == CreatorOf[c] IN
    IF TypeOf[c] = "WEB" THEN Cardinality(OpenWebOf(u)) < MaxOpen
                         ELSE Available(wallet[u]) >= amount

CreateTo(c, pc) == create' = [create EXCEPT ![c] = pc]

CreateCheck(c) ==
    /\ create[c] = "idle"
    /\ CreateTo(c, IF MayCreate(c) THEN "lock" ELSE "refused")
    /\ UNCHANGED <<pvpKeys, stale, acceptVars, cancelVars, rooms, jobs, stalled, settleVars,
                   wallet, faults, crashes>>

CreateLock(c) ==
    /\ create[c] = "lock"
    /\ CanChangeLocked(wallet[CreatorOf[c]], amount)
    /\ Lock(CreatorOf[c])
    /\ CreateTo(c, "set")
    /\ UNCHANGED <<pvpKeys, stale, acceptVars, cancelVars, rooms, jobs, stalled, settleVars,
                   faults, crashes>>

CreateLockRefused(c) ==
    /\ create[c] = "lock"
    /\ Refused(CanChangeLocked(wallet[CreatorOf[c]], amount))
    /\ CreateTo(c, "refused")
    /\ UNCHANGED <<pvpKeys, stale, acceptVars, cancelVars, rooms, jobs, stalled, settleVars,
                   wallet, crashes>>

CreateSet(c) ==
    /\ create[c] = "set"
    /\ pvpKeys' = pvpKeys \cup {c}
    /\ CreateTo(c, "done")
    /\ UNCHANGED <<stale, acceptVars, cancelVars, rooms, jobs, stalled, settleVars, wallet,
                   faults, crashes>>

(* Nothing gives the margin back. *)
CreateSetFails(c) ==
    /\ create[c] = "set"
    /\ Fault
    /\ CreateTo(c, "failed")
    /\ UNCHANGED <<pvpKeys, stale, acceptVars, cancelVars, rooms, jobs, stalled, settleVars,
                   wallet, crashes>>

-----------------------------------------------------------------------------
AcceptTo(a, pc) == accept' = [accept EXCEPT ![a] = pc]

(* A tap on the chat's button, which is sent before the challenge is made. *)
ChatTap(a) ==
    /\ accept[a] = "idle" /\ TypeOf[ChallengeOf[a]] = "CHAT"
    /\ create[ChallengeOf[a]] \in {"lock", "set", "done"}
    /\ AcceptTo(a, IF ChallengeOf[a] \in pvpKeys THEN "tapped" ELSE "notFound")
    /\ UNCHANGED <<createVars, pvpKeys, botQueue, cancelVars, rooms, jobs, stalled, settleVars,
                   wallet, faults, crashes>>

ChatQueue(a) ==
    /\ accept[a] = "tapped"
    /\ AcceptTo(a, "queued")
    /\ botQueue' = Append(botQueue, a)
    /\ UNCHANGED <<createVars, pvpKeys, cancelVars, rooms, jobs, stalled, settleVars, wallet,
                   faults, crashes>>

(* The worker takes the next job; a web request starts by itself. *)
AcceptStart(a) ==
    /\ \/ accept[a] = "queued" /\ botQueue # <<>> /\ Head(botQueue) = a
       \/ /\ accept[a] = "idle" /\ TypeOf[ChallengeOf[a]] = "WEB"
          /\ create[ChallengeOf[a]] = "done"
    /\ AcceptTo(a, "get")
    /\ UNCHANGED <<createVars, pvpKeys, botQueue, cancelVars, rooms, jobs, stalled, settleVars,
                   wallet, faults, crashes>>

AcceptGet(a) ==
    /\ accept[a] = "get"
    /\ AcceptTo(a, IF ChallengeOf[a] \in pvpKeys /\ AcceptorOf[a] # Creator(a)
                   THEN "lock" ELSE "notFound")
    /\ UNCHANGED <<createVars, pvpKeys, botQueue, cancelVars, rooms, jobs, stalled, settleVars, wallet,
                   faults, crashes>>

AcceptLock(a) ==
    /\ accept[a] = "lock"
    /\ CanChangeLocked(wallet[AcceptorOf[a]], amount)
    /\ Lock(AcceptorOf[a])
    /\ AcceptTo(a, "del")
    /\ UNCHANGED <<createVars, pvpKeys, botQueue, cancelVars, rooms, jobs, stalled, settleVars,
                   faults, crashes>>

AcceptLockRefused(a) ==
    /\ accept[a] = "lock"
    /\ Refused(CanChangeLocked(wallet[AcceptorOf[a]], amount))
    /\ AcceptTo(a, "failed")
    /\ UNCHANGED <<createVars, pvpKeys, botQueue, cancelVars, rooms, jobs, stalled, settleVars,
                   wallet, crashes>>

(* Whether there was a key to delete is not looked at. *)
(* Mutant: the key is left to the cron. *)
KeysKept(c) == pvpKeys
KeysWithout(c) == pvpKeys \ {c}

AcceptDel(a) ==
    /\ accept[a] = "del"
    /\ pvpKeys' = KeysWithout(ChallengeOf[a])
    /\ AcceptTo(a, "save")
    /\ UNCHANGED <<createVars, botQueue, cancelVars, rooms, jobs, stalled, settleVars, wallet,
                   faults, crashes>>

AcceptSave(a) ==
    /\ accept[a] = "save"
    /\ \E p \in Prices :
          rooms' = [rooms EXCEPT ![a] = [saved |-> TRUE, openPrice |-> p, winner |-> NoOne]]
    /\ AcceptTo(a, "enqueue")
    /\ UNCHANGED <<createVars, pvpKeys, botQueue, cancelVars, jobs, stalled, settleVars, wallet,
                   faults, crashes>>

AcceptEnqueue(a) ==
    /\ accept[a] = "enqueue"
    /\ jobs' = [jobs EXCEPT ![a] = "waiting"]
    /\ AcceptTo(a, "done")
    /\ UNCHANGED <<createVars, pvpKeys, botQueue, cancelVars, rooms, stalled, settleVars, wallet,
                   faults, crashes>>

(* Nothing of what was done before is undone. *)
AcceptFails(a) ==
    /\ accept[a] \in {"tapped", "get", "del", "save", "enqueue"}
    /\ Fault
    /\ AcceptTo(a, "failed")
    /\ UNCHANGED <<createVars, pvpKeys, botQueue, cancelVars, rooms, jobs, stalled, settleVars,
                   wallet, crashes>>

(* The handler has returned or thrown, and BullMQ takes the chat's job from *)
(* the queue: a step of its own, before which a crash runs the job again.   *)
ChatLeaves(a) ==
    /\ accept[a] \in {"done", "notFound", "failed"}
    /\ botQueue # <<>> /\ Head(botQueue) = a
    /\ botQueue' = Tail(botQueue)
    /\ UNCHANGED <<createVars, pvpKeys, accept, cancelVars, rooms, jobs, stalled, settleVars,
                   wallet, faults, crashes>>

-----------------------------------------------------------------------------
CancelTo(c, pc) == cancel' = [cancel EXCEPT ![c] = pc]

(* Mutant: createdAt is compared in the wrong unit. *)
NeverExpired(c) == FALSE
Expired(c) == c \in stale

(* handleCancelCron reads the challenge, cancelPvPChallenge reads it again. *)
CancelFind(c) ==
    /\ cancel[c] = "idle" /\ c \in pvpKeys /\ Expired(c)
    /\ CancelTo(c, "again")
    /\ UNCHANGED <<createVars, pvpKeys, acceptVars, refunds, rooms, jobs, stalled, settleVars,
                   wallet, faults, crashes>>

CancelAgain(c) ==
    /\ cancel[c] = "again"
    /\ CancelTo(c, IF c \in pvpKeys THEN "del" ELSE "idle")
    /\ UNCHANGED <<createVars, pvpKeys, acceptVars, refunds, rooms, jobs, stalled, settleVars,
                   wallet, faults, crashes>>

(* Mutant: as KeysKept, for the cron alone. *)
CancelKeeps(c) == pvpKeys
CancelLeaves(c) == pvpKeys \ {c}

CancelDel(c) ==
    /\ cancel[c] = "del"
    /\ pvpKeys' = CancelLeaves(c)
    /\ CancelTo(c, "refund")
    /\ UNCHANGED <<createVars, acceptVars, refunds, rooms, jobs, stalled, settleVars, wallet,
                   faults, crashes>>

CancelRefund(c) ==
    /\ cancel[c] = "refund"
    /\ CanChangeLocked(wallet[CreatorOf[c]], -amount)
    /\ Release(CreatorOf[c])
    /\ refunds' = [refunds EXCEPT ![c] = @ + 1]
    /\ CancelTo(c, "idle")
    /\ UNCHANGED <<createVars, pvpKeys, acceptVars, rooms, jobs, stalled, settleVars, faults,
                   crashes>>

(* The key is gone by now, and the margin stays locked. *)
CancelRefundRefused(c) ==
    /\ cancel[c] = "refund"
    /\ Refused(CanChangeLocked(wallet[CreatorOf[c]], -amount))
    /\ CancelTo(c, "idle")
    /\ UNCHANGED <<createVars, pvpKeys, acceptVars, refunds, rooms, jobs, stalled, settleVars,
                   wallet, crashes>>

CancelFails(c) ==
    /\ cancel[c] \in {"again", "del"}
    /\ Fault
    /\ CancelTo(c, "idle")
    /\ UNCHANGED <<createVars, pvpKeys, acceptVars, refunds, rooms, jobs, stalled, settleVars,
                   wallet, crashes>>

(* TIME_CANCEL_PVP passes from createdAt, which is taken with the check. *)
GrowsStale(c) ==
    /\ create[c] # "idle" /\ c \notin stale
    /\ stale' = stale \cup {c}
    /\ UNCHANGED <<create, pvpKeys, acceptVars, cancelVars, rooms, jobs, stalled, settleVars,
                   wallet, faults, crashes>>

-----------------------------------------------------------------------------
CreateStep(c) ==
    CreateCheck(c) \/ CreateLock(c) \/ CreateLockRefused(c) \/ CreateSet(c) \/ CreateSetFails(c)

AcceptStep(a) ==
    \/ ChatQueue(a) \/ AcceptGet(a) \/ AcceptLock(a) \/ AcceptLockRefused(a)
    \/ AcceptDel(a) \/ AcceptSave(a) \/ AcceptEnqueue(a) \/ AcceptFails(a)
    \/ ChatLeaves(a)

CancelStep(c) ==
    \/ CancelFind(c) \/ CancelAgain(c) \/ CancelDel(c) \/ CancelRefund(c)
    \/ CancelRefundRefused(c) \/ CancelFails(c)
=============================================================================

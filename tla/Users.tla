-------------------------------- MODULE Users --------------------------------
(***************************************************************************)
(* Players: how one is registered with a wallet (GET auth/profile, or      *)
(* /start with the id of a parent), linked to a parent who is rewarded for *)
(* it (users.service.ts addReferral), how plays of a linked player earn    *)
(* both a bonus (game.queue.ts), and how a player connects a TON address.  *)
(*                                                                         *)
(* Every await is a step of its own.  Calls may fail without effect and    *)
(* the process may crash; an error that nothing catches is a crash.        *)
(* Requests a crash ends are lost, the bonus jobs wait again.              *)
(***************************************************************************)
EXTENDS Score, FiniteSets

CONSTANTS
    Users,          \* Telegram users
    Ids,            \* the ids that those who are not registered may have
    Premium,
    Registered,     \* those who are registered, with a wallet, at first
    Profiles,       \* GET auth/profile requests
    Starts,         \* /start <parent> commands
    Refers,         \* POST users/add-referral requests
    UserOf,         \* the user who sends each of these
    ParentOf,       \* the parent a start or a refer is about
    Plays,          \* bonus_user_has_referral jobs
    PlayerOf,       \* the player each is for
    Connects,       \* POST ton/connect requests
    Wanted,         \* users with an address each has proved to be his
    RandomScores,   \* what getRandomNumber(1, 99) may return
    None

CONSTANTS           \* bounds of the model, not of the system
    MaxFaults, MaxCrashes

Referrals == Starts \cup Refers
Newcomers == {UserOf[r] : r \in Profiles \cup Referrals} \ Registered

ASSUME UsersAssumption ==
    /\ Ids \subseteq Nat /\ Premium \subseteq Users /\ Registered \subseteq Users
    /\ UserOf \in [Profiles \cup Referrals -> Users]
    /\ ParentOf \in [Referrals -> Users]
    /\ Starts \cap Refers = {} /\ Profiles \cap Referrals = {}
    /\ PlayerOf \in [Plays -> Users]
    /\ RandomScores \subseteq 1..99
    /\ None \notin Users \cup Plays \cup Int \cup {w[2] : w \in Wanted} /\ None # NaN
    /\ \A w \in Wanted : w[1] \in Users
    /\ MaxFaults \in Nat /\ MaxCrashes \in Nat

VARIABLES
    registered,     \* the users collection: who is in it,
    parentId,       \*   with which parent
    tonAddress,     \*   and which address
    wallets,        \* what each wallet was opened with, or None
    idOf,           \* the id of each newcomer, from which his score is made
    profile,        \* where each profile request is
    referral,       \* where each start or refer is
    pending,        \* the calls of a start that run side by side
    claims,         \* how many calls of claimAddFriendTask each referral has made
    rewarded,       \* referrals whose parent was paid
    overlapped,     \* users of whom two referrals were past the check at a time
    unlinked,       \* users with a referral that ended before the parent was set
    jobs,           \* the bonus jobs
    stalled,        \* jobs a crash interrupted once
    worker,         \* what their worker does
    bonuses,        \* how often each job paid its bonus to the parent and the player
    bonusTo,        \* the parent each paid
    connect,        \* where each connect request is
    raced,          \* connect requests that ran side by side with one that matters to them
    faults, crashes

userVars == <<registered, parentId, wallets, idOf>>
referralVars == <<referral, pending, claims, rewarded, overlapped, unlinked>>
bonusVars == <<jobs, stalled, worker, bonuses, bonusTo>>
tonVars == <<tonAddress, connect, raced>>
counters == <<faults, crashes>>
vars == <<userVars, profile, referralVars, bonusVars, tonVars, counters>>

Claiming == {"claim", "link"}
Idle == [pc |-> "idle", job |-> None, parent |-> None]
NoConnect == [pc |-> "idle", user |-> None, address |-> None]
Addresses == {w[2] : w \in Wanted}

TypeOK ==
    /\ registered \subseteq Users
    /\ parentId \in [Users -> Users \cup {None}] /\ \A u \in Users : parentId[u] # u
    /\ tonAddress \in [Users -> Addresses \cup {None}]
    /\ wallets \in [Users -> Int \cup {None, NaN}]
    /\ idOf \in [Newcomers -> Ids]
    /\ profile \in [Profiles -> {"idle", "create", "wallet", "done"}]
    /\ referral \in [Referrals -> {"idle", "self", "register", "find", "done"} \cup Claiming]
    /\ pending \in [Referrals -> SUBSET {"user", "wallet"}]
    /\ claims \in [Referrals -> 0..3]
    /\ rewarded \subseteq Referrals /\ overlapped \subseteq Users /\ unlinked \subseteq Users
    /\ jobs \in [Plays -> {"none", "waiting", "active", "completed", "failed"}]
    /\ stalled \subseteq Plays
    /\ worker \in [pc : {"idle", "find", "parent", "user", "end", "failing"},
                   job : Plays \cup {None}, parent : Users \cup {None}]
    /\ bonuses \in [Plays -> [parent : 0..2, user : 0..2]]
    /\ bonusTo \in [Plays -> SUBSET Users]
    /\ connect \in [Connects -> [pc : {"idle", "user", "save", "done"}, user : Users \cup {None},
                                 address : Addresses \cup {None}]]
    /\ raced \subseteq Connects
    /\ faults \in 0..MaxFaults /\ crashes \in 0..MaxCrashes

Init ==
    /\ registered = Registered
    /\ parentId = [u \in Users |-> None]
    /\ tonAddress = [u \in Users |-> None]
    /\ wallets = [u \in Users |-> IF u \in Registered THEN 0 ELSE None]
    /\ idOf \in [Newcomers -> Ids]
    /\ profile = [p \in Profiles |-> "idle"]
    /\ referral = [r \in Referrals |-> "idle"]
    /\ pending = [r \in Referrals |-> {}]
    /\ claims = [r \in Referrals |-> 0]
    /\ rewarded = {} /\ overlapped = {} /\ unlinked = {}
    /\ jobs = [b \in Plays |-> "none"]
    /\ stalled = {} /\ worker = Idle
    /\ bonuses = [b \in Plays |-> [parent |-> 0, user |-> 0]]
    /\ bonusTo = [b \in Plays |-> {}]
    /\ connect = [k \in Connects |-> NoConnect]
    /\ raced = {}
    /\ faults = 0 /\ crashes = 0

-----------------------------------------------------------------------------
Fault == faults < MaxFaults /\ faults' = faults + 1
Refused(accepted) == IF accepted THEN Fault ELSE UNCHANGED faults

(* The wallet service takes no call for a user without a wallet. *)
HasWallet(u) == wallets[u] # None

(* getOrCreateWallet: an existing wallet stays as it is. *)
getOrCreateWallet(u, isPremium) ==
    IF HasWallet(u) THEN UNCHANGED wallets
    ELSE \E randomScore \in RandomScores :
            wallets' = [wallets EXCEPT ![u] = calculateScore(idOf[u], isPremium, randomScore)]

-----------------------------------------------------------------------------
(* GET auth/profile *)

ProfileTo(p, pc) == profile' = [profile EXCEPT ![p] = pc]

ProfileGet(p) ==
    /\ profile[p] = "idle"
    /\ ProfileTo(p, IF UserOf[p] \in registered THEN "done" ELSE "create")
    /\ UNCHANGED <<userVars, referralVars, bonusVars, tonVars, counters>>

(* Mutant: a new user's wallet is left for later. *)
AfterUserOnly == "done"
AfterUser == "wallet"

ProfileCreate(p) ==
    /\ profile[p] = "create"
    /\ registered' = registered \cup {UserOf[p]}
    /\ ProfileTo(p, AfterUser)
    /\ UNCHANGED <<parentId, wallets, idOf, referralVars, bonusVars, tonVars, counters>>

ProfileWallet(p) ==
    /\ profile[p] = "wallet"
    /\ getOrCreateWallet(UserOf[p], UserOf[p] \in Premium)
    /\ ProfileTo(p, "done")
    /\ UNCHANGED <<registered, parentId, idOf, referralVars, bonusVars, tonVars, counters>>

ProfileFails(p) ==
    /\ profile[p] # "done" /\ Fault
    /\ ProfileTo(p, "done")
    /\ UNCHANGED <<userVars, referralVars, bonusVars, tonVars, crashes>>

-----------------------------------------------------------------------------
(* /start <parent>: handleStartCommand registers a user who is new. *)

ReferralTo(r, pc) == referral' = [referral EXCEPT ![r] = pc]
claimVars == <<claims, rewarded, overlapped, unlinked>>

StartParent(r) ==
    /\ r \in Starts /\ referral[r] = "idle"
    /\ ReferralTo(r, IF ParentOf[r] \in registered THEN "self" ELSE "done")
    /\ UNCHANGED <<userVars, profile, pending, claimVars, bonusVars, tonVars, counters>>

StartSelf(r) ==
    /\ referral[r] = "self"
    /\ IF UserOf[r] \in registered
       THEN ReferralTo(r, "done") /\ UNCHANGED pending
       ELSE ReferralTo(r, "register") /\ pending' = [pending EXCEPT ![r] = {"user", "wallet"}]
    /\ UNCHANGED <<userVars, profile, claimVars, bonusVars, tonVars, counters>>

(* Promise.all: the last of both calls to succeed goes on.  When one fails  *)
(* the command is over and the other call runs to its end.                  *)
Returned(r, call) ==
    /\ pending' = [pending EXCEPT ![r] = @ \ {call}]
    /\ ReferralTo(r, IF referral[r] = "register" /\ pending[r] = {call} THEN "find"
                     ELSE referral[r])

StartUser(r) ==
    /\ "user" \in pending[r]
    /\ registered' = registered \cup {UserOf[r]}
    /\ Returned(r, "user")
    /\ UNCHANGED <<parentId, wallets, idOf, profile, claimVars, bonusVars, tonVars, counters>>

StartWallet(r) ==
    /\ "wallet" \in pending[r]
    /\ getOrCreateWallet(UserOf[r], FALSE)
    /\ Returned(r, "wallet")
    /\ UNCHANGED <<registered, parentId, idOf, profile, claimVars, bonusVars, tonVars, counters>>

StartFails(r) ==
    /\ \E call \in pending[r] : pending' = [pending EXCEPT ![r] = @ \ {call}]
    /\ Fault
    /\ ReferralTo(r, "done")
    /\ UNCHANGED <<userVars, profile, claimVars, bonusVars, tonVars, crashes>>

-----------------------------------------------------------------------------
(* addReferral *)

(* Mutant: that he has no parent yet is not asked. *)
IsUser(u, parent) == u # parent /\ u \in registered
(* Mutant: that he is somebody else is not asked. *)
HasNoParent(u, parent) == u \in registered /\ parentId[u] = None
MayRefer(u, parent) == u # parent /\ u \in registered /\ parentId[u] = None

ReferFind(r) ==
    LET u == UserOf[r] IN
    /\ referral[r] = "find" \/ (r \in Refers /\ referral[r] = "idle")
    /\ IF MayRefer(u, ParentOf[r])
       THEN /\ ReferralTo(r, "claim")
            /\ overlapped' = IF \E o \in Referrals \ {r} :
                                    UserOf[o] = u /\ referral[o] \in Claiming
                             THEN overlapped \cup {u} ELSE overlapped
       ELSE ReferralTo(r, "done") /\ UNCHANGED overlapped
    /\ UNCHANGED <<userVars, profile, pending, claims, rewarded, unlinked, bonusVars, tonVars,
                   counters>>

(* claimAddFriendTask: a ticket for the user, the task's points for him,    *)
(* then for the parent.  Nobody else reads what claiming the points writes, *)
(* so that its four calls are one step; only the last two involve a wallet. *)
Payee(r, n) == IF n = 3 THEN ParentOf[r] ELSE UserOf[r]

ReferClaim(r) ==
    LET n == claims[r] + 1 IN
    /\ referral[r] = "claim"
    /\ n = 1 \/ HasWallet(Payee(r, n))
    /\ claims' = [claims EXCEPT ![r] = n]
    /\ rewarded' = IF n = 3 THEN rewarded \cup {r} ELSE rewarded
    /\ ReferralTo(r, IF n = 3 THEN "link" ELSE "claim")
    /\ UNCHANGED <<userVars, profile, pending, overlapped, unlinked, bonusVars, tonVars,
                   counters>>

(* A call that fails before or after it pays is logged, and the parent is  *)
(* set all the same.                                                       *)
ReferClaimFails(r) ==
    LET n == claims[r] + 1 IN
    /\ referral[r] = "claim"
    /\ Refused(n = 1 \/ HasWallet(Payee(r, n)))
    /\ \/ UNCHANGED rewarded
       \/ n = 3 /\ HasWallet(ParentOf[r]) /\ rewarded' = rewarded \cup {r}
    /\ ReferralTo(r, "link")
    /\ UNCHANGED <<userVars, profile, pending, claims, overlapped, unlinked, bonusVars, tonVars,
                   crashes>>

ReferLink(r) ==
    /\ referral[r] = "link"
    /\ parentId' = [parentId EXCEPT ![UserOf[r]] = ParentOf[r]]
    /\ ReferralTo(r, "done")
    /\ UNCHANGED <<registered, wallets, idOf, profile, pending, claimVars, bonusVars, tonVars,
                   counters>>

ReferFails(r) ==
    /\ referral[r] \in {"idle", "self", "find", "link"} /\ Fault
    /\ ReferralTo(r, "done")
    /\ unlinked' = IF referral[r] = "link" THEN unlinked \cup {UserOf[r]} ELSE unlinked
    /\ UNCHANGED <<userVars, profile, pending, claims, rewarded, overlapped, bonusVars, tonVars,
                   crashes>>

-----------------------------------------------------------------------------
(* bonusUserHasReferral: play queues a job, one worker runs them.  That     *)
(* BullMQ marks a job as ended is a step of its own.                        *)

JobTo(b, state) == jobs' = [jobs EXCEPT ![b] = state]
WorkTo(pc) == worker' = [worker EXCEPT !.pc = pc]
paidVars == <<bonuses, bonusTo>>

BonusQueued(b) ==
    /\ jobs[b] = "none" /\ PlayerOf[b] \in registered
    /\ JobTo(b, "waiting")
    /\ UNCHANGED <<userVars, profile, referralVars, stalled, worker, paidVars, tonVars, counters>>

BonusStart(b) ==
    /\ worker.pc = "idle" /\ jobs[b] = "waiting"
    /\ JobTo(b, "active")
    /\ worker' = [Idle EXCEPT !.pc = "find", !.job = b]
    /\ UNCHANGED <<userVars, profile, referralVars, stalled, paidVars, tonVars, counters>>

(* The first of both to be paid is the parent. *)
BonusFind ==
    LET parent == parentId[PlayerOf[worker.job]] IN
    /\ worker.pc = "find"
    /\ IF parent = None
       THEN WorkTo("end")
       ELSE worker' = [worker EXCEPT !.pc = "parent", !.parent = parent]
    /\ UNCHANGED <<userVars, profile, referralVars, jobs, stalled, paidVars, tonVars, counters>>

BonusParent ==
    LET b == worker.job IN
    /\ worker.pc = "parent" /\ HasWallet(worker.parent)
    /\ bonuses' = [bonuses EXCEPT ![b].parent = @ + 1]
    /\ bonusTo' = [bonusTo EXCEPT ![b] = @ \cup {worker.parent}]
    /\ WorkTo("user")
    /\ UNCHANGED <<userVars, profile, referralVars, jobs, stalled, tonVars, counters>>

BonusUser ==
    LET b == worker.job IN
    /\ worker.pc = "user" /\ HasWallet(PlayerOf[b])
    /\ bonuses' = [bonuses EXCEPT ![b].user = @ + 1]
    /\ WorkTo("end")
    /\ UNCHANGED <<userVars, profile, referralVars, jobs, stalled, bonusTo, tonVars, counters>>

(* The catch block logs, and leaves what there is left of the bonuses.  The *)
(* points of both are added without waiting for the wallet's answer.        *)
(* Mutant: it goes on with what is left of the bonuses. *)
NextBonus(pc) == IF pc = "parent" THEN "user" ELSE "end"
AfterError(pc) == "end"

BonusFails ==
    /\ \/ worker.pc = "parent" /\ Refused(HasWallet(worker.parent))
       \/ worker.pc = "user" /\ Refused(HasWallet(PlayerOf[worker.job]))
    /\ WorkTo(AfterError(worker.pc))
    /\ UNCHANGED <<userVars, profile, referralVars, jobs, stalled, paidVars, tonVars, crashes>>

BonusFindFails ==
    /\ worker.pc = "find" /\ Fault
    /\ WorkTo("failing")
    /\ UNCHANGED <<userVars, profile, referralVars, jobs, stalled, paidVars, tonVars, crashes>>

BonusEnds ==
    /\ worker.pc \in {"end", "failing"}
    /\ worker' = Idle
    /\ JobTo(worker.job, IF worker.pc = "end" THEN "completed" ELSE "failed")
    /\ UNCHANGED <<userVars, profile, referralVars, stalled, paidVars, tonVars, counters>>

-----------------------------------------------------------------------------
(* POST ton/connect, once the proof has been checked. *)

ConnectTo(k, pc) == connect' = [connect EXCEPT ![k].pc = pc]
AtWork(k) == connect[k].pc \in {"user", "save"}

(* Mutant: an address of another user will do. *)
AnyAddress(u, address) == TRUE
IsFree(u, address) == \A v \in Users \ {u} : tonAddress[v] # address

ConnectFind(k) ==
    /\ connect[k].pc = "idle"
    /\ \E w \in Wanted :
          LET rivals == {o \in Connects \ {k} :
                           AtWork(o) /\ (connect[o].user = w[1] \/ connect[o].address = w[2])}
          IN IF IsFree(w[1], w[2])
             THEN /\ connect' = [connect EXCEPT ![k] = [pc |-> "user", user |-> w[1],
                                                       address |-> w[2]]]
                  /\ raced' = IF rivals = {} THEN raced ELSE raced \cup rivals \cup {k}
             ELSE ConnectTo(k, "done") /\ UNCHANGED raced
    /\ UNCHANGED <<userVars, profile, referralVars, bonusVars, tonAddress, counters>>

(* Mutant: an address the user has is replaced. *)
NewAddress(u, address) == u \in registered /\ tonAddress[u] # address
MayConnect(u, address) == u \in registered /\ tonAddress[u] = None

ConnectUser(k) ==
    /\ connect[k].pc = "user"
    /\ ConnectTo(k, IF MayConnect(connect[k].user, connect[k].address) THEN "save" ELSE "done")
    /\ UNCHANGED <<userVars, profile, referralVars, bonusVars, tonAddress, raced, counters>>

(* Then the task is clicked, as Tasks has it. *)
ConnectSave(k) ==
    /\ connect[k].pc = "save"
    /\ tonAddress' = [tonAddress EXCEPT ![connect[k].user] = connect[k].address]
    /\ ConnectTo(k, "done")
    /\ UNCHANGED <<userVars, profile, referralVars, bonusVars, raced, counters>>

ConnectFails(k) ==
    /\ connect[k].pc # "done" /\ Fault
    /\ ConnectTo(k, "done")
    /\ UNCHANGED <<userVars, profile, referralVars, bonusVars, tonAddress, raced, crashes>>

-----------------------------------------------------------------------------
Crash ==
    LET b == worker.job IN
    /\ crashes < MaxCrashes
    /\ crashes' = crashes + 1
    /\ profile' = [p \in Profiles |-> IF profile[p] = "idle" THEN "idle" ELSE "done"]
    /\ referral' = [r \in Referrals |-> IF referral[r] = "idle" THEN "idle" ELSE "done"]
    /\ pending' = [r \in Referrals |-> {}]
    /\ unlinked' = unlinked \cup {UserOf[r] : r \in {x \in Referrals : referral[x] \in Claiming}}
    /\ worker' = Idle
    /\ IF worker.pc = "idle" THEN UNCHANGED <<jobs, stalled>>
       ELSE JobTo(b, IF b \in stalled THEN "failed" ELSE "waiting") /\ stalled' = stalled \cup {b}
    /\ connect' = [k \in Connects |->
                      IF AtWork(k) THEN [connect[k] EXCEPT !.pc = "done"] ELSE connect[k]]
    /\ UNCHANGED <<userVars, claims, rewarded, overlapped, paidVars, tonAddress, raced, faults>>

ProfileStep(p) == ProfileGet(p) \/ ProfileCreate(p) \/ ProfileWallet(p) \/ ProfileFails(p)
ReferralStep(r) ==
    \/ StartParent(r) \/ StartSelf(r) \/ StartUser(r) \/ StartWallet(r) \/ StartFails(r)
    \/ ReferFind(r) \/ ReferClaim(r) \/ ReferClaimFails(r) \/ ReferLink(r) \/ ReferFails(r)
BonusStep ==
    BonusFind \/ BonusParent \/ BonusUser \/ BonusFails \/ BonusFindFails \/ BonusEnds
ConnectStep(k) == ConnectFind(k) \/ ConnectUser(k) \/ ConnectSave(k) \/ ConnectFails(k)

Next ==
    \/ \E p \in Profiles : ProfileStep(p)
    \/ \E r \in Referrals : ReferralStep(r)
    \/ \E b \in Plays : BonusQueued(b) \/ BonusStart(b)
    \/ BonusStep
    \/ \E k \in Connects : ConnectStep(k)
    \/ Crash

Spec == Init /\ [][Next]_vars

-----------------------------------------------------------------------------
(* Properties. *)

(* Whoever was rewarded for a user is the parent he is linked to, and only  *)
(* one referral of his was rewarded, unless two of them were past the check *)
(* side by side, or the link failed after the reward.                       *)
PaidParentIsLinked ==
    \A r \in rewarded : UserOf[r] \notin overlapped \cup unlinked =>
        /\ referral[r] = "link" \/ parentId[UserOf[r]] = ParentOf[r]
        /\ \A o \in rewarded : UserOf[o] = UserOf[r] => o = r

(* A job that no crash interrupted pays each bonus once at most, the        *)
(* player's only after the parent's; and all bonuses go to one parent, the  *)
(* one who stays linked, unless referrals overlapped or a link failed.      *)
BonusesInStep ==
    \A b \in Plays :
        /\ b \notin stalled => bonuses[b].user <= bonuses[b].parent /\ bonuses[b].parent <= 1
        /\ PlayerOf[b] \notin overlapped \cup unlinked
             => bonusTo[b] \subseteq {parentId[PlayerOf[b]]}

(* A registered user has a wallet, or a request is on its way to open one,  *)
(* unless a call failed or the process died in between: then the user is    *)
(* found the next time and never gets one.                                  *)
UsersHaveWallets ==
    \A u \in registered :
        \/ HasWallet(u) \/ faults > 0 \/ crashes > 0
        \/ \E p \in Profiles : UserOf[p] = u /\ profile[p] = "wallet"
        \/ \E r \in Referrals : UserOf[r] = u /\ "wallet" \in pending[r]

(* A new wallet opens with the score of an account of its age, plus the     *)
(* part for Premium only if its user has it.  The account with the smallest *)
(* known id is the exception: its date is 0 / 0.                            *)
ScoreFitsAge ==
    \A u \in Newcomers : HasWallet(u) /\ idOf[u] # minId =>
        \E isPremium \in BOOLEAN :
            (isPremium => u \in Premium) /\ FitsAge(wallets[u], idOf[u], isPremium)

(* Two users have the same address only if their requests ran side by side. *)
AddressOfOneUser ==
    \A u, v \in Users : u # v /\ tonAddress[u] # None /\ tonAddress[u] = tonAddress[v]
        => \E k \in raced : connect[k].address = tonAddress[u]

(* An address that was connected stays, but for requests side by side. *)
AddressIsKept ==
    [][\A u \in Users : tonAddress[u] # None /\ tonAddress'[u] # tonAddress[u]
          => \E k \in raced : connect[k].user = u]_vars
=============================================================================

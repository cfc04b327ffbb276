----------------------------- MODULE UsersProofs -----------------------------
(***************************************************************************)
(* What holds of any number of users, referrals, plays and requests, over  *)
(* any known ages, failed calls and crashes.                               *)
(*                                                                         *)
(* Each part of the invariant is about one of the check-then-act pairs of  *)
(* users.service.ts: while nobody else is between both, what was checked   *)
(* is still so (Referred, Connected); the rest says what a job or a        *)
(* registration has done by where it is (Paid, Opened).  That a score fits *)
(* the account's age rests on the dates next to it (DateBetween).          *)
(***************************************************************************)
EXTENDS Users, TLAPS, WellFoundedInduction

Sent == {"idle", "self", "register", "find"}

Referred ==
    /\ \A r \in Referrals :
          /\ referral[r] \in Sent => claims[r] = 0 /\ r \notin rewarded
          /\ referral[r] = "claim" => claims[r] \in 0..2 /\ r \notin rewarded
          /\ referral[r] \in Claiming => UserOf[r] # ParentOf[r]
          /\ referral[r] \in Claiming /\ UserOf[r] \notin overlapped => parentId[UserOf[r]] = None
          /\ r \in rewarded /\ UserOf[r] \notin overlapped /\ UserOf[r] \notin unlinked =>
                referral[r] = "link"
                \/ (referral[r] = "done" /\ parentId[UserOf[r]] = ParentOf[r])
    /\ \A r, o \in Referrals :
          r # o /\ UserOf[r] = UserOf[o] /\ UserOf[r] \notin overlapped =>
              /\ referral[r] \notin Claiming \/ referral[o] \notin Claiming
              /\ UserOf[r] \notin unlinked => r \notin rewarded \/ o \notin rewarded

(* The calls of a start run side by side only before it goes on. *)
Registering == \A r \in Referrals : pending[r] # {} => referral[r] \in {"register", "done"}

Paid ==
    /\ worker.pc # "idle" => worker.job \in Plays /\ jobs[worker.job] = "active"
    /\ \A b \in Plays :
          /\ jobs[b] = "active" => worker.pc # "idle" /\ worker.job = b
          /\ bonuses[b].parent \in Nat /\ bonuses[b].user \in Nat
          /\ b \notin stalled => bonuses[b].user <= bonuses[b].parent /\ bonuses[b].parent <= 1
          /\ bonuses[b].parent <= 2 /\ bonuses[b].user <= 2
          /\ jobs[b] \in {"none", "waiting"} \/ (worker.job = b /\ worker.pc \in {"find", "parent"})
                => /\ b \notin stalled => bonuses[b].parent = 0 /\ bonuses[b].user = 0
                   /\ bonuses[b].parent <= 1 /\ bonuses[b].user <= 1
          /\ worker.job = b /\ worker.pc = "user" =>
                /\ b \notin stalled => bonuses[b].parent = 1 /\ bonuses[b].user = 0
                /\ bonuses[b].user <= 1
          /\ jobs[b] = "none" => b \notin stalled

PaidTo ==
    /\ worker.pc = "parent" => worker.parent \in Users
    /\ \A b \in Plays :
          PlayerOf[b] \notin overlapped /\ PlayerOf[b] \notin unlinked =>
              /\ bonusTo[b] \subseteq {parentId[PlayerOf[b]]}
              /\ worker.job = b /\ worker.pc = "parent" => worker.parent = parentId[PlayerOf[b]]

Opened ==
    /\ \A u \in Registered : HasWallet(u)
    /\ \A r \in Referrals :
          "user" \in pending[r] /\ "wallet" \notin pending[r] =>
              HasWallet(UserOf[r]) \/ faults > 0 \/ crashes > 0
    /\ UsersHaveWallets

Connected ==
    /\ \A k \in Connects :
          /\ k \in raced => connect[k].pc # "idle"
          /\ AtWork(k) => connect[k].user \in Users
          /\ AtWork(k) /\ k \notin raced =>
                /\ \A v \in Users : v # connect[k].user => tonAddress[v] # connect[k].address
                /\ connect[k].pc = "save" => tonAddress[connect[k].user] = None
    /\ \A k, o \in Connects :
          k # o /\ AtWork(k) /\ AtWork(o)
          /\ (connect[k].user = connect[o].user \/ connect[k].address = connect[o].address)
              => k \in raced
    /\ AddressOfOneUser

IInv == TypeOK /\ Referred /\ Registering /\ Paid /\ PaidTo /\ Opened /\ Connected

-----------------------------------------------------------------------------
(* The score of an account is a number or NaN: among the known ids there   *)
(* is a least one that is not below the account's.                         *)
LEMMA LeastIndex ==
    ASSUME NEW T \in SUBSET Nat, T # {}
    PROVE  \E i \in T : \A j \in T : i <= j
<1>1. PICK i \in T : \A j \in T : ~(<<j, i>> \in OpToRel(<, Nat))
  BY WFMin, NatLessThanWellFounded
<1>2. \A j \in T : ~(j < i)
  BY <1>1 DEF OpToRel
<1> QED
  BY <1>2

(* UpperOf of an id within the table is a known id that is no smaller. *)
LEMMA UpperIsKnown ==
    ASSUME NEW id \in Nat, ~(id > maxId)
    PROVE  UpperOf(id) \in DOMAIN nids /\ id <= nids[UpperOf(id)]
<1> DEFINE T == {i \in DOMAIN nids : id <= nids[i]}
<1>1. nids \in Seq(Nat) /\ nids # <<>>
  BY ScoreAssumption
<1>2. Len(nids) \in DOMAIN nids /\ nids[Len(nids)] \in Nat
  BY <1>1
<1>3. Len(nids) \in T
  BY <1>2 DEF maxId
<1>4. T \in SUBSET Nat
  BY <1>1
<1>5. PICK i \in T : \A j \in T : i <= j
  BY <1>3, <1>4, LeastIndex
<1>6. \E k \in DOMAIN nids : id <= nids[k] /\ \A j \in DOMAIN nids : id <= nids[j] => k <= j
  BY <1>5
<1> QED
  BY <1>6 DEF UpperOf

(* A date is a number or NaN. *)
LEMMA DateIsNumber ==
    ASSUME NEW id \in Nat
    PROVE  getDate(id) \in Int \cup {NaN}
<1>1. nids \in Seq(Nat) /\ nids # <<>> /\ ages \in [DOMAIN nids -> Nat]
      /\ 1 \in DOMAIN nids /\ Len(nids) \in DOMAIN nids
  <2>1. nids \in Seq(Nat) /\ nids # <<>> /\ ages \in [DOMAIN nids -> Nat]
    BY ScoreAssumption
  <2> QED
    BY <2>1
<1>2. CASE id < minId
  BY <1>1, <1>2 DEF getDate
<1>3. CASE ~(id < minId) /\ id > maxId
  BY <1>1, <1>3 DEF getDate
<1>4. CASE ~(id < minId) /\ ~(id > maxId)
  <2> DEFINE u == UpperOf(id)
             l == LowerOf(u)
             num == (id - nids[l]) * (ages[u] - ages[l])
             den == nids[u] - nids[l]
  <2>1. u \in DOMAIN nids
    BY <1>4, UpperIsKnown
  <2>2. l \in DOMAIN nids /\ l <= u /\ (l = u \/ l < u)
    BY <1>1, <2>1 DEF LowerOf
  <2>3. nids[u] \in Nat /\ nids[l] \in Nat /\ ages[u] \in Nat /\ ages[l] \in Nat
    BY <1>1, <2>1, <2>2
  <2>4. nids[u] # nids[l] => den \in Nat \ {0}
    <3>1. l < u => nids[l] < nids[u]
      BY ScoreAssumption, <2>1, <2>2
    <3> HIDE DEF u, l
    <3> QED
      BY <2>2, <2>3, <3>1
  <2>5. num \in Int
    <3>1. id - nids[l] \in Int /\ ages[u] - ages[l] \in Int
      BY <2>3
    <3> QED
      BY <3>1
  <2>6. nids[u] # nids[l] => num \div den \in Int
    <3> HIDE DEF num, den
    <3> QED
      BY <2>4, <2>5
  <2>7. getDate(id) = IF nids[u] = nids[l] THEN NaN ELSE ages[l] + num \div den
    BY <1>4 DEF getDate
  <2> HIDE DEF num, den
  <2> QED
    BY <2>3, <2>6, <2>7
<1> QED
  BY <1>2, <1>3, <1>4

LEMMA ScoreIsNumber ==
    ASSUME NEW id \in Nat, NEW isPremium \in BOOLEAN, NEW randomScore \in RandomScores
    PROVE  calculateScore(id, isPremium, randomScore) \in Int \cup {NaN}
<1>1. getDate(id) \in Int \cup {NaN}
  BY DateIsNumber
<1>2. randomScore \in Int /\ ThisYear \in Int
  BY UsersAssumption, ScoreAssumption
<1>3. ASSUME NEW date \in Int PROVE ScoreAt(date) \in Int
  BY <1>2 DEF ScoreAt, initScore
<1>4. PremiumPart(isPremium) \in Int
  BY DEF PremiumPart, premiumScore
<1>5. CASE getDate(id) = NaN
  BY <1>5 DEF calculateScore
<1>6. CASE getDate(id) # NaN
  <2>1. ScoreAt(getDate(id)) \in Int
    BY <1>1, <1>3, <1>6
  <2>2. ScoreAt(getDate(id)) + randomScore + PremiumPart(isPremium) \in Int
    BY <1>2, <1>4, <2>1
  <2> QED
    BY <1>6, <2>2 DEF calculateScore
<1> QED
  BY <1>5, <1>6

(* A wallet that is opened or found is one of the service's, and no other  *)
(* wallet goes.                                                            *)
LEMMA WalletIsOpened ==
    ASSUME TypeOK, Opened, NEW r \in Profiles \cup Referrals, NEW isPremium \in BOOLEAN,
           getOrCreateWallet(UserOf[r], isPremium)
    PROVE  /\ wallets' \in [Users -> Int \cup {None, NaN}]
           /\ HasWallet(UserOf[r])'
           /\ \A u \in Users : HasWallet(u) => HasWallet(u)'
<1> DEFINE u == UserOf[r]
<1>0. u \in Users /\ wallets \in [Users -> Int \cup {None, NaN}]
  BY UsersAssumption DEF TypeOK
<1>1. CASE HasWallet(u)
  <2>1. UNCHANGED wallets
    BY <1>1 DEF getOrCreateWallet
  <2> QED
    BY <1>0, <1>1, <2>1 DEF HasWallet
<1>2. CASE ~HasWallet(u)
  <2>1. PICK randomScore \in RandomScores :
           wallets' = [wallets EXCEPT ![u] = calculateScore(idOf[u], isPremium, randomScore)]
    BY <1>2 DEF getOrCreateWallet
  <2>2. u \in Newcomers
    BY <1>0, <1>2 DEF Newcomers, Opened
  <2>3. idOf[u] \in Nat
    <3>1. idOf[u] \in Ids
      BY <2>2 DEF TypeOK
    <3> QED
      BY <3>1, UsersAssumption
  <2>4. calculateScore(idOf[u], isPremium, randomScore) \in Int \cup {NaN}
    BY <2>3, ScoreIsNumber
  <2>5. None \notin Int /\ None # NaN
    BY UsersAssumption
  <2>6. wallets'[u] \in Int \cup {NaN} /\ \A v \in Users \ {u} : wallets'[v] = wallets[v]
    BY <1>0, <2>1, <2>4
  <2>7. wallets' \in [Users -> Int \cup {None, NaN}]
    BY <1>0, <2>1, <2>4
  <2> QED
    BY <2>5, <2>6, <2>7 DEF HasWallet
<1> QED
  BY <1>1, <1>2

-----------------------------------------------------------------------------
(* What each kind of step leaves alone. *)
LEMMA Frames ==
    /\ \A p \in Profiles : ProfileStep(p) =>
          UNCHANGED <<parentId, idOf, referralVars, bonusVars, tonVars, crashes>>
    /\ \A r \in Referrals : ReferralStep(r) =>
          UNCHANGED <<idOf, profile, bonusVars, tonVars, crashes>>
    /\ \A b \in Plays : BonusQueued(b) \/ BonusStart(b) =>
          UNCHANGED <<userVars, profile, referralVars, tonVars, crashes, faults, paidVars>>
    /\ BonusStep => UNCHANGED <<userVars, profile, referralVars, tonVars, crashes, stalled>>
    /\ \A k \in Connects : ConnectStep(k) =>
          UNCHANGED <<userVars, profile, referralVars, bonusVars, crashes>>
<1>1. \A p \in Profiles : ProfileStep(p) =>
          UNCHANGED <<parentId, idOf, referralVars, bonusVars, tonVars, crashes>>
  BY DEF ProfileStep, ProfileGet, ProfileCreate, ProfileWallet, ProfileFails, userVars, counters
<1>2. \A r \in Referrals : ReferralStep(r) =>
          UNCHANGED <<idOf, profile, bonusVars, tonVars, crashes>>
  <2> SUFFICES ASSUME NEW r \in Referrals, ReferralStep(r)
               PROVE  UNCHANGED <<idOf, profile, bonusVars, tonVars, crashes>>
    OBVIOUS
  <2>1. CASE StartParent(r) \/ StartSelf(r) \/ StartUser(r) \/ StartWallet(r) \/ StartFails(r)
    BY <2>1 DEF StartParent, StartSelf, StartUser, StartWallet, StartFails, userVars, counters
  <2>2. CASE ReferFind(r) \/ ReferClaim(r) \/ ReferClaimFails(r) \/ ReferLink(r) \/ ReferFails(r)
    <3>1. ReferFind(r) => UNCHANGED <<idOf, profile, bonusVars, tonVars, crashes>>
      BY DEF ReferFind, userVars, counters
    <3>2. ReferClaim(r) => UNCHANGED <<idOf, profile, bonusVars, tonVars, crashes>>
      BY DEF ReferClaim, userVars, counters
    <3>3. ReferClaimFails(r) => UNCHANGED <<idOf, profile, bonusVars, tonVars, crashes>>
      BY DEF ReferClaimFails, userVars
    <3>4. ReferLink(r) => UNCHANGED <<idOf, profile, bonusVars, tonVars, crashes>>
      BY DEF ReferLink, counters
    <3>5. ReferFails(r) => UNCHANGED <<idOf, profile, bonusVars, tonVars, crashes>>
      BY DEF ReferFails, userVars
    <3> QED
      BY <2>2, <3>1, <3>2, <3>3, <3>4, <3>5
  <2> QED
    BY <2>1, <2>2 DEF ReferralStep
<1>3. \A b \in Plays : BonusQueued(b) \/ BonusStart(b) =>
          UNCHANGED <<userVars, profile, referralVars, tonVars, crashes, faults, paidVars>>
  BY DEF BonusQueued, BonusStart, counters
<1>4. BonusStep => UNCHANGED <<userVars, profile, referralVars, tonVars, crashes, stalled>>
  BY DEF BonusStep, BonusFind, BonusParent, BonusUser, BonusFails, BonusEnds, BonusFindFails,
     counters
<1>5. \A k \in Connects : ConnectStep(k) =>
          UNCHANGED <<userVars, profile, referralVars, bonusVars, crashes>>
  BY DEF ConnectStep, ConnectFind, ConnectUser, ConnectSave, ConnectFails, counters
<1> QED
  BY <1>1, <1>2, <1>3, <1>4, <1>5

-----------------------------------------------------------------------------
(* Types, by the parts of the state that each kind of step writes. *)
UserTypes ==
    /\ registered \subseteq Users
    /\ parentId \in [Users -> Users \cup {None}] /\ \A u \in Users : parentId[u] # u
    /\ wallets \in [Users -> Int \cup {None, NaN}]
    /\ idOf \in [Newcomers -> Ids]
    /\ profile \in [Profiles -> {"idle", "create", "wallet", "done"}]
ReferralTypes ==
    /\ referral \in [Referrals -> {"idle", "self", "register", "find", "done"} \cup Claiming]
    /\ pending \in [Referrals -> SUBSET {"user", "wallet"}]
    /\ claims \in [Referrals -> 0..3]
    /\ rewarded \subseteq Referrals /\ overlapped \subseteq Users /\ unlinked \subseteq Users
BonusTypes ==
    /\ jobs \in [Plays -> {"none", "waiting", "active", "completed", "failed"}]
    /\ stalled \subseteq Plays
    /\ worker \in [pc : {"idle", "find", "parent", "user", "end", "failing"}, job : Plays \cup {None},
                   parent : Users \cup {None}]
    /\ bonuses \in [Plays -> [parent : 0..2, user : 0..2]]
    /\ bonusTo \in [Plays -> SUBSET Users]
ConnectTypes ==
    /\ tonAddress \in [Users -> Addresses \cup {None}]
    /\ connect \in [Connects -> [pc : {"idle", "user", "save", "done"}, user : Users \cup {None},
                                 address : Addresses \cup {None}]]
    /\ raced \subseteq Connects
CounterTypes == faults \in 0..MaxFaults /\ crashes \in 0..MaxCrashes

LEMMA TypesAreParts ==
    TypeOK <=> UserTypes /\ ReferralTypes /\ BonusTypes /\ ConnectTypes /\ CounterTypes
BY DEF TypeOK, UserTypes, ReferralTypes, BonusTypes, ConnectTypes, CounterTypes

LEMMA TypeInit == Init => TypeOK
<1> SUFFICES ASSUME Init PROVE TypeOK
  OBVIOUS
<1> USE UsersAssumption DEF Init
<1>1. UserTypes
  BY DEF UserTypes
<1>2. ReferralTypes
  BY DEF ReferralTypes
<1>3. BonusTypes
  BY DEF BonusTypes, Idle
<1>4. ConnectTypes
  BY DEF ConnectTypes, NoConnect
<1>5. CounterTypes
  BY DEF CounterTypes
<1> QED
  BY <1>1, <1>2, <1>3, <1>4, <1>5, TypesAreParts

LEMMA FaultIsCounted ==
    CounterTypes /\ crashes' = crashes /\ (UNCHANGED faults \/ Fault) => CounterTypes'
BY UsersAssumption DEF CounterTypes, Fault

LEMMA ProfileTypes ==
    ASSUME TypeOK, Opened, NEW p \in Profiles, ProfileStep(p)
    PROVE  UserTypes' /\ CounterTypes'
<1> USE UsersAssumption DEF TypeOK
<1>0. UserTypes /\ CounterTypes /\ UserOf[p] \in Users
  BY TypesAreParts
<1>1. CASE ProfileGet(p)
  BY <1>1, <1>0 DEF ProfileGet, ProfileTo, UserTypes, CounterTypes, userVars, counters
<1>2. CASE ProfileCreate(p)
  BY <1>2, <1>0 DEF ProfileCreate, ProfileTo, AfterUser, UserTypes, CounterTypes, counters
<1>3. CASE ProfileWallet(p)
  <2> DEFINE isPremium == UserOf[p] \in Premium
  <2>a. isPremium \in BOOLEAN /\ getOrCreateWallet(UserOf[p], isPremium)
    BY <1>3 DEF ProfileWallet
  <2> HIDE DEF isPremium
  <2>1. wallets' \in [Users -> Int \cup {None, NaN}]
    BY <2>a, WalletIsOpened
  <2> QED
    BY <1>3, <1>0, <2>1 DEF ProfileWallet, ProfileTo, UserTypes, CounterTypes, counters
<1>4. CASE ProfileFails(p)
  BY <1>4, <1>0, FaultIsCounted DEF ProfileFails, ProfileTo, UserTypes, userVars
<1> QED
  BY <1>1, <1>2, <1>3, <1>4 DEF ProfileStep

LEMMA ReferralTypeStep ==
    ASSUME TypeOK, Opened, Referred, NEW r \in Referrals, ReferralStep(r)
    PROVE  UserTypes' /\ ReferralTypes' /\ CounterTypes'
<1> DEFINE Goal == UserTypes' /\ ReferralTypes' /\ CounterTypes'
<1>0. /\ UserTypes /\ ReferralTypes /\ CounterTypes
      /\ UserOf[r] \in Users /\ ParentOf[r] \in Users
  BY TypesAreParts, UsersAssumption
<1>1. CASE StartParent(r)
  BY <1>1, <1>0 DEF StartParent, ReferralTo, UserTypes, ReferralTypes, CounterTypes, userVars,
     claimVars, counters
<1>2. CASE StartSelf(r)
  BY <1>2, <1>0 DEF StartSelf, ReferralTo, UserTypes, ReferralTypes, CounterTypes, userVars,
     claimVars, counters
<1>3. CASE StartUser(r)
  BY <1>3, <1>0 DEF StartUser, Returned, ReferralTo, UserTypes, ReferralTypes, CounterTypes,
     claimVars, counters
<1>4. CASE StartWallet(r)
  <2>1. wallets' \in [Users -> Int \cup {None, NaN}]
    BY <1>4, WalletIsOpened DEF StartWallet
  <2>2. UserTypes' /\ CounterTypes'
    BY <1>4, <1>0, <2>1 DEF StartWallet, UserTypes, CounterTypes, counters
  <2>3. ReferralTypes'
    BY <1>4, <1>0 DEF StartWallet, Returned, ReferralTo, ReferralTypes, claimVars
  <2> QED
    BY <2>2, <2>3
<1>5. CASE StartFails(r)
  BY <1>5, <1>0, FaultIsCounted DEF StartFails, ReferralTo, UserTypes, ReferralTypes, userVars,
     claimVars
<1>6. CASE ReferFind(r)
  BY <1>6, <1>0 DEF ReferFind, ReferralTo, UserTypes, ReferralTypes, CounterTypes, Claiming,
     userVars, counters
<1>7. CASE ReferClaim(r)
  <2>1. claims[r] \in 0..2
    BY <1>7 DEF ReferClaim, Referred
  <2> QED
    BY <1>7, <1>0, <2>1 DEF ReferClaim, ReferralTo, UserTypes, ReferralTypes, CounterTypes,
       Claiming, userVars, counters
<1>8. CASE ReferClaimFails(r)
  BY <1>8, <1>0, FaultIsCounted DEF ReferClaimFails, Refused, ReferralTo, UserTypes,
     ReferralTypes, Claiming, userVars
<1>9. CASE ReferLink(r)
  <2>1. UserOf[r] # ParentOf[r]
    BY <1>9 DEF ReferLink, Referred, Claiming
  <2> QED
    BY <1>9, <1>0, <2>1 DEF ReferLink, ReferralTo, UserTypes, ReferralTypes, CounterTypes,
       claimVars, counters
<1>10. CASE ReferFails(r)
  BY <1>10, <1>0, FaultIsCounted DEF ReferFails, ReferralTo, UserTypes, ReferralTypes, userVars
<1> QED
  BY <1>1, <1>2, <1>3, <1>4, <1>5, <1>6, <1>7, <1>8, <1>9, <1>10 DEF ReferralStep

LEMMA BonusTypeStep ==
    ASSUME TypeOK, Paid, PaidTo, (\E b \in Plays : BonusQueued(b) \/ BonusStart(b)) \/ BonusStep
    PROVE  BonusTypes' /\ CounterTypes'
<1> DEFINE Goal == BonusTypes' /\ CounterTypes'
<1>0. BonusTypes /\ CounterTypes /\ UserTypes
  BY TypesAreParts
<1>i. Idle \in [pc : {"idle"}, job : {None}, parent : {None}]
  BY DEF Idle
<1>1. ASSUME NEW b \in Plays, BonusQueued(b) PROVE Goal
  BY <1>1, <1>0 DEF BonusQueued, JobTo, paidVars, counters, BonusTypes, CounterTypes
<1>2. ASSUME NEW b \in Plays, BonusStart(b) PROVE Goal
  <2>1. worker' = [pc |-> "find", job |-> b, parent |-> None]
    BY <1>2 DEF BonusStart, Idle
  <2>2. worker' \in [pc : {"find"}, job : Plays, parent : {None}]
    BY <2>1
  <2>3. jobs' \in [Plays -> {"none", "waiting", "active", "completed", "failed"}]
    BY <1>2, <1>0 DEF BonusStart, JobTo, BonusTypes
  <2> QED
    BY <1>2, <1>0, <2>2, <2>3 DEF BonusStart, paidVars, counters, BonusTypes, CounterTypes
<1>3. CASE BonusFind
  <2> DEFINE parent == parentId[PlayerOf[worker.job]]
  <2>1. worker.job \in Plays /\ PlayerOf[worker.job] \in Users
    BY <1>3, UsersAssumption DEF BonusFind, Paid
  <2>2. parent \in Users \cup {None}
    BY <1>0, <2>1 DEF UserTypes
  <2>3. \/ worker' \in [pc : {"end"}, job : {worker.job}, parent : {worker.parent}]
        \/ worker' \in [pc : {"parent"}, job : {worker.job}, parent : {parent}]
    <3>1. \/ worker' = [worker EXCEPT !.pc = "end"]
          \/ worker' = [worker EXCEPT !.pc = "parent", !.parent = parent]
      BY <1>3 DEF BonusFind, WorkTo
    <3>2. worker \in [pc : {"idle", "find", "parent", "user", "end", "failing"}, job : Plays \cup {None},
                      parent : Users \cup {None}]
      BY <1>0 DEF BonusTypes
    <3> HIDE DEF parent
    <3> QED
      BY <3>1, <3>2
  <2>4. worker.parent \in Users \cup {None}
    BY <1>0 DEF BonusTypes
  <2> HIDE DEF parent
  <2> QED
    BY <1>3, <1>0, <2>1, <2>2, <2>3, <2>4 DEF BonusFind, paidVars, counters, BonusTypes,
       CounterTypes
<1>4. CASE BonusParent
  <2>1. worker.job \in Plays /\ bonuses[worker.job].parent <= 1 /\ bonuses[worker.job].parent \in Nat
    BY <1>4 DEF BonusParent, Paid
  <2>2. bonuses[worker.job] \in [parent : 0..2, user : 0..2]
    BY <1>0, <2>1 DEF BonusTypes
  <2>3. bonuses' \in [Plays -> [parent : 0..2, user : 0..2]]
    BY <1>4, <1>0, <2>1, <2>2 DEF BonusParent, BonusTypes
  <2>4. worker.parent \in Users
    BY <1>4 DEF BonusParent, PaidTo
  <2> QED
    BY <1>4, <1>0, <2>3, <2>4 DEF BonusParent, WorkTo, counters, BonusTypes, CounterTypes
<1>5. CASE BonusUser
  <2>1. worker.job \in Plays /\ bonuses[worker.job].user <= 1 /\ bonuses[worker.job].user \in Nat
    BY <1>5 DEF BonusUser, Paid
  <2>2. bonuses[worker.job] \in [parent : 0..2, user : 0..2]
    BY <1>0, <2>1 DEF BonusTypes
  <2>3. bonuses' \in [Plays -> [parent : 0..2, user : 0..2]]
    BY <1>5, <1>0, <2>1, <2>2 DEF BonusUser, BonusTypes
  <2> QED
    BY <1>5, <1>0, <2>3 DEF BonusUser, WorkTo, counters, BonusTypes, CounterTypes
<1>6. CASE BonusFails
  <2>1. crashes' = crashes /\ (UNCHANGED faults \/ Fault)
    BY <1>6 DEF BonusFails, Refused
  <2> QED
    BY <1>6, <1>0, <2>1, FaultIsCounted DEF BonusFails, WorkTo, AfterError, paidVars, BonusTypes
<1>7. CASE BonusEnds
  BY <1>7, <1>0, <1>i DEF BonusEnds, JobTo, paidVars, counters, BonusTypes, CounterTypes
<1>8. CASE BonusFindFails
  BY <1>8, <1>0, FaultIsCounted DEF BonusFindFails, WorkTo, paidVars, BonusTypes
<1> QED
  BY <1>1, <1>2, <1>3, <1>4, <1>5, <1>6, <1>7, <1>8 DEF BonusStep

LEMMA ConnectTypeStep ==
    ASSUME TypeOK, NEW k \in Connects, ConnectStep(k)
    PROVE  ConnectTypes' /\ CounterTypes'
<1> DEFINE Goal == ConnectTypes' /\ CounterTypes'
<1>0. ConnectTypes /\ CounterTypes
  BY TypesAreParts
<1>1. CASE ConnectFind(k)
  <2>1. PICK w \in Wanted :
          LET rivals == {o \in Connects \ {k} :
                           AtWork(o) /\ (connect[o].user = w[1] \/ connect[o].address = w[2])}
          IN IF IsFree(w[1], w[2])
             THEN /\ connect' = [connect EXCEPT ![k] = [pc |-> "user", user |-> w[1],
                                                       address |-> w[2]]]
                  /\ raced' = IF rivals = {} THEN raced ELSE raced \cup rivals \cup {k}
             ELSE ConnectTo(k, "done") /\ UNCHANGED raced
    BY <1>1 DEF ConnectFind
  <2>2. w[1] \in Users /\ w[2] \in Addresses
    BY UsersAssumption DEF Addresses
  <2>3. raced' \subseteq Connects
    BY <1>0, <2>1 DEF ConnectTypes
  <2>4. connect' \in [Connects -> [pc : {"idle", "user", "save", "done"}, user : Users \cup {None},
                                  address : Addresses \cup {None}]]
    BY <1>0, <2>1, <2>2 DEF ConnectTypes, ConnectTo
  <2> QED
    BY <1>1, <1>0, <2>3, <2>4 DEF ConnectFind, counters, ConnectTypes, CounterTypes
<1>2. CASE ConnectUser(k)
  BY <1>2, <1>0 DEF ConnectUser, ConnectTo, counters, ConnectTypes, CounterTypes
<1>3. CASE ConnectSave(k)
  BY <1>3, <1>0 DEF ConnectSave, ConnectTo, counters, ConnectTypes, CounterTypes
<1>4. CASE ConnectFails(k)
  BY <1>4, <1>0, FaultIsCounted DEF ConnectFails, ConnectTo, ConnectTypes
<1> QED
  BY <1>1, <1>2, <1>3, <1>4 DEF ConnectStep

LEMMA CrashTypes ==
    ASSUME TypeOK, Paid, Crash
    PROVE  TypeOK'
<1>0. UserTypes /\ ReferralTypes /\ BonusTypes /\ ConnectTypes /\ CounterTypes
  BY TypesAreParts
<1>1. UserTypes'
  BY <1>0 DEF Crash, UserTypes, userVars
<1>2. ReferralTypes'
  <2>1. {UserOf[r] : r \in {x \in Referrals : referral[x] \in Claiming}} \subseteq Users
    BY UsersAssumption
  <2> QED
    BY <1>0, <2>1 DEF Crash, ReferralTypes
<1>3. BonusTypes'
  <2>1. worker' \in [pc : {"idle"}, job : {None}, parent : {None}]
    BY DEF Crash, Idle
  <2>2. /\ jobs' \in [Plays -> {"none", "waiting", "active", "completed", "failed"}]
        /\ stalled' \subseteq Plays
    <3>1. worker.pc # "idle" => worker.job \in Plays
      BY DEF Paid
    <3> QED
      BY <1>0, <3>1 DEF Crash, BonusTypes, JobTo
  <2> QED
    BY <1>0, <2>1, <2>2 DEF Crash, BonusTypes, paidVars
<1>4. ConnectTypes'
  BY <1>0 DEF Crash, ConnectTypes
<1>5. CounterTypes'
  BY <1>0, UsersAssumption DEF Crash, CounterTypes
<1> QED
  BY <1>1, <1>2, <1>3, <1>4, <1>5, TypesAreParts DEF UserTypes, ReferralTypes, BonusTypes, ConnectTypes, CounterTypes, TypeOK

LEMMA TypeStep ==
    ASSUME IInv, [Next]_vars
    PROVE  TypeOK'
<1>0. /\ TypeOK /\ Opened /\ Referred /\ Paid /\ PaidTo
      /\ UserTypes /\ ReferralTypes /\ BonusTypes /\ ConnectTypes /\ CounterTypes
  BY TypesAreParts DEF IInv
<1>a. UNCHANGED userVars /\ UNCHANGED profile => UserTypes'
  BY <1>0 DEF UserTypes, userVars
<1>b. UNCHANGED referralVars => ReferralTypes'
  BY <1>0 DEF ReferralTypes, referralVars
<1>c. UNCHANGED bonusVars => BonusTypes'
  BY <1>0 DEF BonusTypes, bonusVars
<1>d. UNCHANGED tonVars => ConnectTypes'
  BY <1>0 DEF ConnectTypes, tonVars
<1>e. UserTypes' /\ ReferralTypes' /\ BonusTypes' /\ ConnectTypes' /\ CounterTypes' => TypeOK'
  BY DEF TypeOK, UserTypes, ReferralTypes, BonusTypes, ConnectTypes, CounterTypes
<1>1. ASSUME NEW p \in Profiles, ProfileStep(p) PROVE TypeOK'
  BY <1>1, <1>0, <1>b, <1>c, <1>d, <1>e, ProfileTypes, Frames
<1>2. ASSUME NEW r \in Referrals, ReferralStep(r) PROVE TypeOK'
  BY <1>2, <1>0, <1>c, <1>d, <1>e, ReferralTypeStep, Frames
<1>3. CASE (\E b \in Plays : BonusQueued(b) \/ BonusStart(b)) \/ BonusStep
  BY <1>3, <1>0, <1>a, <1>b, <1>d, <1>e, BonusTypeStep, Frames
<1>4. ASSUME NEW k \in Connects, ConnectStep(k) PROVE TypeOK'
  BY <1>4, <1>0, <1>a, <1>b, <1>c, <1>e, ConnectTypeStep, Frames
<1>5. CASE Crash
  BY <1>5, <1>0, CrashTypes
<1>6. CASE UNCHANGED vars
  <2>1. CounterTypes'
    BY <1>6, <1>0 DEF vars, counters, CounterTypes
  <2> QED
    BY <1>6, <2>1, <1>a, <1>b, <1>c, <1>d, <1>e DEF vars
<1> QED
  BY <1>1, <1>2, <1>3, <1>4, <1>5, <1>6 DEF Next

-----------------------------------------------------------------------------
(* Referrals: while nobody else is past the check, the user has no parent. *)
LEMMA ReferredFrame ==
    ASSUME Referred, UNCHANGED <<parentId, referralVars>>
    PROVE  Referred'
BY DEF Referred, referralVars

(* A step of one referral that leaves it before the check or ends it, and  *)
(* writes nothing but where it is.                                         *)
LEMMA ReferredElsewhere ==
    ASSUME TypeOK, Referred, NEW r \in Referrals, NEW pc \in Sent \cup {"done"},
           referral[r] \in Sent \/ referral[r] = pc,
           referral' = [referral EXCEPT ![r] = pc],
           UNCHANGED <<parentId, claims, rewarded, overlapped, unlinked>>
    PROVE  Referred'
<1>1. referral \in [Referrals -> {"idle", "self", "register", "find", "done"} \cup Claiming]
  BY DEF TypeOK
<1>2. referral'[r] = pc /\ \A o \in Referrals \ {r} : referral'[o] = referral[o]
  BY <1>1
<1>3. pc \notin Claiming /\ pc # "claim" /\ pc # "link"
  BY DEF Claiming, Sent
<1>4. \A o \in Referrals : /\ referral'[o] \in Claiming => referral[o] \in Claiming
                           /\ referral'[o] = "claim" => referral[o] = "claim"
  BY <1>2, <1>3
<1>5. referral[r] \in Sent => r \notin rewarded
  BY DEF Referred
<1>6. \A o \in Referrals : referral'[o] \in Sent => claims[o] = 0 /\ o \notin rewarded
  <2>1. CASE referral[r] \in Sent
    BY <1>2, <2>1 DEF Referred
  <2>2. CASE referral[r] = pc
    BY <1>2, <2>2 DEF Referred
  <2> QED
    BY <2>1, <2>2
<1>7. ASSUME NEW o \in Referrals, o \in rewarded, UserOf[o] \notin overlapped, UserOf[o] \notin unlinked
      PROVE  referral'[o] = "link" \/ (referral'[o] = "done" /\ parentId[UserOf[o]] = ParentOf[o])
  BY <1>2, <1>5, <1>7 DEF Referred
<1> QED
  BY <1>4, <1>6, <1>7 DEF Referred

(* What the check of one referral says of the others of the same user. *)
LEMMA AloneBetween ==
    ASSUME Referred, NEW r \in Referrals, referral[r] \in Claiming, UserOf[r] \notin overlapped
    PROVE  /\ parentId[UserOf[r]] = None
           /\ \A o \in Referrals \ {r} : UserOf[o] = UserOf[r] =>
                 /\ referral[o] \notin Claiming
                 /\ UserOf[o] \in unlinked \/ o \notin rewarded
<1>1. parentId[UserOf[r]] = None
  BY DEF Referred
<1>2. ASSUME NEW o \in Referrals \ {r}, UserOf[o] = UserOf[r]
      PROVE  referral[o] \notin Claiming
  BY <1>2 DEF Referred
<1>3. ASSUME NEW o \in Referrals \ {r}, UserOf[o] = UserOf[r], UserOf[o] \notin unlinked, o \in rewarded
      PROVE  FALSE
  <2>1. referral[o] = "link" \/ parentId[UserOf[o]] = ParentOf[o]
    BY <1>3 DEF Referred
  <2>2. ParentOf[o] \in Users /\ None \notin Users
    BY UsersAssumption
  <2> QED
    BY <1>1, <1>2, <1>3, <2>1, <2>2 DEF Claiming
<1> QED
  BY <1>1, <1>2, <1>3

LEMMA ReferredByFind ==
    ASSUME TypeOK, Referred, NEW r \in Referrals, ReferFind(r)
    PROVE  Referred'
<1> DEFINE u == UserOf[r]
<1>0. /\ referral \in [Referrals -> {"idle", "self", "register", "find", "done"} \cup Claiming]
      /\ referral[r] \in Sent
      /\ UNCHANGED <<parentId, claims, rewarded, unlinked>>
  BY DEF TypeOK, ReferFind, Sent, userVars
<1>1. CASE ~MayRefer(u, ParentOf[r])
  BY <1>1, <1>0, ReferredElsewhere DEF ReferFind, ReferralTo, userVars
<1>2. CASE MayRefer(u, ParentOf[r])
  <2>1. /\ referral' = [referral EXCEPT ![r] = "claim"]
        /\ overlapped' = IF \E o \in Referrals \ {r} : UserOf[o] = u /\ referral[o] \in Claiming
                         THEN overlapped \cup {u} ELSE overlapped
    BY <1>2 DEF ReferFind, ReferralTo
  <2>2. referral'[r] = "claim" /\ \A o \in Referrals \ {r} : referral'[o] = referral[o]
    BY <1>0, <2>1
  <2>3. u # ParentOf[r] /\ parentId[u] = None /\ claims[r] = 0 /\ r \notin rewarded
    BY <1>0, <1>2 DEF MayRefer, Referred
  <2>4. overlapped \subseteq overlapped'
    BY <2>1
  <2>5. ASSUME NEW o \in Referrals
        PROVE  /\ referral'[o] \in Sent => claims[o] = 0 /\ o \notin rewarded
               /\ referral'[o] = "claim" => claims[o] \in 0..2 /\ o \notin rewarded
               /\ referral'[o] \in Claiming => UserOf[o] # ParentOf[o]
               /\ referral'[o] \in Claiming /\ UserOf[o] \notin overlapped' => parentId[UserOf[o]] = None
               /\ o \in rewarded /\ UserOf[o] \notin overlapped' /\ UserOf[o] \notin unlinked =>
                     referral'[o] = "link"
                     \/ (referral'[o] = "done" /\ parentId[UserOf[o]] = ParentOf[o])
    <3>1. CASE o = r
      BY <3>1, <2>2, <2>3 DEF Sent
    <3>2. CASE o # r
      BY <3>2, <2>2, <2>4 DEF Referred
    <3> QED
      BY <3>1, <3>2
  <2>6. ASSUME NEW o \in Referrals, NEW o2 \in Referrals, o # o2, UserOf[o] = UserOf[o2],
               UserOf[o] \notin overlapped'
        PROVE  /\ referral'[o] \notin Claiming \/ referral'[o2] \notin Claiming
               /\ UserOf[o] \notin unlinked => o \notin rewarded \/ o2 \notin rewarded
    <3>1. UserOf[o] \notin overlapped
      BY <2>4, <2>6
    <3>2. UserOf[o] \notin unlinked => o \notin rewarded \/ o2 \notin rewarded
      BY <2>6, <3>1 DEF Referred
    <3>3. referral'[o] \notin Claiming \/ referral'[o2] \notin Claiming
      <4>1. CASE o # r /\ o2 # r
        BY <4>1, <2>2, <2>6, <3>1 DEF Referred
      <4>2. CASE o = r
        BY <4>2, <2>1, <2>2, <2>6
      <4>3. CASE o2 = r
        BY <4>3, <2>1, <2>2, <2>6
      <4> QED
        BY <4>1, <4>2, <4>3
    <3> QED
      BY <3>2, <3>3
  <2> QED
    BY <1>0, <2>5, <2>6 DEF Referred
<1> QED
  BY <1>1, <1>2

(* A step from claim: the next call is paid, or the link is all that is left. *)
LEMMA ReferredByClaim ==
    ASSUME TypeOK, Referred, NEW r \in Referrals, referral[r] = "claim",
           NEW pc \in Claiming, referral' = [referral EXCEPT ![r] = pc],
           claims'[r] \in 0..2 \/ pc = "link",
           \A o \in Referrals \ {r} : claims'[o] = claims[o],
           rewarded' = rewarded \/ (rewarded' = rewarded \cup {r} /\ pc = "link"),
           UNCHANGED <<parentId, overlapped, unlinked>>
    PROVE  Referred'
<1>1. referral'[r] = pc /\ \A o \in Referrals \ {r} : referral'[o] = referral[o]
  BY DEF TypeOK
<1>2. referral[r] \in Claiming /\ referral'[r] \in Claiming /\ referral'[r] \notin Sent
      /\ r \notin rewarded /\ (pc = "link" \/ rewarded' = rewarded)
  BY <1>1 DEF Claiming, Sent, Referred
<1>3. \A o \in Referrals : /\ referral'[o] \in Claiming <=> referral[o] \in Claiming
                           /\ o # r => (o \in rewarded' <=> o \in rewarded)
  BY <1>1, <1>2
<1>4. ASSUME NEW o \in Referrals
      PROVE  /\ referral'[o] \in Sent => claims'[o] = 0 /\ o \notin rewarded'
             /\ referral'[o] = "claim" => claims'[o] \in 0..2 /\ o \notin rewarded'
             /\ referral'[o] \in Claiming => UserOf[o] # ParentOf[o]
             /\ referral'[o] \in Claiming /\ UserOf[o] \notin overlapped => parentId[UserOf[o]] = None
             /\ o \in rewarded' /\ UserOf[o] \notin overlapped /\ UserOf[o] \notin unlinked =>
                   referral'[o] = "link"
                   \/ (referral'[o] = "done" /\ parentId[UserOf[o]] = ParentOf[o])
  <2>1. CASE o = r
    <3>1. UserOf[r] # ParentOf[r] /\ (UserOf[r] \notin overlapped => parentId[UserOf[r]] = None)
      BY <1>2 DEF Referred
    <3> QED
      BY <2>1, <1>1, <1>2, <3>1
  <2>2. CASE o # r
    BY <2>2, <1>1, <1>3 DEF Referred
  <2> QED
    BY <2>1, <2>2
<1>5. ASSUME NEW o \in Referrals, NEW o2 \in Referrals, o # o2, UserOf[o] = UserOf[o2],
             UserOf[o] \notin overlapped
      PROVE  /\ referral'[o] \notin Claiming \/ referral'[o2] \notin Claiming
             /\ UserOf[o] \notin unlinked => o \notin rewarded' \/ o2 \notin rewarded'
  <2>1. referral'[o] \notin Claiming \/ referral'[o2] \notin Claiming
    BY <1>3, <1>5 DEF Referred
  <2>2. UserOf[o] \notin unlinked => o \notin rewarded' \/ o2 \notin rewarded'
    <3>1. CASE o # r /\ o2 # r
      BY <3>1, <1>3, <1>5 DEF Referred
    <3>2. CASE o = r
      BY <3>2, <1>2, <1>3, <1>5, AloneBetween
    <3>3. CASE o2 = r
      BY <3>3, <1>2, <1>3, <1>5, AloneBetween
    <3> QED
      BY <3>1, <3>2, <3>3
  <2> QED
    BY <2>1, <2>2
<1> QED
  BY <1>4, <1>5 DEF Referred

(* The link is set, or it is lost. *)
LEMMA ReferredByLink ==
    ASSUME TypeOK, Referred, NEW r \in Referrals, referral[r] = "link",
           referral' = [referral EXCEPT ![r] = "done"],
           \/ parentId' = [parentId EXCEPT ![UserOf[r]] = ParentOf[r]] /\ unlinked' = unlinked
           \/ parentId' = parentId /\ unlinked' = unlinked \cup {UserOf[r]},
           UNCHANGED <<claims, rewarded, overlapped>>
    PROVE  Referred'
<1> DEFINE u == UserOf[r]
<1>1. referral'[r] = "done" /\ \A o \in Referrals \ {r} : referral'[o] = referral[o]
  BY DEF TypeOK
<1>2. u \in Users /\ UserOf[r] # ParentOf[r] /\ referral[r] \in Claiming /\ unlinked \subseteq unlinked'
  BY UsersAssumption DEF Claiming, Referred
<1>3. /\ \A v \in Users \ {u} : parentId'[v] = parentId[v]
      /\ u \notin unlinked' => parentId'[u] = ParentOf[r]
  BY <1>2 DEF TypeOK
<1>4. \A o \in Referrals : referral'[o] \in Claiming => referral[o] \in Claiming /\ o # r
  BY <1>1 DEF Claiming
<1>5. ASSUME NEW o \in Referrals
      PROVE  /\ referral'[o] \in Sent => claims[o] = 0 /\ o \notin rewarded
             /\ referral'[o] = "claim" => claims[o] \in 0..2 /\ o \notin rewarded
             /\ referral'[o] \in Claiming => UserOf[o] # ParentOf[o]
             /\ referral'[o] \in Claiming /\ UserOf[o] \notin overlapped => parentId'[UserOf[o]] = None
             /\ o \in rewarded /\ UserOf[o] \notin overlapped /\ UserOf[o] \notin unlinked' =>
                   referral'[o] = "link"
                   \/ (referral'[o] = "done" /\ parentId'[UserOf[o]] = ParentOf[o])
  <2>0. UserOf[o] \in Users
    BY UsersAssumption
  <2>1. CASE o = r
    BY <2>1, <1>1, <1>3 DEF Claiming, Sent
  <2>2. CASE o # r /\ UserOf[o] = u
    BY <2>2, <1>1, <1>2, AloneBetween DEF Referred
  <2>3. CASE o # r /\ UserOf[o] # u
    BY <2>0, <2>3, <1>1, <1>2, <1>3 DEF Referred
  <2> QED
    BY <2>1, <2>2, <2>3
<1>6. ASSUME NEW o \in Referrals, NEW o2 \in Referrals, o # o2, UserOf[o] = UserOf[o2],
             UserOf[o] \notin overlapped
      PROVE  /\ referral'[o] \notin Claiming \/ referral'[o2] \notin Claiming
             /\ UserOf[o] \notin unlinked' => o \notin rewarded \/ o2 \notin rewarded
  BY <1>2, <1>4, <1>6 DEF Referred
<1> QED
  BY <1>5, <1>6 DEF Referred

LEMMA ReferredByCrash ==
    ASSUME TypeOK, Referred, Crash
    PROVE  Referred'
<1>1. /\ \A r \in Referrals : referral'[r] = IF referral[r] = "idle" THEN "idle" ELSE "done"
      /\ unlinked' = unlinked \cup {UserOf[r] : r \in {x \in Referrals : referral[x] \in Claiming}}
      /\ UNCHANGED <<parentId, claims, rewarded, overlapped>>
  BY DEF Crash, userVars
<1>2. \A r \in Referrals : referral'[r] \notin Claiming /\ referral'[r] # "claim"
                           /\ (referral'[r] \in Sent => referral[r] = "idle")
  BY <1>1 DEF Claiming, Sent
<1>3. ASSUME NEW r \in Referrals, r \in rewarded, UserOf[r] \notin overlapped, UserOf[r] \notin unlinked'
      PROVE  referral'[r] = "done" /\ parentId[UserOf[r]] = ParentOf[r]
  <2>1. referral[r] \notin Claiming /\ UserOf[r] \notin unlinked
    BY <1>1, <1>3
  <2>2. referral[r] = "done" /\ parentId[UserOf[r]] = ParentOf[r]
    BY <1>3, <2>1 DEF Referred, Claiming
  <2> QED
    BY <1>1, <2>2
<1>4. unlinked \subseteq unlinked'
  BY <1>1
<1> QED
  BY <1>1, <1>2, <1>3, <1>4 DEF Referred, Sent

LEMMA RegisteringStep ==
    ASSUME IInv, [Next]_vars
    PROVE  Registering'
<1>0. /\ Registering
      /\ referral \in [Referrals -> {"idle", "self", "register", "find", "done"} \cup Claiming]
      /\ pending \in [Referrals -> SUBSET {"user", "wallet"}]
  BY DEF IInv, TypeOK
<1>f. UNCHANGED referralVars => Registering'
  BY <1>0 DEF Registering, referralVars
<1>1. ASSUME NEW r \in Referrals, ReferralStep(r) PROVE Registering'
  <2>1. CASE StartParent(r)
    BY <2>1, <1>0 DEF StartParent, ReferralTo, Registering
  <2>2. CASE StartSelf(r)
    BY <2>2, <1>0 DEF StartSelf, ReferralTo, Registering
  <2>3. ASSUME NEW call, call \in pending[r], Returned(r, call) PROVE Registering'
    <3>1. referral[r] \in {"register", "done"}
      BY <2>3, <1>0 DEF Registering
    <3> QED
      BY <2>3, <3>1, <1>0 DEF Returned, ReferralTo, Registering
  <2>4. CASE StartUser(r) \/ StartWallet(r)
    BY <2>3, <2>4 DEF StartUser, StartWallet
  <2>5. CASE StartFails(r)
    BY <2>5, <1>0 DEF StartFails, ReferralTo, Registering
  <2>6. CASE ReferFind(r)
    <3>1. pending[r] = {}
      BY <2>6, <1>0 DEF ReferFind, Registering
    <3> QED
      BY <2>6, <3>1, <1>0 DEF ReferFind, ReferralTo, Registering
  <2>7. ASSUME referral[r] \in Claiming, pending' = pending,
               \E pc : referral' = [referral EXCEPT ![r] = pc]
        PROVE  Registering'
    <3>1. pending[r] = {}
      BY <2>7, <1>0 DEF Claiming, Registering
    <3> QED
      BY <2>7, <3>1, <1>0 DEF Registering
  <2>8. CASE ReferClaim(r)
    BY <2>7, <2>8 DEF ReferClaim, ReferralTo, Claiming
  <2>9. CASE ReferClaimFails(r)
    BY <2>7, <2>9 DEF ReferClaimFails, ReferralTo, Claiming
  <2>10. CASE ReferLink(r)
    BY <2>7, <2>10 DEF ReferLink, ReferralTo, Claiming
  <2>11. CASE ReferFails(r)
    BY <2>11, <1>0 DEF ReferFails, ReferralTo, Registering
  <2> QED
    BY <1>1, <2>1, <2>2, <2>4, <2>5, <2>6, <2>8, <2>9, <2>10, <2>11 DEF ReferralStep
<1>2. ASSUME NEW p \in Profiles, ProfileStep(p) PROVE Registering'
  BY <1>2, <1>f, Frames
<1>3. CASE (\E b \in Plays : BonusQueued(b) \/ BonusStart(b)) \/ BonusStep
  BY <1>3, <1>f, Frames
<1>4. ASSUME NEW k \in Connects, ConnectStep(k) PROVE Registering'
  BY <1>4, <1>f, Frames
<1>5. CASE Crash
  BY <1>5, <1>0 DEF Crash, Registering
<1>6. CASE UNCHANGED vars
  BY <1>6, <1>f DEF vars
<1> QED
  BY <1>1, <1>2, <1>3, <1>4, <1>5, <1>6 DEF Next

LEMMA ReferredStep ==
    ASSUME IInv, [Next]_vars
    PROVE  Referred'
<1>0. TypeOK /\ Referred
  BY DEF IInv
<1>1. ASSUME NEW r \in Referrals, ReferralStep(r) PROVE Referred'
  <2>1. CASE StartParent(r)
    <3>1. PICK pc \in Sent \cup {"done"} : referral' = [referral EXCEPT ![r] = pc]
      BY <2>1 DEF StartParent, ReferralTo, Sent
    <3> QED
      BY <2>1, <3>1, <1>0, ReferredElsewhere DEF StartParent, Sent, userVars, claimVars
  <2>2. CASE StartSelf(r)
    <3>1. PICK pc \in Sent \cup {"done"} : referral' = [referral EXCEPT ![r] = pc]
      BY <2>2 DEF StartSelf, ReferralTo, Sent
    <3> QED
      BY <2>2, <3>1, <1>0, ReferredElsewhere DEF StartSelf, Sent, userVars, claimVars
  <2>3. ASSUME NEW call, call \in pending[r], Returned(r, call),
               UNCHANGED <<parentId, claimVars>>
        PROVE  Referred'
    <3>1. CASE referral' = [referral EXCEPT ![r] = referral[r]]
      <4>1. referral' = referral
        BY <3>1, <1>0 DEF TypeOK
      <4> QED
        BY <2>3, <4>1, <1>0 DEF Referred, claimVars
    <3>2. CASE referral[r] = "register" /\ referral' = [referral EXCEPT ![r] = "find"]
      BY <2>3, <3>2, <1>0, ReferredElsewhere DEF Sent, claimVars
    <3> QED
      BY <2>3, <3>1, <3>2 DEF Returned, ReferralTo
  <2>4. CASE StartUser(r) \/ StartWallet(r)
    BY <2>3, <2>4 DEF StartUser, StartWallet
  <2>5. CASE StartFails(r)
    <3>1. referral[r] \in Sent \cup {"done"}
      BY <2>5 DEF StartFails, IInv, Registering, Sent
    <3> QED
      BY <2>5, <3>1, <1>0, ReferredElsewhere DEF StartFails, ReferralTo, userVars, claimVars
  <2>6. CASE ReferFind(r)
    BY <2>6, <1>0, ReferredByFind
  <2>7. CASE ReferClaim(r)
    <3> DEFINE pc == IF claims[r] + 1 = 3 THEN "link" ELSE "claim"
    <3>1. claims[r] \in 0..2 /\ claims \in [Referrals -> 0..3]
      BY <2>7, <1>0 DEF ReferClaim, Referred, TypeOK
    <3>2. /\ pc \in Claiming /\ referral' = [referral EXCEPT ![r] = pc]
          /\ claims' = [claims EXCEPT ![r] = claims[r] + 1]
          /\ rewarded' = IF pc = "link" THEN rewarded \cup {r} ELSE rewarded
          /\ referral[r] = "claim" /\ UNCHANGED <<parentId, overlapped, unlinked>>
      BY <2>7 DEF ReferClaim, ReferralTo, Claiming, userVars
    <3>3. claims'[r] \in 0..2 \/ pc = "link"
      BY <3>1, <3>2
    <3>4. \A o \in Referrals \ {r} : claims'[o] = claims[o]
      BY <3>1, <3>2
    <3> HIDE DEF pc
    <3> QED
      BY <1>0, <3>2, <3>3, <3>4, ReferredByClaim
  <2>8. CASE ReferClaimFails(r)
    BY <2>8, <1>0, ReferredByClaim DEF ReferClaimFails, ReferralTo, Claiming, userVars
  <2>9. CASE ReferLink(r)
    BY <2>9, <1>0, ReferredByLink DEF ReferLink, ReferralTo, claimVars
  <2>10. CASE ReferFails(r)
    <3>1. CASE referral[r] = "link"
      BY <3>1, <2>10, <1>0, ReferredByLink DEF ReferFails, ReferralTo, userVars
    <3>2. CASE referral[r] # "link"
      BY <3>2, <2>10, <1>0, ReferredElsewhere DEF ReferFails, ReferralTo, Sent, userVars
    <3> QED
      BY <3>1, <3>2
  <2> QED
    BY <1>1, <2>1, <2>2, <2>4, <2>5, <2>6, <2>7, <2>8, <2>9, <2>10 DEF ReferralStep
<1>2. ASSUME NEW p \in Profiles, ProfileStep(p) PROVE Referred'
  BY <1>2, <1>0, Frames, ReferredFrame
<1>3. CASE (\E b \in Plays : BonusQueued(b) \/ BonusStart(b)) \/ BonusStep
  BY <1>3, <1>0, Frames, ReferredFrame DEF userVars
<1>4. ASSUME NEW k \in Connects, ConnectStep(k) PROVE Referred'
  BY <1>4, <1>0, Frames, ReferredFrame DEF userVars
<1>5. CASE Crash
  BY <1>5, <1>0, ReferredByCrash
<1>6. CASE UNCHANGED vars
  BY <1>6, <1>0, ReferredFrame DEF vars, userVars
<1> QED
  BY <1>1, <1>2, <1>3, <1>4, <1>5, <1>6 DEF Next

-----------------------------------------------------------------------------
(* The bonus jobs: what each has paid, by where it is. *)
PaidOf(b) ==
    /\ jobs[b] = "active" => worker.pc # "idle" /\ worker.job = b
    /\ bonuses[b].parent \in Nat /\ bonuses[b].user \in Nat
    /\ b \notin stalled => bonuses[b].user <= bonuses[b].parent /\ bonuses[b].parent <= 1
    /\ bonuses[b].parent <= 2 /\ bonuses[b].user <= 2
    /\ jobs[b] \in {"none", "waiting"} \/ (worker.job = b /\ worker.pc \in {"find", "parent"})
          => /\ b \notin stalled => bonuses[b].parent = 0 /\ bonuses[b].user = 0
             /\ bonuses[b].parent <= 1 /\ bonuses[b].user <= 1
    /\ worker.job = b /\ worker.pc = "user" =>
          /\ b \notin stalled => bonuses[b].parent = 1 /\ bonuses[b].user = 0
          /\ bonuses[b].user <= 1
    /\ jobs[b] = "none" => b \notin stalled
AtActive == worker.pc # "idle" => worker.job \in Plays /\ jobs[worker.job] = "active"

LEMMA PaidIsOfEach == Paid <=> AtActive /\ \A b \in Plays : PaidOf(b)
BY DEF Paid, AtActive, PaidOf

(* A step that is not about job b. *)
LEMMA PaidOfOther ==
    ASSUME NEW b \in Plays, PaidOf(b), jobs'[b] = jobs[b], bonuses'[b] = bonuses[b],
           b \in stalled' <=> b \in stalled,
           \/ UNCHANGED worker
           \/ jobs[b] # "active" /\ worker'.job # b
    PROVE  PaidOf(b)'
BY DEF PaidOf

LEMMA PaidStep ==
    ASSUME IInv, [Next]_vars
    PROVE  Paid'
<1>0. /\ Paid /\ AtActive /\ \A b \in Plays : PaidOf(b)
      /\ jobs \in [Plays -> {"none", "waiting", "active", "completed", "failed"}]
      /\ stalled \subseteq Plays
      /\ worker \in [pc : {"idle", "find", "parent", "user", "end", "failing"}, job : Plays \cup {None},
                     parent : Users \cup {None}]
      /\ bonuses \in [Plays -> [parent : 0..2, user : 0..2]]
      /\ None \notin Plays
  BY PaidIsOfEach, UsersAssumption DEF IInv, TypeOK
<1>f. ASSUME UNCHANGED bonusVars PROVE Paid'
  BY <1>0, <1>f DEF bonusVars, Paid
<1>i. Idle.pc = "idle" /\ Idle.job = None
  BY DEF Idle
<1>w. ASSUME NEW b \in Plays, jobs[b] = "active" PROVE worker.pc # "idle" /\ worker.job = b
  BY <1>0, <1>w DEF PaidOf
<1>1. ASSUME NEW b \in Plays, BonusQueued(b) PROVE Paid'
  <2>1. jobs' = [jobs EXCEPT ![b] = "waiting"] /\ jobs[b] = "none"
        /\ UNCHANGED <<stalled, worker, bonuses>>
    BY <1>1 DEF BonusQueued, JobTo, paidVars
  <2>2. PaidOf(b)'
    BY <2>1, <1>0 DEF PaidOf
  <2>3. \A c \in Plays \ {b} : PaidOf(c)'
    BY <2>1, <1>0, PaidOfOther
  <2>4. AtActive'
    BY <2>1, <1>0 DEF AtActive
  <2> QED
    BY <2>2, <2>3, <2>4, PaidIsOfEach DEF Paid, PaidOf, AtActive
<1>2. ASSUME NEW b \in Plays, BonusStart(b) PROVE Paid'
  <2>1. /\ jobs' = [jobs EXCEPT ![b] = "active"] /\ jobs[b] = "waiting" /\ worker.pc = "idle"
        /\ worker'.pc = "find" /\ worker'.job = b
        /\ UNCHANGED <<stalled, bonuses>>
    BY <1>2 DEF BonusStart, JobTo, paidVars, Idle
  <2>2. PaidOf(b)'
    BY <2>1, <1>0 DEF PaidOf
  <2>3. \A c \in Plays \ {b} : PaidOf(c)'
    BY <2>1, <1>0, <1>w, PaidOfOther
  <2>4. AtActive'
    BY <2>1, <1>0 DEF AtActive
  <2> QED
    BY <2>2, <2>3, <2>4 DEF Paid, PaidOf, AtActive
<1>3. ASSUME NEW job \in Plays, worker.job = job, worker.pc # "idle", worker'.job = job,
             worker'.pc # "idle", UNCHANGED <<jobs, stalled>>,
             \A c \in Plays \ {job} : bonuses'[c] = bonuses[c], PaidOf(job)'
      PROVE  Paid'
  <2>1. \A c \in Plays \ {job} : PaidOf(c)'
    BY <1>3, <1>0, <1>w, PaidOfOther
  <2>2. AtActive'
    BY <1>3, <1>0 DEF AtActive
  <2> QED
    BY <1>3, <2>1, <2>2 DEF Paid, PaidOf, AtActive
<1>4. ASSUME NEW job \in Plays, worker.job = job, worker.pc # "idle", worker' = Idle,
             NEW state \in {"completed", "failed"}, jobs' = [jobs EXCEPT ![job] = state],
             UNCHANGED <<stalled, bonuses>>
      PROVE  Paid'
  <2>1. \A c \in Plays \ {job} : PaidOf(c)'
    BY <1>4, <1>0, <1>i, <1>w, PaidOfOther
  <2>2. PaidOf(job)'
    BY <1>4, <1>0, <1>i DEF PaidOf
  <2>3. AtActive'
    BY <1>4, <1>i DEF AtActive
  <2> QED
    BY <2>1, <2>2, <2>3 DEF Paid, PaidOf, AtActive
<1>j. worker.pc # "idle" => worker.job \in Plays /\ PaidOf(worker.job)
  BY <1>0 DEF AtActive
<1>5. CASE BonusFind
  <2> DEFINE parent == parentId[PlayerOf[worker.job]]
  <2>1. CASE parent = None
    <3>1. /\ worker.pc = "find" /\ worker'.pc = "end" /\ worker'.job = worker.job
          /\ UNCHANGED <<jobs, stalled, bonuses>>
      BY <2>1, <1>5, <1>0 DEF BonusFind, WorkTo, paidVars
    <3>2. jobs[worker.job] = "active"
      BY <1>0, <3>1 DEF AtActive
    <3>3. PaidOf(worker.job)'
      BY <3>1, <3>2, <1>j DEF PaidOf
    <3> QED
      BY <3>1, <3>3, <1>3, <1>j
  <2>2. CASE parent # None
    <3>1. /\ worker.pc = "find" /\ worker'.pc = "parent" /\ worker'.job = worker.job
          /\ UNCHANGED <<jobs, stalled, bonuses>>
      BY <2>2, <1>5, <1>0 DEF BonusFind, paidVars
    <3>2. PaidOf(worker.job)'
      BY <3>1, <1>j DEF PaidOf
    <3> QED
      BY <3>1, <3>2, <1>3, <1>j
  <2> QED
    BY <2>1, <2>2
<1>6. CASE BonusParent
  <2> DEFINE b == worker.job
  <2>1. /\ worker.pc = "parent" /\ worker'.pc = "user" /\ worker'.job = b
        /\ UNCHANGED <<jobs, stalled>> /\ b \in Plays /\ PaidOf(b)
    BY <1>6, <1>0, <1>j DEF BonusParent, WorkTo
  <2>2. /\ bonuses' = [bonuses EXCEPT ![b].parent = @ + 1]
        /\ bonuses[b] \in [parent : 0..2, user : 0..2]
    BY <1>6, <1>0, <2>1 DEF BonusParent
  <2>3. /\ bonuses'[b].parent = bonuses[b].parent + 1 /\ bonuses'[b].user = bonuses[b].user
        /\ \A c \in Plays \ {b} : bonuses'[c] = bonuses[c]
    BY <1>0, <2>1, <2>2
  <2>4. jobs[b] = "active"
    BY <1>0, <2>1 DEF AtActive
  <2>5. PaidOf(b)'
    BY <2>1, <2>3, <2>4, <1>0 DEF PaidOf
  <2> HIDE DEF b
  <2> QED
    BY <2>1, <2>3, <2>5, <1>3 DEF b
<1>7. CASE BonusUser
  <2> DEFINE b == worker.job
  <2>1. /\ worker.pc = "user" /\ worker'.pc = "end" /\ worker'.job = b
        /\ UNCHANGED <<jobs, stalled>> /\ b \in Plays /\ PaidOf(b)
    BY <1>7, <1>0, <1>j DEF BonusUser, WorkTo
  <2>2. /\ bonuses' = [bonuses EXCEPT ![b].user = @ + 1]
        /\ bonuses[b] \in [parent : 0..2, user : 0..2]
    BY <1>7, <1>0, <2>1 DEF BonusUser
  <2>3. /\ bonuses'[b].user = bonuses[b].user + 1 /\ bonuses'[b].parent = bonuses[b].parent
        /\ \A c \in Plays \ {b} : bonuses'[c] = bonuses[c]
    BY <1>0, <2>1, <2>2
  <2>4. jobs[b] = "active"
    BY <1>0, <2>1 DEF AtActive
  <2>5. PaidOf(b)'
    BY <2>1, <2>3, <2>4, <1>0 DEF PaidOf
  <2> HIDE DEF b
  <2> QED
    BY <2>1, <2>3, <2>5, <1>3 DEF b
<1>8. CASE BonusFails \/ BonusFindFails
  <2>1. /\ worker.pc # "idle" /\ worker'.pc \in {"end", "failing"} /\ worker'.job = worker.job
        /\ UNCHANGED <<jobs, stalled, bonuses>>
    BY <1>8, <1>0 DEF BonusFails, BonusFindFails, WorkTo, AfterError, paidVars
  <2>2. jobs[worker.job] = "active"
    BY <1>0, <2>1 DEF AtActive
  <2>3. PaidOf(worker.job)'
    BY <2>1, <2>2, <1>j DEF PaidOf
  <2> QED
    BY <2>1, <2>3, <1>3, <1>j
<1>9. CASE BonusEnds
  BY <1>9, <1>4, <1>j DEF BonusEnds, JobTo, paidVars
<1>11. CASE Crash
  <2>1. CASE worker.pc = "idle"
    <3>1. worker' = Idle /\ UNCHANGED <<jobs, stalled, bonuses>>
      BY <1>11, <2>1 DEF Crash, paidVars
    <3>2. \A b \in Plays : PaidOf(b)'
      BY <3>1, <2>1, <1>0, <1>i, <1>w, PaidOfOther
    <3>3. AtActive'
      BY <3>1, <1>i DEF AtActive
    <3> QED
      BY <3>2, <3>3 DEF Paid, PaidOf, AtActive
  <2>2. CASE worker.pc # "idle"
    <3>0. PICK b \in Plays : b = worker.job
      BY <2>2, <1>j
    <3>1. /\ worker' = Idle /\ PaidOf(b) /\ jobs[b] = "active"
          /\ jobs' = [jobs EXCEPT ![b] = IF b \in stalled THEN "failed" ELSE "waiting"]
          /\ stalled' = stalled \cup {b} /\ UNCHANGED bonuses
      BY <1>11, <2>2, <3>0, <1>0, <1>j DEF Crash, JobTo, paidVars, AtActive
    <3>2. \A c \in Plays \ {b} : PaidOf(c)'
      BY <3>1, <1>0, <1>i, <1>w, PaidOfOther
    <3>3. PaidOf(b)'
      BY <3>1, <1>0, <1>i DEF PaidOf
    <3>4. AtActive'
      BY <3>1, <1>i DEF AtActive
    <3> QED
      BY <3>2, <3>3, <3>4 DEF Paid, PaidOf, AtActive
  <2> QED
    BY <2>1, <2>2
<1>12. ASSUME NEW p \in Profiles, ProfileStep(p) PROVE Paid'
  BY <1>12, <1>f, Frames
<1>13. ASSUME NEW r \in Referrals, ReferralStep(r) PROVE Paid'
  BY <1>13, <1>f, Frames
<1>14. ASSUME NEW k \in Connects, ConnectStep(k) PROVE Paid'
  BY <1>14, <1>f, Frames
<1>15. CASE UNCHANGED vars
  BY <1>15, <1>f DEF vars
<1> QED
  BY <1>1, <1>2, <1>5, <1>6, <1>7, <1>8, <1>9, <1>11, <1>12, <1>13, <1>14, <1>15
     DEF Next, BonusStep

-----------------------------------------------------------------------------
(* The parent a bonus went to stays the parent. *)
ToParent(b) ==
    PlayerOf[b] \notin overlapped /\ PlayerOf[b] \notin unlinked =>
        /\ bonusTo[b] \subseteq {parentId[PlayerOf[b]]}
        /\ worker.job = b /\ worker.pc = "parent" => worker.parent = parentId[PlayerOf[b]]

(* No referral takes a user from overlapped or unlinked, nor gives another *)
(* parent to whom it has given one, unless two overlapped.                 *)
LEMMA ParentsStay ==
    ASSUME TypeOK, Referred, NEW r \in Referrals, ReferralStep(r)
    PROVE  /\ overlapped \subseteq overlapped' /\ unlinked \subseteq unlinked'
           /\ \A u \in Users : u \notin overlapped /\ parentId[u] # None =>
                 parentId'[u] = parentId[u]
<1> DEFINE Goal == /\ overlapped \subseteq overlapped' /\ unlinked \subseteq unlinked'
                   /\ \A u \in Users : u \notin overlapped /\ parentId[u] # None =>
                         parentId'[u] = parentId[u]
<1>1. CASE StartParent(r) \/ StartSelf(r) \/ StartUser(r) \/ StartWallet(r) \/ StartFails(r)
  BY <1>1 DEF StartParent, StartSelf, StartUser, StartWallet, StartFails, userVars, claimVars
<1>2. CASE ReferFind(r)
  BY <1>2 DEF ReferFind, userVars
<1>3. CASE ReferClaim(r) \/ ReferClaimFails(r)
  BY <1>3 DEF ReferClaim, ReferClaimFails, userVars
<1>4. CASE ReferLink(r)
  <2>1. UserOf[r] \notin overlapped => parentId[UserOf[r]] = None
    BY <1>4 DEF ReferLink, Referred, Claiming
  <2> QED
    BY <1>4, <2>1 DEF ReferLink, claimVars, TypeOK
<1>5. CASE ReferFails(r)
  BY <1>5 DEF ReferFails, userVars
<1> QED
  BY <1>1, <1>2, <1>3, <1>4, <1>5 DEF ReferralStep

LEMMA PaidToStep ==
    ASSUME IInv, [Next]_vars
    PROVE  PaidTo'
<1>0. /\ TypeOK /\ Referred /\ PaidTo /\ \A b \in Plays : ToParent(b)
      /\ worker \in [pc : {"idle", "find", "parent", "user", "end", "failing"}, job : Plays \cup {None},
                     parent : Users \cup {None}]
      /\ worker.pc # "idle" => worker.job \in Plays
      /\ parentId \in [Users -> Users \cup {None}] /\ bonusTo \in [Plays -> SUBSET Users]
      /\ PlayerOf \in [Plays -> Users] /\ None \notin Plays /\ None \notin Users
  BY UsersAssumption DEF IInv, TypeOK, PaidTo, ToParent, Paid
<1>g. (worker'.pc = "parent" => worker'.parent \in Users) /\ (\A b \in Plays : ToParent(b)') => PaidTo'
  BY DEF PaidTo, ToParent
<1>s. ASSUME UNCHANGED <<parentId, overlapped, unlinked, bonusTo>>, worker'.pc # "parent"
      PROVE  PaidTo'
  BY <1>0, <1>s DEF PaidTo
<1>i. Idle.pc = "idle"
  BY DEF Idle
<1>1. ASSUME NEW r \in Referrals, ReferralStep(r) PROVE PaidTo'
  <2>1. UNCHANGED <<worker, bonusTo>>
    BY <1>1, Frames DEF bonusVars
  <2>2. /\ overlapped \subseteq overlapped' /\ unlinked \subseteq unlinked'
        /\ \A u \in Users : u \notin overlapped /\ parentId[u] # None => parentId'[u] = parentId[u]
    BY <1>1, <1>0, ParentsStay
  <2>3. ASSUME NEW b \in Plays PROVE ToParent(b)'
    <3>1. SUFFICES ASSUME PlayerOf[b] \notin overlapped', PlayerOf[b] \notin unlinked'
                   PROVE  /\ bonusTo[b] \subseteq {parentId'[PlayerOf[b]]}
                          /\ worker.job = b /\ worker.pc = "parent"
                                => worker.parent = parentId'[PlayerOf[b]]
      BY <2>1 DEF ToParent
    <3>2. /\ bonusTo[b] \subseteq {parentId[PlayerOf[b]]}
          /\ worker.job = b /\ worker.pc = "parent" => worker.parent = parentId[PlayerOf[b]]
      BY <3>1, <2>2, <1>0 DEF ToParent
    <3>3. PlayerOf[b] \in Users /\ bonusTo[b] \subseteq Users
      BY <1>0
    <3>4. CASE parentId[PlayerOf[b]] = None
      BY <3>2, <3>3, <3>4, <1>0 DEF PaidTo
    <3>5. CASE parentId[PlayerOf[b]] # None
      BY <3>1, <3>2, <3>3, <3>5, <2>2
    <3> QED
      BY <3>4, <3>5
  <2> QED
    BY <2>1, <2>3, <1>0, <1>g DEF PaidTo
<1>2. ASSUME NEW b \in Plays, BonusQueued(b) \/ BonusStart(b) PROVE PaidTo'
  <2>1. UNCHANGED <<parentId, overlapped, unlinked, bonusTo>>
    BY <1>2, Frames DEF userVars, referralVars, paidVars
  <2>2. UNCHANGED worker \/ worker'.pc = "find"
    BY <1>2 DEF BonusQueued, BonusStart, Idle
  <2> QED
    BY <1>0, <2>1, <2>2, <1>s DEF PaidTo
<1>3. CASE BonusFind
  <2>1. UNCHANGED <<parentId, overlapped, unlinked, bonusTo>>
    BY <1>3 DEF BonusFind, userVars, referralVars, paidVars
  <2>2. PICK b \in Plays : b = worker.job
    BY <1>3, <1>0 DEF BonusFind
  <2>3. CASE parentId[PlayerOf[b]] = None
    <3>1. worker'.pc = "end"
      BY <1>3, <1>0, <2>2, <2>3 DEF BonusFind, WorkTo
    <3> QED
      BY <2>1, <3>1, <1>s
  <2>4. CASE parentId[PlayerOf[b]] # None
    <3>1. worker'.pc = "parent" /\ worker'.job = b /\ worker'.parent = parentId[PlayerOf[b]]
      BY <1>3, <2>2, <2>4, <1>0 DEF BonusFind
    <3>2. parentId[PlayerOf[b]] \in Users
      BY <2>4, <1>0
    <3>3. \A c \in Plays : ToParent(c)'
      BY <3>1, <2>1, <1>0 DEF ToParent
    <3> QED
      BY <3>1, <3>2, <3>3, <1>g
  <2> QED
    BY <2>3, <2>4
<1>4. CASE BonusParent
  <2>1. UNCHANGED <<parentId, overlapped, unlinked>> /\ worker.pc = "parent" /\ worker'.pc = "user"
    BY <1>4, <1>0 DEF BonusParent, WorkTo, userVars, referralVars
  <2>2. PICK b \in Plays : b = worker.job
    BY <1>0, <2>1
  <2>3. bonusTo' = [bonusTo EXCEPT ![b] = @ \cup {worker.parent}]
    BY <1>4, <2>2 DEF BonusParent
  <2>4. bonusTo'[b] = bonusTo[b] \cup {worker.parent} /\ \A c \in Plays \ {b} : bonusTo'[c] = bonusTo[c]
    BY <1>0, <2>3
  <2>5. \A c \in Plays : ToParent(c)'
    BY <2>1, <2>2, <2>4, <1>0 DEF ToParent
  <2> QED
    BY <2>1, <2>5, <1>g
<1>5. CASE BonusUser \/ BonusFails \/ BonusFindFails
  <2>1. UNCHANGED <<parentId, overlapped, unlinked, bonusTo>>
    BY <1>5 DEF BonusUser, BonusFails, BonusFindFails, userVars, referralVars, paidVars
  <2>2. worker'.pc \in {"end", "failing"}
    BY <1>5, <1>0 DEF BonusUser, BonusFails, BonusFindFails, WorkTo, AfterError
  <2> QED
    BY <2>1, <2>2, <1>s
<1>6. CASE BonusEnds
  BY <1>6, <1>i, <1>s DEF BonusEnds, userVars, referralVars, paidVars
<1>7. CASE Crash
  <2>1. worker'.pc = "idle" /\ UNCHANGED <<parentId, overlapped, bonusTo>> /\ unlinked \subseteq unlinked'
    BY <1>7, <1>i DEF Crash, userVars, paidVars
  <2>2. \A b \in Plays : ToParent(b)'
    BY <2>1, <1>0 DEF ToParent
  <2> QED
    BY <2>1, <2>2, <1>g
<1>8. ASSUME UNCHANGED <<parentId, overlapped, unlinked, bonusTo, worker>> PROVE PaidTo'
  BY <1>8, <1>0 DEF PaidTo
<1>9. ASSUME NEW p \in Profiles, ProfileStep(p) PROVE PaidTo'
  BY <1>9, <1>8, Frames DEF referralVars, bonusVars
<1>10. ASSUME NEW k \in Connects, ConnectStep(k) PROVE PaidTo'
  BY <1>10, <1>8, Frames DEF userVars, referralVars, bonusVars
<1>11. CASE UNCHANGED vars
  BY <1>11, <1>8 DEF vars, userVars, referralVars, bonusVars
<1> QED
  BY <1>1, <1>2, <1>3, <1>4, <1>5, <1>6, <1>7, <1>9, <1>10, <1>11 DEF Next, BonusStep

-----------------------------------------------------------------------------
(* Registrations: the wallet is there, on its way, or a call failed. *)
Broken == faults > 0 \/ crashes > 0
OpenedFor(u) ==
    \/ HasWallet(u) \/ Broken
    \/ \E p \in Profiles : UserOf[p] = u /\ profile[p] = "wallet"
    \/ \E r \in Referrals : UserOf[r] = u /\ "wallet" \in pending[r]
FoundBroken(r) ==
    "user" \in pending[r] /\ "wallet" \notin pending[r] => HasWallet(UserOf[r]) \/ Broken

LEMMA OpenedIsOfEach ==
    Opened <=> /\ \A u \in Registered : HasWallet(u)
               /\ \A r \in Referrals : FoundBroken(r)
               /\ \A u \in registered : OpenedFor(u)
BY DEF Opened, UsersHaveWallets, FoundBroken, OpenedFor, Broken

(* A step that loses no wallet, and no call that would open one but by a fault. *)
LEMMA OpenedKept ==
    ASSUME TypeOK, Opened,
           \A u \in Users : HasWallet(u) => HasWallet(u)',
           Broken => Broken',
           \A r \in Referrals : "user" \in pending'[r] /\ "wallet" \notin pending'[r] =>
              HasWallet(UserOf[r])' \/ Broken' \/ ("user" \in pending[r] /\ "wallet" \notin pending[r]),
           \A p \in Profiles : profile[p] = "wallet" =>
              profile'[p] = "wallet" \/ HasWallet(UserOf[p])' \/ Broken',
           \A r \in Referrals : "wallet" \in pending[r] =>
              "wallet" \in pending'[r] \/ HasWallet(UserOf[r])' \/ Broken',
           \A u \in registered' \ registered : OpenedFor(u)'
    PROVE  Opened'
<1>1. \A r \in Referrals : UserOf[r] \in Users
  BY UsersAssumption
<1>2. \A u \in Registered : HasWallet(u)'
  BY UsersAssumption DEF Opened
<1>3. \A r \in Referrals : FoundBroken(r)'
  BY <1>1, OpenedIsOfEach DEF FoundBroken
<1>4. ASSUME NEW u \in registered' PROVE OpenedFor(u)'
  <2>1. CASE u \in registered
    <3>1. u \in Users /\ OpenedFor(u)
      BY <2>1, OpenedIsOfEach DEF TypeOK
    <3>2. CASE HasWallet(u) \/ Broken
      BY <3>1, <3>2 DEF OpenedFor
    <3>3. CASE \E p \in Profiles : UserOf[p] = u /\ profile[p] = "wallet"
      BY <3>3 DEF OpenedFor
    <3>4. CASE \E r \in Referrals : UserOf[r] = u /\ "wallet" \in pending[r]
      BY <3>4 DEF OpenedFor
    <3> QED
      BY <3>1, <3>2, <3>3, <3>4 DEF OpenedFor
  <2> QED
    BY <1>4, <2>1
<1> QED
  BY <1>2, <1>3, <1>4 DEF Opened, UsersHaveWallets, FoundBroken, OpenedFor, Broken

(* After a failed call nothing is promised of wallets. *)
LEMMA FaultBreaks ==
    ASSUME TypeOK
    PROVE  /\ Fault /\ crashes' = crashes => Broken'
           /\ (UNCHANGED faults \/ Fault) /\ crashes' = crashes /\ Broken => Broken'
BY UsersAssumption DEF TypeOK, Fault, Broken

(* A user whose requests and wallet stay keeps what he was promised. *)
LEMMA OpenedUntouched ==
    ASSUME Opened, UNCHANGED <<registered, wallets, pending>>, Broken => Broken',
           \A p \in Profiles : profile[p] = "wallet" => profile'[p] = "wallet"
    PROVE  Opened'
<1>1. \A u \in Users : HasWallet(u)' <=> HasWallet(u)
  BY DEF HasWallet
<1>2. \A u \in Registered : HasWallet(u)'
  BY <1>1, UsersAssumption DEF Opened
<1>3. \A r \in Referrals : FoundBroken(r)'
  BY OpenedIsOfEach DEF FoundBroken, HasWallet
<1>4. \A u \in registered' : OpenedFor(u)'
  BY OpenedIsOfEach DEF OpenedFor, HasWallet
<1> QED
  BY <1>2, <1>3, <1>4 DEF Opened, UsersHaveWallets, FoundBroken, OpenedFor, Broken

LEMMA OpenedBroken ==
    ASSUME TypeOK, Opened, Broken', UNCHANGED wallets
    PROVE  Opened'
<1>1. \A u \in Registered : HasWallet(u)'
  BY DEF Opened, HasWallet
<1> QED
  BY <1>1 DEF Opened, UsersHaveWallets, Broken

LEMMA OpenedStep ==
    ASSUME IInv, [Next]_vars
    PROVE  Opened'
<1>0. /\ TypeOK /\ Opened
      /\ registered \subseteq Users
      /\ profile \in [Profiles -> {"idle", "create", "wallet", "done"}]
      /\ pending \in [Referrals -> SUBSET {"user", "wallet"}]
      /\ \A r \in Profiles \cup Referrals : UserOf[r] \in Users
  BY UsersAssumption DEF IInv, TypeOK
<1>u. UNCHANGED wallets => \A u \in Users : HasWallet(u)' <=> HasWallet(u)
  BY DEF HasWallet
<1>1. ASSUME NEW p \in Profiles, ProfileStep(p) PROVE Opened'
  <2>0. UNCHANGED pending
    BY <1>1, Frames DEF referralVars
  <2>1. CASE ProfileGet(p)
    <3>1. /\ UNCHANGED <<registered, wallets, faults, crashes>>
          /\ profile[p] = "idle" /\ \A q \in Profiles \ {p} : profile'[q] = profile[q]
      BY <2>1, <1>0 DEF ProfileGet, ProfileTo, userVars, counters
    <3> QED
      BY <2>0, <3>1, <1>0, OpenedUntouched DEF Broken
  <2>2. CASE ProfileCreate(p)
    <3>1. /\ UNCHANGED <<wallets, faults, crashes>> /\ registered' = registered \cup {UserOf[p]}
          /\ profile'[p] = "wallet" /\ \A q \in Profiles \ {p} : profile'[q] = profile[q]
      BY <2>2, <1>0 DEF ProfileCreate, ProfileTo, AfterUser, userVars, counters
    <3>2. OpenedFor(UserOf[p])'
      BY <3>1 DEF OpenedFor
    <3>3. \A u \in registered' \ registered : OpenedFor(u)'
      BY <3>1, <3>2 DEF OpenedFor
    <3>4. Broken => Broken'
      BY <3>1 DEF Broken
    <3>5. \A q \in Profiles : profile[q] = "wallet" => profile'[q] = "wallet"
      BY <3>1
    <3> QED
      BY <2>0, <3>1, <3>3, <3>4, <3>5, <1>0, <1>u, OpenedKept
  <2>3. CASE ProfileWallet(p)
    <3> DEFINE isPremium == UserOf[p] \in Premium
    <3>a. isPremium \in BOOLEAN /\ getOrCreateWallet(UserOf[p], isPremium)
      BY <2>3 DEF ProfileWallet
    <3> HIDE DEF isPremium
    <3>1. HasWallet(UserOf[p])' /\ \A u \in Users : HasWallet(u) => HasWallet(u)'
      BY <3>a, <1>0, WalletIsOpened
    <3>2. /\ UNCHANGED <<registered, faults, crashes>>
          /\ \A q \in Profiles \ {p} : profile'[q] = profile[q]
      BY <2>3, <1>0 DEF ProfileWallet, ProfileTo, counters
    <3>3. Broken => Broken'
      BY <3>2 DEF Broken
    <3> QED
      BY <2>0, <3>1, <3>2, <3>3, <1>0, OpenedKept
  <2>4. CASE ProfileFails(p)
    <3>1. Broken' /\ UNCHANGED wallets
      BY <2>4, <1>0, FaultBreaks DEF ProfileFails, userVars
    <3> QED
      BY <3>1, <1>0, OpenedBroken
  <2> QED
    BY <1>1, <2>1, <2>2, <2>3, <2>4 DEF ProfileStep
<1>2. ASSUME NEW r \in Referrals, ReferralStep(r) PROVE Opened'
  <2>0. UNCHANGED profile /\ crashes' = crashes
    BY <1>2, Frames
  <2>1. CASE StartParent(r) \/ ReferFind(r) \/ ReferClaim(r) \/ ReferLink(r)
    <3>1. UNCHANGED <<registered, wallets, pending, faults>>
      BY <2>1 DEF StartParent, ReferFind, ReferClaim, ReferLink, userVars, counters
    <3> QED
      BY <2>0, <3>1, <1>0, OpenedUntouched DEF Broken
  <2>2. CASE ReferClaimFails(r) \/ ReferFails(r)
    <3>1. UNCHANGED <<registered, wallets, pending>> /\ (UNCHANGED faults \/ Fault)
      BY <2>2 DEF ReferClaimFails, Refused, ReferFails, userVars
    <3>2. Broken => Broken'
      BY <2>0, <3>1, <1>0, FaultBreaks
    <3> QED
      BY <2>0, <3>1, <3>2, <1>0, OpenedUntouched
  <2>3. CASE StartSelf(r)
    <3>1. /\ UNCHANGED <<registered, wallets, faults>>
          /\ pending'[r] = pending[r] \/ pending'[r] = {"user", "wallet"}
          /\ \A o \in Referrals \ {r} : pending'[o] = pending[o]
      BY <2>3, <1>0 DEF StartSelf, userVars, counters
    <3>2. Broken => Broken'
      BY <2>0, <3>1 DEF Broken
    <3> QED
      BY <2>0, <3>1, <3>2, <1>0, <1>u, OpenedKept
  <2>4. CASE StartUser(r)
    <3>1. /\ UNCHANGED <<wallets, faults>> /\ registered' = registered \cup {UserOf[r]}
          /\ "user" \in pending[r] /\ pending'[r] = pending[r] \ {"user"}
          /\ \A o \in Referrals \ {r} : pending'[o] = pending[o]
      BY <2>4, <1>0 DEF StartUser, Returned, counters
    <3>2. Broken => Broken'
      BY <2>0, <3>1 DEF Broken
    <3>3. OpenedFor(UserOf[r])'
      <4>1. CASE "wallet" \in pending[r]
        BY <4>1, <3>1 DEF OpenedFor
      <4>2. CASE "wallet" \notin pending[r]
        BY <4>2, <3>1, <3>2, <1>0, <1>u, OpenedIsOfEach DEF OpenedFor, FoundBroken
      <4> QED
        BY <4>1, <4>2
    <3>4. \A u \in registered' \ registered : OpenedFor(u)'
      BY <3>1, <3>3 DEF OpenedFor
    <3> QED
      BY <2>0, <3>1, <3>2, <3>4, <1>0, <1>u, OpenedKept
  <2>5. CASE StartWallet(r)
    <3>1. HasWallet(UserOf[r])' /\ \A u \in Users : HasWallet(u) => HasWallet(u)'
      BY <2>5, <1>0, WalletIsOpened DEF StartWallet
    <3>2. /\ UNCHANGED <<registered, faults>> /\ pending'[r] = pending[r] \ {"wallet"}
          /\ \A o \in Referrals \ {r} : pending'[o] = pending[o]
      BY <2>5, <1>0 DEF StartWallet, Returned, counters
    <3>3. Broken => Broken'
      BY <2>0, <3>2 DEF Broken
    <3> QED
      BY <2>0, <3>1, <3>2, <3>3, <1>0, OpenedKept
  <2>6. CASE StartFails(r)
    <3>1. Broken' /\ UNCHANGED wallets
      BY <2>6, <2>0, <1>0, FaultBreaks DEF StartFails, userVars
    <3> QED
      BY <3>1, <1>0, OpenedBroken
  <2> QED
    BY <1>2, <2>1, <2>2, <2>3, <2>4, <2>5, <2>6 DEF ReferralStep
<1>3. ASSUME UNCHANGED <<userVars, profile, referralVars, crashes>>, UNCHANGED faults \/ Fault
      PROVE  Opened'
  <2>1. Broken => Broken'
    BY <1>3, <1>0, FaultBreaks
  <2> QED
    BY <1>3, <2>1, <1>0, OpenedUntouched DEF userVars, referralVars
<1>4. ASSUME NEW b \in Plays, BonusQueued(b) \/ BonusStart(b) PROVE Opened'
  BY <1>4, <1>3, Frames
<1>5. CASE BonusStep
  <2>1. UNCHANGED faults \/ Fault
    BY <1>5 DEF BonusStep, BonusFind, BonusParent, BonusUser, BonusFails, BonusEnds,
       BonusFindFails, Refused, counters
  <2> QED
    BY <1>5, <2>1, <1>3, Frames
<1>6. ASSUME NEW k \in Connects, ConnectStep(k) PROVE Opened'
  <2>1. UNCHANGED faults \/ Fault
    BY <1>6 DEF ConnectStep, ConnectFind, ConnectUser, ConnectSave, ConnectFails, counters
  <2> QED
    BY <1>6, <2>1, <1>3, Frames
<1>7. CASE Crash
  <2>1. crashes \in Nat /\ crashes' = crashes + 1 /\ UNCHANGED wallets
    BY <1>7, <1>0, UsersAssumption DEF Crash, TypeOK, userVars
  <2>2. Broken'
    BY <2>1 DEF Broken
  <2> QED
    BY <2>1, <2>2, <1>0, OpenedBroken
<1>8. CASE UNCHANGED vars
  BY <1>8, <1>3 DEF vars, counters
<1> QED
  BY <1>1, <1>2, <1>4, <1>5, <1>6, <1>7, <1>8 DEF Next

-----------------------------------------------------------------------------
(* Addresses: while no other request about them is at work, the address is *)
(* free and the user has none.                                             *)
FreeFor(k) ==
    /\ k \in raced => connect[k].pc # "idle"
    /\ AtWork(k) => connect[k].user \in Users
    /\ AtWork(k) /\ k \notin raced =>
          /\ \A v \in Users : v # connect[k].user => tonAddress[v] # connect[k].address
          /\ connect[k].pc = "save" => tonAddress[connect[k].user] = None
Rivals(k, o) == connect[k].user = connect[o].user \/ connect[k].address = connect[o].address
RivalsRace ==
    \A k, o \in Connects : k # o /\ AtWork(k) /\ AtWork(o) /\ Rivals(k, o) => k \in raced

LEMMA ConnectedIsOfEach ==
    Connected <=> (\A k \in Connects : FreeFor(k)) /\ RivalsRace /\ AddressOfOneUser
BY DEF Connected, FreeFor, Rivals, RivalsRace

(* Some requests end, nothing else changes. *)
LEMMA ConnectedEnds ==
    ASSUME TypeOK, Connected, UNCHANGED <<tonAddress, raced>>,
           \A k \in Connects :
              \/ connect'[k] = connect[k]
              \/ /\ connect'[k].pc = "done"
                 /\ connect'[k].user = connect[k].user /\ connect'[k].address = connect[k].address
    PROVE  Connected'
<1>1. \A k \in Connects : AtWork(k)' => AtWork(k) /\ connect'[k] = connect[k]
  BY DEF AtWork
<1>2. \A k \in Connects : FreeFor(k)'
  BY <1>1, ConnectedIsOfEach DEF FreeFor
<1>3. RivalsRace'
  BY <1>1, ConnectedIsOfEach DEF RivalsRace, Rivals
<1>4. AddressOfOneUser'
  <2>1. \A k \in raced : k \in Connects /\ connect[k].pc # "idle"
    BY DEF TypeOK, Connected
  <2>2. \A k \in raced : connect'[k].address = connect[k].address
    BY <2>1
  <2> QED
    BY <2>2, ConnectedIsOfEach DEF AddressOfOneUser
<1> QED
  BY <1>2, <1>3, <1>4 DEF Connected, FreeFor, Rivals, RivalsRace

LEMMA ConnectedByFind ==
    ASSUME TypeOK, Connected, NEW k \in Connects, ConnectFind(k)
    PROVE  Connected'
<1>0. /\ connect \in [Connects -> [pc : {"idle", "user", "save", "done"}, user : Users \cup {None},
                                   address : Addresses \cup {None}]]
      /\ raced \subseteq Connects /\ connect[k].pc = "idle" /\ k \notin raced /\ UNCHANGED tonAddress
  BY DEF TypeOK, ConnectFind, Connected
<1>1. PICK w \in Wanted :
        LET rivals == {o \in Connects \ {k} :
                         AtWork(o) /\ (connect[o].user = w[1] \/ connect[o].address = w[2])}
        IN IF IsFree(w[1], w[2])
           THEN /\ connect' = [connect EXCEPT ![k] = [pc |-> "user", user |-> w[1],
                                                     address |-> w[2]]]
                /\ raced' = IF rivals = {} THEN raced ELSE raced \cup rivals \cup {k}
           ELSE ConnectTo(k, "done") /\ UNCHANGED raced
  BY DEF ConnectFind
<1>2. CASE ~IsFree(w[1], w[2])
  BY <1>0, <1>1, <1>2, ConnectedEnds DEF ConnectTo
<1>3. CASE IsFree(w[1], w[2])
  <2> DEFINE rivals == {o \in Connects \ {k} :
                         AtWork(o) /\ (connect[o].user = w[1] \/ connect[o].address = w[2])}
  <2>1. /\ connect'[k].pc = "user" /\ connect'[k].user = w[1] /\ connect'[k].address = w[2]
        /\ \A o \in Connects \ {k} : connect'[o] = connect[o]
        /\ w[1] \in Users
    BY <1>0, <1>1, <1>3, UsersAssumption
  <2>2. raced' = (IF rivals = {} THEN raced ELSE raced \cup rivals \cup {k}) /\ raced \subseteq raced'
    BY <1>1, <1>3
  <2>3. \A o \in Connects \ {k} : AtWork(o)' <=> AtWork(o)
    BY <2>1 DEF AtWork
  <2>4. FreeFor(k)'
    BY <2>1, <1>0, <1>3 DEF FreeFor, IsFree
  <2>5. ASSUME NEW o \in Connects \ {k} PROVE FreeFor(o)'
    <3>1. FreeFor(o)
      BY ConnectedIsOfEach
    <3>2. o \in raced' => o \in raced \/ o \in rivals
      BY <2>2
    <3>3. o \in rivals => connect[o].pc # "idle"
      BY DEF AtWork
    <3> HIDE DEF rivals
    <3> QED
      BY <3>1, <3>2, <3>3, <2>1, <2>2, <2>3, <1>0 DEF FreeFor
  <2>6. RivalsRace'
    <3>1. \A o \in Connects \ {k} : AtWork(o) /\ Rivals(k, o)' => o \in rivals
      BY <2>1 DEF Rivals
    <3>2. \A o \in Connects \ {k} : Rivals(o, k)' => Rivals(k, o)'
      BY DEF Rivals
    <3>3. \A o \in Connects \ {k} : AtWork(o) /\ Rivals(k, o)' => o \in raced' /\ k \in raced'
      BY <2>2, <3>1
    <3>4. \A o, p \in Connects \ {k} : Rivals(o, p)' <=> Rivals(o, p)
      BY <2>1 DEF Rivals
    <3> HIDE DEF rivals
    <3>5. ASSUME NEW o \in Connects, NEW p \in Connects, o # p, AtWork(o)', AtWork(p)', Rivals(o, p)'
          PROVE  o \in raced'
      <4>1. CASE o = k
        BY <4>1, <3>3, <3>5, <2>3
      <4>2. CASE p = k
        BY <4>2, <3>2, <3>3, <3>5, <2>3
      <4>3. CASE o # k /\ p # k
        BY <4>3, <3>4, <3>5, <2>2, <2>3, ConnectedIsOfEach DEF RivalsRace
      <4> QED
        BY <4>1, <4>2, <4>3
    <3> QED
      BY <3>5 DEF RivalsRace
  <2>7. AddressOfOneUser'
    <3>1. \A o \in raced : connect'[o].address = connect[o].address
      BY <1>0, <2>1
    <3> HIDE DEF rivals
    <3> QED
      BY <3>1, <2>2, <1>0, ConnectedIsOfEach DEF AddressOfOneUser
  <2> QED
    BY <2>4, <2>5, <2>6, <2>7 DEF Connected, FreeFor, Rivals, RivalsRace
<1> QED
  BY <1>2, <1>3

LEMMA ConnectedByUser ==
    ASSUME TypeOK, Connected, NEW k \in Connects, ConnectUser(k)
    PROVE  Connected'
<1>0. /\ connect \in [Connects -> [pc : {"idle", "user", "save", "done"}, user : Users \cup {None},
                                   address : Addresses \cup {None}]]
      /\ connect[k].pc = "user" /\ UNCHANGED <<tonAddress, raced>>
  BY DEF TypeOK, ConnectUser
<1>1. CASE ~MayConnect(connect[k].user, connect[k].address)
  BY <1>0, <1>1, ConnectedEnds DEF ConnectUser, ConnectTo
<1>2. CASE MayConnect(connect[k].user, connect[k].address)
  <2>1. /\ connect'[k].pc = "save" /\ connect'[k].user = connect[k].user
        /\ connect'[k].address = connect[k].address
        /\ \A o \in Connects \ {k} : connect'[o] = connect[o]
    BY <1>0, <1>2 DEF ConnectUser, ConnectTo
  <2>2. \A o \in Connects : AtWork(o)' <=> AtWork(o)
    BY <1>0, <2>1 DEF AtWork
  <2>3. \A o, p \in Connects : Rivals(o, p)' <=> Rivals(o, p)
    BY <2>1 DEF Rivals
  <2>4. FreeFor(k)'
    BY <1>0, <1>2, <2>1, <2>2, ConnectedIsOfEach DEF FreeFor, MayConnect
  <2>5. \A o \in Connects \ {k} : FreeFor(o)'
    BY <1>0, <2>1, <2>2, ConnectedIsOfEach DEF FreeFor
  <2>6. RivalsRace'
    BY <1>0, <2>2, <2>3, ConnectedIsOfEach DEF RivalsRace
  <2>7. \A o \in Connects : connect'[o].address = connect[o].address
    BY <2>1
  <2>8. AddressOfOneUser'
    <3>1. \A o \in raced : o \in Connects
      BY DEF TypeOK
    <3> QED
      BY <1>0, <2>7, <3>1, ConnectedIsOfEach DEF AddressOfOneUser
  <2> QED
    BY <2>4, <2>5, <2>6, <2>8 DEF Connected, FreeFor, Rivals, RivalsRace
<1> QED
  BY <1>1, <1>2

LEMMA ConnectedBySave ==
    ASSUME TypeOK, Connected, NEW k \in Connects, ConnectSave(k)
    PROVE  Connected'
<1> DEFINE u == connect[k].user
           address == connect[k].address
<1>0. /\ connect \in [Connects -> [pc : {"idle", "user", "save", "done"}, user : Users \cup {None},
                                   address : Addresses \cup {None}]]
      /\ tonAddress \in [Users -> Addresses \cup {None}] /\ raced \subseteq Connects
      /\ connect[k].pc = "save" /\ AtWork(k) /\ UNCHANGED raced /\ FreeFor(k)
  BY ConnectedIsOfEach DEF TypeOK, ConnectSave, AtWork
<1>1. u \in Users
  BY <1>0 DEF FreeFor
<1>2. tonAddress'[u] = address /\ \A v \in Users \ {u} : tonAddress'[v] = tonAddress[v]
  BY <1>0, <1>1 DEF ConnectSave
<1>3. /\ connect'[k].pc = "done" /\ \A o \in Connects : connect'[o].address = connect[o].address
      /\ \A o \in Connects \ {k} : connect'[o] = connect[o]
  BY <1>0 DEF ConnectSave, ConnectTo
<1>4. \A o \in Connects : AtWork(o)' => AtWork(o) /\ o # k
  BY <1>3 DEF AtWork
<1>5. ASSUME NEW o \in Connects \ {k} PROVE FreeFor(o)'
  <2>1. FreeFor(o)
    BY ConnectedIsOfEach
  <2>2. CASE AtWork(o) /\ o \notin raced
    <3>1. connect[o].user # u /\ connect[o].address # address
      BY <1>0, <2>2, ConnectedIsOfEach DEF RivalsRace, Rivals
    <3>2. connect[o].user \in Users
      BY <2>1, <2>2 DEF FreeFor
    <3> QED
      BY <1>0, <1>1, <1>2, <1>3, <2>1, <2>2, <3>1, <3>2 DEF FreeFor, AtWork
  <2>3. CASE ~(AtWork(o) /\ o \notin raced)
    BY <1>0, <1>3, <2>1, <2>3 DEF FreeFor, AtWork
  <2> QED
    BY <2>2, <2>3
<1>6. FreeFor(k)'
  BY <1>0, <1>3 DEF FreeFor, AtWork
<1>7. RivalsRace'
  BY <1>0, <1>3, <1>4, ConnectedIsOfEach DEF RivalsRace, Rivals
<1>8. AddressOfOneUser'
  <2>1. SUFFICES ASSUME NEW a \in Users, NEW b \in Users, a # b, tonAddress'[a] # None,
                        tonAddress'[a] = tonAddress'[b]
                 PROVE  \E o \in raced : connect'[o].address = tonAddress'[a]
    BY <1>0 DEF AddressOfOneUser
  <2>2. CASE k \in raced /\ (a = u \/ b = u)
    BY <2>1, <2>2, <1>2, <1>3
  <2>3. CASE k \notin raced /\ (a = u \/ b = u)
    BY <2>1, <2>3, <1>0, <1>1, <1>2 DEF FreeFor
  <2>4. CASE a # u /\ b # u
    <3>1. \E o \in raced : connect[o].address = tonAddress[a]
      BY <2>1, <2>4, <1>2, ConnectedIsOfEach DEF AddressOfOneUser
    <3> QED
      BY <3>1, <2>4, <1>0, <1>2, <1>3
  <2> QED
    BY <2>2, <2>3, <2>4
<1> QED
  BY <1>5, <1>6, <1>7, <1>8 DEF Connected, FreeFor, Rivals, RivalsRace

LEMMA ConnectedStep ==
    ASSUME IInv, [Next]_vars
    PROVE  Connected'
<1>0. /\ TypeOK /\ Connected
      /\ connect \in [Connects -> [pc : {"idle", "user", "save", "done"}, user : Users \cup {None},
                                   address : Addresses \cup {None}]]
  BY DEF IInv, TypeOK
<1>f. ASSUME UNCHANGED tonVars PROVE Connected'
  BY <1>0, <1>f, ConnectedEnds DEF tonVars
<1>1. ASSUME NEW k \in Connects, ConnectStep(k) PROVE Connected'
  <2>1. CASE ConnectFails(k)
    BY <2>1, <1>0, ConnectedEnds DEF ConnectFails, ConnectTo
  <2> QED
    BY <1>1, <2>1, <1>0, ConnectedByFind, ConnectedByUser, ConnectedBySave DEF ConnectStep
<1>2. CASE Crash
  BY <1>2, <1>0, ConnectedEnds DEF Crash
<1>3. ASSUME NEW p \in Profiles, ProfileStep(p) PROVE Connected'
  BY <1>3, <1>f, Frames
<1>4. ASSUME NEW r \in Referrals, ReferralStep(r) PROVE Connected'
  BY <1>4, <1>f, Frames
<1>5. CASE (\E b \in Plays : BonusQueued(b) \/ BonusStart(b)) \/ BonusStep
  BY <1>5, <1>f, Frames
<1>6. CASE UNCHANGED vars
  BY <1>6, <1>f DEF vars
<1> QED
  BY <1>1, <1>2, <1>3, <1>4, <1>5, <1>6 DEF Next

-----------------------------------------------------------------------------
LEMMA InvInit == Init => IInv
<1> SUFFICES ASSUME Init PROVE IInv
  OBVIOUS
<1>1. TypeOK
  BY TypeInit
<1>2. Referred
  BY DEF Init, Referred, Sent, Claiming
<1>3. Registering
  BY DEF Init, Registering
<1>4. Paid
  BY UsersAssumption DEF Init, Paid, Idle
<1>5. PaidTo
  BY DEF Init, PaidTo, Idle
<1>6. Opened
  <2>1. \A u \in Registered : HasWallet(u)
    BY UsersAssumption DEF Init, HasWallet
  <2> QED
    BY <2>1 DEF Init, Opened, UsersHaveWallets
<1>7. Connected
  BY DEF Init, Connected, NoConnect, AtWork, AddressOfOneUser
<1> QED
  BY <1>1, <1>2, <1>3, <1>4, <1>5, <1>6, <1>7 DEF IInv

LEMMA InvStep == IInv /\ [Next]_vars => IInv'
BY TypeStep, ReferredStep, RegisteringStep, PaidStep, PaidToStep, OpenedStep, ConnectedStep
   DEF IInv

(* The invariant holds in every reachable state. *)
THEOREM Invariant == Spec => []IInv
<1>1. Init => IInv
  BY InvInit
<1>2. IInv /\ [Next]_vars => IInv'
  BY InvStep
<1> QED
  BY <1>1, <1>2, PTL DEF Spec

(* Every variable keeps to its type: no job pays a bonus more than twice,  *)
(* no referral makes more than the three calls of claimAddFriendTask, and  *)
(* no user becomes his own parent (users.service.ts addReferral).          *)
THEOREM TypeCorrect == Spec => []TypeOK
<1>1. IInv => TypeOK
  BY DEF IInv
<1> QED
  BY <1>1, Invariant, PTL

(* Who is rewarded for a user is the parent he is linked to, and the only  *)
(* one rewarded, but for referrals side by side and links that failed      *)
(* after the reward (addReferral pays before it sets parentId).            *)
THEOREM RewardedIsLinked == Spec => []PaidParentIsLinked
<1>1. IInv => PaidParentIsLinked
  <2> SUFFICES ASSUME IInv, NEW r \in rewarded, UserOf[r] \notin overlapped,
                      UserOf[r] \notin unlinked
               PROVE  /\ referral[r] = "link" \/ parentId[UserOf[r]] = ParentOf[r]
                      /\ \A o \in rewarded : UserOf[o] = UserOf[r] => o = r
    BY DEF PaidParentIsLinked
  <2>1. rewarded \subseteq Referrals
    BY DEF IInv, TypeOK
  <2> QED
    BY <2>1 DEF IInv, Referred
<1> QED
  BY <1>1, Invariant, PTL

(* A bonus job that no crash interrupted pays the parent before the player *)
(* and nobody twice; all bonuses of a player's jobs go to the one parent   *)
(* he stays linked to (bonusUserHasReferral).                              *)
THEOREM BonusesToOneParent == Spec => []BonusesInStep
<1>1. IInv => BonusesInStep
  BY DEF IInv, Paid, PaidTo, BonusesInStep
<1> QED
  BY <1>1, Invariant, PTL

(* Who is registered has a wallet or a request on its way to open one,     *)
(* unless a call failed or the process died: telegramLogin and             *)
(* handleStartCommand create the user and the wallet apart.                *)
THEOREM WalletsAreOpened == Spec => []UsersHaveWallets
<1>1. IInv => UsersHaveWallets
  BY DEF IInv, Opened
<1> QED
  BY <1>1, Invariant, PTL

(* Two users share an address only after requests side by side: the look   *)
(* for its owner and the save of connectTonAddress are steps apart.        *)
THEOREM AddressHasOneUser == Spec => []AddressOfOneUser
<1>1. IInv => AddressOfOneUser
  BY DEF IInv, Connected
<1> QED
  BY <1>1, Invariant, PTL

(* No address is replaced, but by requests side by side. *)
THEOREM AddressStays == Spec => AddressIsKept
<1> DEFINE Kept == \A u \in Users : tonAddress[u] # None /\ tonAddress'[u] # tonAddress[u]
                      => \E k \in raced : connect[k].user = u
<1>1. IInv /\ [Next]_vars => [Kept]_vars
  <2> SUFFICES ASSUME IInv, [Next]_vars, NEW u \in Users, tonAddress[u] # None,
                      tonAddress'[u] # tonAddress[u]
               PROVE  \E k \in raced : connect[k].user = u
    OBVIOUS
  <2>1. PICK k \in Connects : ConnectSave(k)
    <3>1. tonAddress' # tonAddress
      OBVIOUS
    <3>2. ~(UNCHANGED vars) /\ ~Crash
      BY <3>1 DEF vars, tonVars, Crash
    <3>3. ~BonusStep /\ \A b \in Plays : ~(BonusQueued(b) \/ BonusStart(b))
      BY <3>1, Frames DEF tonVars
    <3>4. (\A p \in Profiles : ~ProfileStep(p)) /\ (\A r \in Referrals : ~ReferralStep(r))
      BY <3>1, Frames DEF tonVars
    <3>5. \E k \in Connects : ConnectStep(k)
      BY <3>2, <3>3, <3>4 DEF Next
    <3> QED
      BY <3>1, <3>5 DEF ConnectStep, ConnectFind, ConnectUser, ConnectFails
  <2>2. connect[k].user = u /\ connect[k].pc = "save"
    BY <2>1 DEF ConnectSave, IInv, TypeOK
  <2>3. k \in raced
    BY <2>2 DEF IInv, Connected, AtWork
  <2> QED
    BY <2>2, <2>3
<1>2. Spec => [][Kept]_vars
  BY <1>1, Invariant, PTL DEF Spec
<1> QED
  BY <1>2 DEF AddressIsKept

-----------------------------------------------------------------------------
(* A point between two dates is no earlier than one and no later than the  *)
(* other, whichever comes first.                                           *)
LEMMA PointBetween ==
    ASSUME NEW p \in Nat, NEW d \in Nat \ {0}, p <= d, NEW x \in Int
    PROVE  /\ x >= 0 => (p * x) \div d \in 0..x
           /\ x <= 0 => (p * x) \div d \in x..0
           /\ (d * x) \div d = x
OBVIOUS

(* An account made later scores no more. *)
LEMMA LaterScoresLess ==
    ASSUME NEW a \in Int, NEW b \in Int, a <= b
    PROVE  ScoreAt(b) <= ScoreAt(a) /\ ScoreAt(a) \in Int
<1>1. ThisYear \in Int
  BY ScoreAssumption
<1> QED
  BY <1>1 DEF ScoreAt, initScore

(* No known id before UpperOf is as great. *)
LEMMA UpperIsLeast ==
    ASSUME NEW id \in Nat, ~(id > maxId)
    PROVE  \A j \in DOMAIN nids : id <= nids[j] => UpperOf(id) <= j
<1>1. nids \in Seq(Nat) /\ nids # <<>>
  BY ScoreAssumption
<1> DEFINE T == {i \in DOMAIN nids : id <= nids[i]}
<1>2. Len(nids) \in T /\ T \in SUBSET Nat
  BY <1>1 DEF maxId
<1>3. PICK i \in T : \A j \in T : i <= j
  BY <1>2, LeastIndex
<1>4. \E k \in DOMAIN nids : id <= nids[k] /\ \A j \in DOMAIN nids : id <= nids[j] => k <= j
  BY <1>3
<1> QED
  BY <1>4 DEF UpperOf

(* The date lies between those of two known ids with none in between. *)
LEMMA DateBetween ==
    ASSUME NEW id \in Nat, id # minId
    PROVE  /\ getDate(id) \in Int
           /\ \E i, j \in DOMAIN nids :
                 /\ Nearest(i, id) /\ Nearest(j, id)
                 /\ ages[j] <= getDate(id) /\ getDate(id) <= ages[i]
<1>1. /\ DOMAIN nids \in SUBSET Nat /\ 1 \in DOMAIN nids /\ Len(nids) \in DOMAIN nids
      /\ \A i \in DOMAIN nids : /\ nids[i] \in Nat /\ ages[i] \in Nat
                                /\ 1 <= i /\ i <= Len(nids)
      /\ \A i \in DOMAIN nids : i # 1 => i - 1 \in DOMAIN nids
  <2>1. nids \in Seq(Nat) /\ nids # <<>> /\ ages \in [DOMAIN nids -> Nat]
    BY ScoreAssumption
  <2> QED
    BY <2>1
<1>2. \A i, j \in DOMAIN nids : i < j => nids[i] < nids[j]
  BY ScoreAssumption
<1>3. \A i, j \in DOMAIN nids : i <= j => nids[i] <= nids[j]
  <2> TAKE i \in DOMAIN nids, j \in DOMAIN nids
  <2>1. i = j \/ i < j \/ ~(i <= j)
    BY <1>1
  <2> QED
    BY <1>1, <1>2, <2>1
<1> DEFINE Goal == /\ getDate(id) \in Int
                   /\ \E i, j \in DOMAIN nids :
                         /\ Nearest(i, id) /\ Nearest(j, id)
                         /\ ages[j] <= getDate(id) /\ getDate(id) <= ages[i]
<1>4. ASSUME id < minId PROVE Goal
  <2>1. getDate(id) = ages[1]
    BY <1>4 DEF getDate
  <2>2. ASSUME NEW k \in DOMAIN nids \ {1} PROVE nids[1] <= nids[k] /\ ~(nids[k] <= id)
    BY <1>1, <1>3, <1>4 DEF minId
  <2>3. Nearest(1, id)
    <3> SUFFICES ASSUME NEW k \in DOMAIN nids, k # 1
                 PROVE  ~(nids[1] < nids[k] /\ nids[k] <= id) /\ ~(id <= nids[k] /\ nids[k] < nids[1])
      BY DEF Nearest
    <3>1. nids[1] <= nids[k] /\ ~(nids[k] <= id)
      BY <2>2
    <3> QED
      BY <1>1, <3>1
  <2> QED
    BY <1>1, <2>1, <2>3
<1>5. ASSUME ~(id < minId), id > maxId PROVE Goal
  <2>1. getDate(id) = ages[Len(nids)]
    BY <1>5 DEF getDate
  <2>2. ASSUME NEW k \in DOMAIN nids PROVE nids[k] <= nids[Len(nids)] /\ ~(id <= nids[k])
    BY <1>1, <1>3, <1>5 DEF maxId
  <2>3. Nearest(Len(nids), id)
    <3> DEFINE n == Len(nids)
    <3> SUFFICES ASSUME NEW k \in DOMAIN nids, k # n
                 PROVE  ~(nids[n] < nids[k] /\ nids[k] <= id) /\ ~(id <= nids[k] /\ nids[k] < nids[n])
      BY DEF Nearest
    <3>1. nids[k] <= nids[n] /\ ~(id <= nids[k])
      BY <2>2
    <3> QED
      BY <1>1, <3>1
  <2> QED
    BY <1>1, <2>1, <2>3
<1>6. ASSUME ~(id < minId), ~(id > maxId) PROVE Goal
  <2> DEFINE u == UpperOf(id)
             l == u - 1
             p == id - nids[l]
             d == nids[u] - nids[l]
             x == ages[u] - ages[l]
  <2>1. u \in DOMAIN nids /\ id <= nids[u]
    BY <1>6, UpperIsKnown
  <2>2. \A j \in DOMAIN nids : id <= nids[j] => u <= j
    BY <1>6, UpperIsLeast
  <2>3. u # 1
    BY <1>1, <1>6, <2>1 DEF minId
  <2>4. l \in DOMAIN nids /\ l < u /\ LowerOf(u) = l
    BY <1>1, <2>1, <2>3 DEF LowerOf
  <2>5. nids[l] < id /\ nids[l] < nids[u]
    BY <1>1, <1>2, <2>1, <2>2, <2>4
  <2>a. /\ nids[l] \in Nat /\ nids[u] \in Nat /\ ages[l] \in Nat /\ ages[u] \in Nat
    BY <1>1, <2>1, <2>4
  <2>6. p \in Nat /\ d \in Nat \ {0} /\ p <= d /\ x \in Int
    <3>1. id <= nids[u] /\ nids[l] < id /\ nids[l] < nids[u]
      BY <2>1, <2>5
    <3> HIDE DEF u, l
    <3> QED
      BY <2>a, <3>1
  <2>7. getDate(id) = ages[l] + (p * x) \div d
    BY <1>6, <2>4, <2>5, <1>1, <2>1 DEF getDate
  <2>8. Nearest(u, id)
    <3> SUFFICES ASSUME NEW k \in DOMAIN nids, k # u
                 PROVE  ~(nids[u] < nids[k] /\ nids[k] <= id) /\ ~(id <= nids[k] /\ nids[k] < nids[u])
      BY DEF Nearest
    <3>1. ~(nids[u] < nids[k] /\ nids[k] <= id)
      BY <1>1, <2>1
    <3>2. ~(id <= nids[k] /\ nids[k] < nids[u])
      BY <1>1, <1>3, <2>1, <2>2
    <3> QED
      BY <3>1, <3>2
  <2>9. ASSUME id < nids[u] PROVE Nearest(l, id)
    <3> SUFFICES ASSUME NEW k \in DOMAIN nids, k # l
                 PROVE  ~(nids[l] < nids[k] /\ nids[k] <= id) /\ ~(id <= nids[k] /\ nids[k] < nids[l])
      BY DEF Nearest
    <3>1. k <= l \/ u <= k
      BY <1>1, <2>1
    <3>2. (k <= l => nids[k] <= nids[l]) /\ (u <= k => nids[u] <= nids[k])
      BY <1>3, <2>1, <2>4
    <3>3. nids[k] \in Nat /\ nids[l] < id /\ id < nids[u]
      BY <1>1, <2>5, <2>9
    <3> HIDE DEF u, l
    <3> QED
      BY <2>a, <3>1, <3>2, <3>3
  <2>10. ages[l] \in Nat /\ ages[u] \in Nat
    BY <1>1, <2>1, <2>4
  <2>11. x = ages[u] - ages[l]
    OBVIOUS
  <2>12. id = nids[u] => p = d
    OBVIOUS
  <2> HIDE DEF u, l, p, d, x
  <2>13. CASE id = nids[u]
    <3>1. getDate(id) = ages[u]
      BY <2>6, <2>7, <2>10, <2>11, <2>12, <2>13, PointBetween
    <3> QED
      BY <2>1, <2>8, <2>10, <3>1
  <2>14. CASE id # nids[u]
    <3>1. Nearest(l, id)
      BY <1>1, <2>1, <2>9, <2>14
    <3>2. /\ x >= 0 => (p * x) \div d \in 0..x
          /\ x <= 0 => (p * x) \div d \in x..0
      BY <2>6, PointBetween
    <3>3. CASE x >= 0
      <4>1. /\ getDate(id) \in Int /\ ages[l] <= getDate(id) /\ getDate(id) <= ages[u]
        BY <2>6, <2>7, <2>10, <2>11, <3>2, <3>3
      <4> QED
        BY <2>1, <2>4, <2>8, <3>1, <4>1
    <3>4. CASE ~(x >= 0)
      <4>1. /\ getDate(id) \in Int /\ ages[u] <= getDate(id) /\ getDate(id) <= ages[l]
        BY <2>6, <2>7, <2>10, <2>11, <3>2, <3>4
      <4> QED
        BY <2>1, <2>4, <2>8, <3>1, <4>1
    <3> QED
      BY <3>3, <3>4
  <2> QED
    BY <2>13, <2>14
<1> QED
  BY <1>4, <1>5, <1>6

(* A point of time within the neighbours' gives a score within theirs. *)
LEMMA ScoreIsFit ==
    ASSUME NEW id \in Nat, id # minId, NEW isPremium \in BOOLEAN,
           NEW randomScore \in RandomScores
    PROVE  FitsAge(calculateScore(id, isPremium, randomScore), id, isPremium)
<1> DEFINE date == getDate(id)
           extra == PremiumPart(isPremium)
           score == calculateScore(id, isPremium, randomScore)
<1>1. date \in Int
  BY DateBetween
<1>2. PICK i \in DOMAIN nids, j \in DOMAIN nids :
         /\ Nearest(i, id) /\ Nearest(j, id) /\ ages[j] <= date /\ date <= ages[i]
  BY DateBetween
<1>3. ages[i] \in Int /\ ages[j] \in Int /\ NaN \notin Int
  BY ScoreAssumption
<1>4. score = ScoreAt(date) + randomScore + extra
  BY <1>1, <1>3 DEF calculateScore
<1>5. randomScore \in 1..99 /\ extra \in Int
  BY UsersAssumption DEF PremiumPart, premiumScore
<1>6. /\ ScoreAt(ages[i]) <= ScoreAt(date) /\ ScoreAt(date) <= ScoreAt(ages[j])
      /\ ScoreAt(ages[i]) \in Int /\ ScoreAt(ages[j]) \in Int /\ ScoreAt(date) \in Int
  BY <1>1, <1>2, <1>3, LaterScoresLess
<1> HIDE DEF date, extra, score
<1>7. ScoreAt(ages[i]) < score - extra /\ score - extra < ScoreAt(ages[j]) + 100
  BY <1>4, <1>5, <1>6
<1> QED
  BY <1>2, <1>7 DEF FitsAge, score, extra

LEMMA ScoresStep ==
    ASSUME IInv, ScoreFitsAge, [Next]_vars
    PROVE  ScoreFitsAge'
<1> USE DEF IInv
<1>1. UNCHANGED idOf
  BY Frames DEF Next, vars, Crash, userVars
<1>2. ASSUME UNCHANGED wallets PROVE ScoreFitsAge'
  BY <1>1, <1>2 DEF ScoreFitsAge, HasWallet
<1>3. ASSUME NEW r \in Profiles \cup Referrals, NEW isPremium \in BOOLEAN,
             isPremium => UserOf[r] \in Premium, getOrCreateWallet(UserOf[r], isPremium)
      PROVE  ScoreFitsAge'
  <2> DEFINE u == UserOf[r]
  <2>1. CASE HasWallet(u)
    BY <1>2, <1>3, <2>1 DEF getOrCreateWallet
  <2>2. CASE ~HasWallet(u)
    <3>1. PICK randomScore \in RandomScores :
             wallets' = [wallets EXCEPT ![u] = calculateScore(idOf[u], isPremium, randomScore)]
      BY <1>3, <2>2 DEF getOrCreateWallet
    <3>2. u \in Users /\ wallets \in [Users -> Int \cup {None, NaN}]
      BY UsersAssumption DEF TypeOK
    <3>3. u \in Newcomers
      BY <2>2, <3>2 DEF Newcomers, Opened
    <3>4. idOf[u] \in Nat
      <4>1. idOf[u] \in Ids
        BY <3>3 DEF TypeOK
      <4> QED
        BY <4>1, UsersAssumption
    <3>5. idOf[u] # minId => FitsAge(wallets'[u], idOf[u], isPremium)
      <4>1. wallets'[u] = calculateScore(idOf[u], isPremium, randomScore)
        BY <3>1, <3>2
      <4> QED
        BY <3>4, <4>1, ScoreIsFit
    <3>6. \A v \in Users : v # u => wallets'[v] = wallets[v]
      BY <3>1, <3>2
    <3>7. Newcomers \subseteq Users
      BY UsersAssumption DEF Newcomers
    <3> QED
      BY <1>1, <1>3, <3>5, <3>6, <3>7 DEF ScoreFitsAge, HasWallet
  <2> QED
    BY <2>1, <2>2
<1>4. ASSUME NEW p \in Profiles, ProfileStep(p) PROVE ScoreFitsAge'
  <2>1. CASE ProfileWallet(p)
    <3> DEFINE isPremium == UserOf[p] \in Premium
    <3>1. /\ isPremium \in BOOLEAN /\ getOrCreateWallet(UserOf[p], isPremium)
          /\ isPremium => UserOf[p] \in Premium
      BY <2>1 DEF ProfileWallet
    <3> HIDE DEF isPremium
    <3> QED
      BY <1>3, <3>1
  <2> QED
    BY <1>2, <1>4, <2>1 DEF ProfileStep, ProfileGet, ProfileCreate, ProfileFails, userVars
<1>5. ASSUME NEW r \in Referrals, ReferralStep(r) PROVE ScoreFitsAge'
  <2>1. CASE StartWallet(r)
    BY <1>3, <2>1 DEF StartWallet
  <2>2. CASE StartParent(r) \/ StartSelf(r) \/ StartUser(r) \/ StartFails(r)
    BY <1>2, <2>2 DEF StartParent, StartSelf, StartUser, StartFails, userVars
  <2>3. CASE ReferFind(r) \/ ReferClaim(r) \/ ReferClaimFails(r) \/ ReferLink(r) \/ ReferFails(r)
    BY <1>2, <2>3 DEF ReferFind, ReferClaim, ReferClaimFails, ReferLink, ReferFails, userVars
  <2> QED
    BY <1>5, <2>1, <2>2, <2>3 DEF ReferralStep
<1>6. ASSUME \/ \E b \in Plays : BonusQueued(b) \/ BonusStart(b)
             \/ BonusStep \/ \E k \in Connects : ConnectStep(k)
             \/ UNCHANGED vars
      PROVE  ScoreFitsAge'
  BY <1>2, <1>6, Frames DEF userVars, vars
<1>7. CASE Crash
  BY <1>2, <1>7 DEF Crash, userVars
<1> QED
  BY <1>4, <1>5, <1>6, <1>7 DEF Next

(* A new wallet opens with a score no lower and no higher than the known    *)
(* accounts next to the owner's give, the part for Premium aside, for every *)
(* table of ages (calculateScore, getDate) and whichever request opens it.  *)
THEOREM ScoresFitAges == Spec => []ScoreFitsAge
<1>1. Init => ScoreFitsAge
  <2>1. Newcomers \subseteq Users /\ Newcomers \cap Registered = {}
    BY UsersAssumption DEF Newcomers
  <2> QED
    BY <2>1 DEF Init, ScoreFitsAge, HasWallet
<1>2. IInv /\ ScoreFitsAge /\ [Next]_vars => ScoreFitsAge'
  BY ScoresStep
<1> QED
  BY <1>1, <1>2, Invariant, PTL DEF Spec
=============================================================================

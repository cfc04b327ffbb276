-------------------------------- MODULE Score --------------------------------
(***************************************************************************)
(* The balance a new wallet opens with (calculation-score.service.ts):     *)
(* 500 for each year since the account was made, which is estimated by the *)
(* account's id between the ids of accounts whose dates are known          *)
(* (assets/ages.json), plus a random part and one for Premium.             *)
(***************************************************************************)
EXTENDS Integers, Sequences

CONSTANTS
    nids,           \* the known ids in ascending order, as Object.keys gives them
    ages,           \* the date of each, in months
    ThisYear,
    NaN             \* not a number

ASSUME ScoreAssumption ==
    /\ nids \in Seq(Nat) /\ nids # <<>>
    /\ \A i, j \in DOMAIN nids : i < j => nids[i] < nids[j]
    /\ ages \in [DOMAIN nids -> Nat]
    /\ ThisYear \in Nat /\ NaN \notin Int

initScore == 500
premiumScore == 500

minId == nids[1]
maxId == nids[Len(nids)]
UpperOf(id) == CHOOSE i \in DOMAIN nids :
                  id <= nids[i] /\ \A j \in DOMAIN nids : id <= nids[j] => i <= j

(* Mutant: lid stays at the first id. *)
LowerStays(i) == 1
(* The entry before; the first has none but itself. *)
LowerOf(i) == IF i = 1 THEN 1 ELSE i - 1

(* The point between both dates where the id is between both ids; 0 / 0 for *)
(* the first id itself.                                                     *)
getDate(id) ==
    IF id < minId THEN ages[1]
    ELSE IF id > maxId THEN ages[Len(nids)]
    ELSE LET u == UpperOf(id)
             l == LowerOf(u)
         IN IF nids[u] = nids[l] THEN NaN
            ELSE ages[l] + ((id - nids[l]) * (ages[u] - ages[l])) \div (nids[u] - nids[l])

ScoreAt(date) == (ThisYear - date \div 12 + 1) * initScore

PremiumPart(isPremium) == IF isPremium THEN premiumScore ELSE 0

calculateScore(id, isPremium, randomScore) ==
    IF getDate(id) = NaN THEN NaN
    ELSE ScoreAt(getDate(id)) + randomScore + PremiumPart(isPremium)

-----------------------------------------------------------------------------
(* What a score should be: no other known id lies between the account's and *)
(* that of i, so that i was made shortly before or after it; and the score  *)
(* counts no more and no fewer years than such neighbours give.             *)
Nearest(i, id) ==
    \A k \in DOMAIN nids \ {i} :
        ~(nids[i] < nids[k] /\ nids[k] <= id) /\ ~(id <= nids[k] /\ nids[k] < nids[i])

FitsAge(score, id, isPremium) ==
    LET own == score - PremiumPart(isPremium) IN
    \E i, j \in DOMAIN nids :
        /\ Nearest(i, id) /\ Nearest(j, id)
        /\ ScoreAt(ages[i]) < own /\ own < ScoreAt(ages[j]) + 100
=============================================================================

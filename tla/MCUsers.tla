------------------------------- MODULE MCUsers -------------------------------
(***************************************************************************)
(* A new user, u1, opens the app and is referred to a parent who is        *)
(* registered, to one who is not and to himself, while a play of his earns *)
(* a bonus.                                                                *)
(* Connect requests want one address for two users and two for one.  They  *)
(* touch nothing the others do, so that a state in which both kinds have   *)
(* begun is one of each kind's own beside the other's.                     *)
(***************************************************************************)
EXTENDS Users, TLC

CONSTANTS u1, u2, u3, u4, g1, s1, r1, r2, b1, k1, k2, k3, addr1, addr2

MCnids == <<10, 20, 30>>
MCages == <<100, 160, 148>>
MCIds == {5, 10, 21, 35}
MCUserOf == [r \in Profiles \cup Referrals |-> u1]
MCParentOf == [r \in Referrals |-> IF r = s1 THEN u2 ELSE IF r = r1 THEN u3 ELSE u1]
MCPlayerOf == [b \in Plays |-> u1]
MCWanted == {<<u2, addr1>>, <<u2, addr2>>, <<u4, addr1>>, <<u3, addr2>>}
Symmetry == Permutations(Connects)

OneKind ==
    \/ \A k \in Connects : connect[k].pc = "idle"
    \/ /\ \A p \in Profiles : profile[p] = "idle"
       /\ \A r \in Referrals : referral[r] = "idle"
       /\ \A b \in Plays : jobs[b] = "none"
=============================================================================

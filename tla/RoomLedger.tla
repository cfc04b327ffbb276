----------------------------- MODULE RoomLedger -----------------------------
(***************************************************************************)
(* What the players of a room are promised, with none of the machinery:    *)
(* stakes are locked and freed, and a room that is due is settled at once, *)
(* both margins freed and the loser's stake less the tax in the winner's   *)
(* balance, or dropped with nothing paid.  A failed settlement may stay    *)
(* half made; one that is cut, even when it was over, is due once more.    *)
(***************************************************************************)
EXTENDS Integers

CONSTANTS Users,        \* players
          Rooms,        \* the rooms that may be made
          PlayersOf(_), \* the two players of each
          InitBalance,  \* the balance every player starts with
          Stake, Tax,   \* what each player stakes, and what is kept of it
          NoOne         \* not a player

VARIABLES accounts,     \* balance and locked margin of each player
          winnerOf,     \* the winner of each room, NoOne until it is settled
          due,          \* the rooms whose settlement has not come to an end
          retried,      \* those whose settlement was cut and made due again
          failed        \* those whose settlement was given up, perhaps half made

ledgerVars == <<accounts, winnerOf, due, retried, failed>>

LedgerInit ==
    /\ accounts = [u \in Users |-> [balance |-> InitBalance, locked |-> 0]]
    /\ winnerOf = [a \in Rooms |-> NoOne]
    /\ due = Rooms /\ retried = {} /\ failed = {}

(* The accounts once n of the four payments of w's victory over l are made: *)
(* w's margin, w's prize, l's loss, l's margin.                             *)
Paid(w, l, n) ==
    [u \in Users |->
        [balance |-> accounts[u].balance + (IF u = w /\ n >= 2 THEN Stake - Tax ELSE 0)
                                         - (IF u = l /\ n >= 3 THEN Stake ELSE 0),
         locked |-> accounts[u].locked
                      - (IF (u = w /\ n >= 1) \/ (u = l /\ n = 4) THEN Stake ELSE 0)]]

(* Some of the payments to the players of a room. *)
PartPaid(a) ==
    \E w, l \in PlayersOf(a), n \in 0..4 : w # l /\ accounts' = Paid(w, l, n)

(* A player stakes on a challenge, or has his stake back. *)
Margin(u) ==
    /\ \E d \in {Stake, -Stake} : accounts' = [accounts EXCEPT ![u].locked = @ + d]
    /\ UNCHANGED <<winnerOf, due, retried, failed>>

Settle(a) ==
    /\ a \in due /\ due' = due \ {a}
    /\ \E w, l \in PlayersOf(a) :
          w # l /\ winnerOf' = [winnerOf EXCEPT ![a] = w] /\ accounts' = Paid(w, l, 4)
    /\ UNCHANGED <<retried, failed>>

Drop(a) ==
    /\ a \in due /\ due' = due \ {a}
    /\ UNCHANGED <<accounts, winnerOf, retried, failed>>

Fail(a) ==
    /\ a \in due /\ due' = due \ {a}
    /\ failed' = failed \cup {a}
    /\ PartPaid(a)
    /\ UNCHANGED <<winnerOf, retried>>

(* What was over is cut without another payment. *)
Cut(a) ==
    /\ retried' = retried \cup {a}
    /\ IF a \in retried THEN due' = due \ {a} /\ failed' = failed \cup {a}
                         ELSE due' = due \cup {a} /\ failed' = failed \ {a}
    /\ IF a \in due THEN PartPaid(a) ELSE UNCHANGED accounts
    /\ UNCHANGED winnerOf

LedgerNext ==
    \/ accounts' # accounts /\ \E u \in Users : Margin(u)
    \/ \E a \in Rooms : Settle(a) \/ Drop(a) \/ Fail(a) \/ Cut(a)

LedgerSpec == LedgerInit /\ [][LedgerNext]_ledgerVars
=============================================================================

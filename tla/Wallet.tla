------------------------------- MODULE Wallet -------------------------------
(***************************************************************************)
(* The wallet service, a gRPC service outside this repository, as          *)
(* wallets.service.ts calls it.  An account holds a balance, part of which *)
(* may be locked as the margin of a bet; `available' in its replies is the *)
(* part that is not.  The service refuses a call that would lock more than *)
(* is available, release more than is locked or take more than the balance.*)
(***************************************************************************)
EXTENDS Integers

Account == [balance : Int, locked : Int]

Available(a) == a.balance - a.locked

(* changeLocked: a positive amount locks a margin, a negative one frees it. *)
CanChangeLocked(a, amount) == amount <= Available(a) /\ a.locked + amount >= 0
ChangeLocked(a, amount) == [a EXCEPT !.locked = @ + amount]

(* changeBalance: a prize is positive, a loss negative.  Nothing here shows *)
(* whether a loss may be taken out of locked money (playPvP charges the     *)
(* loser before it frees his margin), so the service may take or refuse it. *)
CanChangeBalance(a, amount) == a.balance + amount >= 0
MustChangeBalance(a, amount) == Available(a) + amount >= 0
ChangeBalance(a, amount) == [a EXCEPT !.balance = @ + amount]

(* transferAsset: what a tip takes from one account it adds to another,     *)
(* which may be the same.                                                   *)
CanTransfer(a, amount) == amount <= Available(a)
Transferred(accounts, sender, receiver, amount) ==
    [u \in DOMAIN accounts |->
        ChangeBalance(accounts[u], (IF u = receiver THEN amount ELSE 0)
                                   - (IF u = sender THEN amount ELSE 0))]
=============================================================================

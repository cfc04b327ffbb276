------------------------------ MODULE BetLedger -----------------------------
(***************************************************************************)
(* What the player is promised, with none of the machinery: a bet is       *)
(* placed once, it is settled at most once, and the only thing that ever   *)
(* moves a player's balance is the settlement of one of his open bets, by  *)
(* one of the amounts the rules of the game allow.                         *)
(***************************************************************************)
EXTENDS Integers

CONSTANTS Bets,      \* the bets that may be placed
          Owner,     \* the player of each bet
          Start,     \* the balance every player starts with
          Profits    \* the amounts a settlement may credit or debit

VARIABLES stage,     \* of each bet: "none", "open" or "settled"
          balance    \* of each player

ledgerVars == <<stage, balance>>

LedgerInit ==
    /\ stage = [b \in Bets |-> "none"]
    /\ balance = Start

Place(b) ==
    /\ stage[b] = "none"
    /\ stage' = [stage EXCEPT ![b] = "open"]
    /\ UNCHANGED balance

Settle(b) ==
    /\ stage[b] = "open"
    /\ stage' = [stage EXCEPT ![b] = "settled"]
    /\ \E p \in Profits : balance' = [balance EXCEPT ![Owner[b]] = @ + p]

LedgerNext == \E b \in Bets : Place(b) \/ Settle(b)

LedgerSpec == LedgerInit /\ [][LedgerNext]_ledgerVars
=============================================================================

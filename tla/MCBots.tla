------------------------------- MODULE MCBots -------------------------------
(***************************************************************************)
(* One player has two matches against the bot, one on each side, and tips  *)
(* himself or another.  Prices of 1.4 and 2 cents round to 1 and 2, so that *)
(* a price that stays is announced as a fall.                              *)
(***************************************************************************)
EXTENDS Bots

CONSTANTS u1, u2, m1, m2, t1

MCPlayerOf == [m \in Blesses |-> u1]
MCTargetOf == [m \in Blesses |-> IF m = m1 THEN "Pump" ELSE "Dump"]
MCSenderOf == [t \in Tips |-> u1]
=============================================================================

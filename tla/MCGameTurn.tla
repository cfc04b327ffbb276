----------------------------- MODULE MCGameTurn -----------------------------
(***************************************************************************)
(* Two play requests of one player, on different sides of the price: the   *)
(* smallest instance with two turns of a player open at once, a timer and  *)
(* a poll closing the same turn, and a result of every kind.               *)
(***************************************************************************)
EXTENDS GameTurn

MCUserOf == [t \in Turns |-> CHOOSE u \in Users : TRUE]
MCSideOf == [t \in Turns |-> IF t = CHOOSE x \in Turns : TRUE THEN "PUMP" ELSE "DUMP"]
=============================================================================

----------------------------- MODULE MCPriceFeed -----------------------------
(* One caller beside the request of the start; both may be under way, so   *)
(* that a late answer meets a stream that is back.                         *)
EXTENDS PriceFeed

CONSTANT c1
=============================================================================

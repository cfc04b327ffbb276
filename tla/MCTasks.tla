------------------------------- MODULE MCTasks -------------------------------
(***************************************************************************)
(* One task of one user: nothing relates the tasks of two users, nor two   *)
(* tasks of one user, and Init chooses its type and group.                 *)
(***************************************************************************)
EXTENDS Tasks, TLC

CONSTANTS s1, r1, r2, c1, c2, c3    \* the user's task, clicks on it and claims of it

MCTaskOf == [x \in Clicks \cup Claims |-> s1]
Symmetry == Permutations(Clicks) \cup Permutations(Claims)
=============================================================================

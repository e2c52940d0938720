--------------------------- MODULE MCProgressFeed ---------------------------
(* ProgressFeed with one scenario for each task. *)
EXTENDS ProgressFeed, TLC

CONSTANTS s1, s2, t1, t2

OneTask == t1 :> s1
TwoTasks == t1 :> s1 @@ t2 :> s2

Symmetry == Permutations(Sockets)
=============================================================================

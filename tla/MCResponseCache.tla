-------------------------- MODULE MCResponseCache --------------------------
(* ResponseCache on small sets of model values. *)
EXTENDS ResponseCache, TLC

Symmetry == Permutations(Browsers)
=============================================================================

----------------------- MODULE MCScenarioCalculation -----------------------
(* ScenarioCalculation on small sets of model values. *)
EXTENDS ScenarioCalculation, TLC

Symmetry == Permutations(Tasks) \cup Permutations(Workers) \cup Permutations(Clients)
============================================================================

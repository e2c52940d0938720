------------------------ MODULE MCCalculationHistory ------------------------
(* CalculationHistory on small sets of model values. *)
EXTENDS CalculationHistory, TLC

Symmetry == Permutations(Tasks) \cup Permutations(Workers) \cup Permutations(Clients)

(* A state constraint.  Of a scenario that was disturbed only the rows are  *)
(* spoken of, and of those nothing once two saves have overlapped; as long *)
(* as a task is unused, it is explored until then.                         *)
Explored ==
  \/ disturbed # Scenarios
  \/ rivals # Scenarios /\ \E t \in Tasks : scenarioOf[t] = NoScenario
============================================================================

-------------------------- MODULE MCScenarioView --------------------------
(* ScenarioView of two networks, one with two scenarios that share a       *)
(* request, one with one.                                                  *)
EXTENDS ScenarioView, TLC

CONSTANTS n1, n2, s1, s2, s3, r1

TwoNets == s1 :> n1 @@ s2 :> n1 @@ s3 :> n2
Shared == s1 :> {r1} @@ s2 :> {} @@ s3 :> {}
Listed == r1 :> n1
OneDefault == {n1 :> s1 @@ n2 :> None}
OnePage == {{s1, s2}, {s3}}
=============================================================================

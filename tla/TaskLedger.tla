----------------------------- MODULE TaskLedger -----------------------------
(***************************************************************************)
(* What the calculation service promises about the tasks it queues, with   *)
(* everything that carries the promise out left aside.  An accepted task   *)
(* is owed to the client until it has failed (or was revoked) or has       *)
(* succeeded, and does not stay owed forever.  It succeeds only when its   *)
(* scenario has results to show, and that is final; a failure is not, as   *)
(* another execution of the same task may succeed.                         *)
(***************************************************************************)
CONSTANTS Tasks, Scenarios, NoScenario

VARIABLES
  entry,   \* [Tasks -> "new" | "owed" | "failed" | "succeeded"]
  owner,   \* [Tasks -> Scenarios \cup {NoScenario}]: whom it was accepted for
  kept     \* the scenarios results were committed for

vars == <<entry, owner, kept>>

Init ==
  /\ entry = [t \in Tasks |-> "new"]
  /\ owner = [t \in Tasks |-> NoScenario]
  /\ kept = {}

Accept(t, s) ==
  /\ entry[t] = "new"
  /\ entry' = [entry EXCEPT ![t] = "owed"]
  /\ owner' = [owner EXCEPT ![t] = s]
  /\ UNCHANGED kept

Keep(s) ==
  /\ kept' = kept \cup {s}
  /\ UNCHANGED <<entry, owner>>

Fail(t) ==
  /\ entry[t] = "owed"
  /\ entry' = [entry EXCEPT ![t] = "failed"]
  /\ UNCHANGED <<owner, kept>>

Succeed(t) ==
  /\ entry[t] \in {"owed", "failed"}
  /\ owner[t] \in kept
  /\ entry' = [entry EXCEPT ![t] = "succeeded"]
  /\ UNCHANGED <<owner, kept>>

Settle(t) == entry[t] = "owed" /\ (Fail(t) \/ Succeed(t))

Next ==
  \/ \E t \in Tasks, s \in Scenarios : Accept(t, s)
  \/ \E s \in Scenarios : Keep(s)
  \/ \E t \in Tasks : Fail(t) \/ Succeed(t)

Spec == Init /\ [][Next]_vars

FairSpec == Spec /\ \A t \in Tasks : WF_vars(Settle(t))

=============================================================================

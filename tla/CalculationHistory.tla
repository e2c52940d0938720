------------------------- MODULE CalculationHistory -------------------------
(***************************************************************************)
(* ScenarioCalculation with a record of what its clients and its failures  *)
(* did to each scenario.  The check of calculate_scenario and the DELETE   *)
(* of a save are not atomic with what follows them, so what they are for   *)
(* holds of a scenario until its requests or its saves overlap, a message  *)
(* is delivered twice or a task is revoked.  With the record this can be   *)
(* said scenario by scenario, for any number of clients, every kind of     *)
(* request and the faults that do no harm.                                 *)
(***************************************************************************)
EXTENDS ScenarioCalculation

VARIABLES
  disturbed,  (* scenarios at whose calculations something interfered       *)
  rivals,     (* scenarios two saves of which have overlapped               *)
  newest      (* [Scenarios -> Writers \cup {NoTask}]: accepted last        *)

history == <<disturbed, rivals, newest>>
hvars == <<vars, history>>

HistoryTypeOK ==
  /\ disturbed \subseteq Scenarios
  /\ rivals \subseteq Scenarios
  /\ newest \in [Scenarios -> Writers \cup {NoTask}]

(* A request at work on s: a calculation between its check and its commit, *)
(* or an upload between its DELETE and its commit.                         *)
Calculates(c, s) ==
  client[c].scenario = s /\ client[c].pc \in {"delay", "readState", "commit"}
Uploads(c, s) == client[c].scenario = s /\ client[c].pc = "saving"
Concerns(c, s) == Calculates(c, s) \/ Uploads(c, s)

(* Two requests for s overlap, or an upload and a calculation.             *)
Crossing(s) ==
  \/ \E c, d \in Clients : c # d /\ Concerns(c, s) /\ Concerns(d, s)
  \/ /\ \E c \in Clients : Uploads(c, s)
     /\ \E t \in Tasks : scenarioOf[t] = s /\ Underway(t)

Revoking(s) == \E t \in Tasks : t \in revoking /\ scenarioOf[t] = s

(* The steps of an execution up to the commit of its save. *)
EarlySteps == {"prerunRead", "prerunWrite", "storeStarted", "run", "saving"}

(* A fault that gives the task of w's process to another one while it goes *)
(* on, or after it has saved, failed or published its retry.  A process    *)
(* that dies before that does no harm, its message takes its place.        *)
RunAgain(w) ==
  /\ worker'[w] # worker[w]
  /\ ready'[worker[w].task] # ready[worker[w].task]
  /\ worker'[w].pc # "idle" \/ worker[w].pc \notin EarlySteps

(* A request that is lost after it has queued its task: nobody gives the   *)
(* row the task's id.                                                      *)
Forgotten(c) == client[c].pc \in {"readState", "commit"} /\ client'[c] # client[c]

Harmed(s) ==
  /\ faults' # faults
  /\ \/ \E w \in Workers : Running(w) /\ scenarioOf[worker[w].task] = s /\ RunAgain(w)
     \/ \E c \in Clients : client[c].scenario = s /\ Forgotten(c)

(* Two saves of s are between their DELETE and their commit. *)
WorkerSaves(w, s) == worker[w].pc = "saving" /\ scenarioOf[worker[w].task] = s
Rival(s) ==
  \/ \E v, w \in Workers : v # w /\ WorkerSaves(v, s) /\ WorkerSaves(w, s)
  \/ \E c, d \in Clients : c # d /\ Uploads(c, s) /\ Uploads(d, s)
  \/ \E w \in Workers, c \in Clients : WorkerSaves(w, s) /\ Uploads(c, s)

(* What a client was told last: 202 for a calculation, 201 for an upload.  *)
Queues(s, t) == scenarioOf[t] = NoScenario /\ scenarioOf'[t] = s
Replaces(c, s) == client[c].scenario = s /\ Accepted(c) /\ UploadCommit(c)

NewestAfter(s) ==
  CASE \E t \in Tasks : Queues(s, t) -> CHOOSE t \in Tasks : Queues(s, t)
    [] \E c \in Clients : Replaces(c, s) -> Upload
    [] OTHER -> newest[s]

HistoryInit ==
  /\ Init
  /\ disturbed = {}
  /\ rivals = {}
  /\ newest = [s \in Scenarios |-> NoTask]

HistoryNext ==
  /\ Next
  /\ disturbed' = disturbed \cup {s \in Scenarios : Crossing(s)' \/ Revoking(s)' \/ Harmed(s)}
  /\ rivals' = rivals \cup {s \in Scenarios : Rival(s)'}
  /\ newest' = [s \in Scenarios |-> NewestAfter(s)]

HistorySpec == HistoryInit /\ [][HistoryNext]_hvars

-----------------------------------------------------------------------------
(* Of a scenario at which nothing interfered at most one calculation is    *)
(* queued or under way, whatever is retried, whichever process dies while  *)
(* it calculates, and however late states reach the row: the status that   *)
(* calculate_scenario looks at is none that would let another one pass.    *)
OneCalculationAtATime ==
  \A s \in Scenarios \ disturbed : life[s] = "live" =>
    Cardinality({t \in Tasks : scenarioOf[t] = s /\ Underway(t)}) <= 1

(* A save replaces what it has not seen only if another save overlapped    *)
(* it: retries, redeliveries, processes that die in the middle of a save,  *)
(* uploads and new buses leave no second set of rows otherwise.            *)
OneHeadroomUnlessRivals ==
  \A s \in Scenarios \ rivals : Cardinality(headroom[s]) <= 1

(* Once nothing is going on, a row that says SUCCESS shows the result of   *)
(* what was accepted last, be it a calculation or an upload, unless buses  *)
(* were replaced and the result is gone with them: no late state or save   *)
(* of an earlier one is there instead.                                     *)
NewestResultShown ==
  Quiet => \A s \in Scenarios \ disturbed :
    life[s] = "live" /\ status[s] = "SUCCESS" =>
      headroom[s] = {newest[s]} \/ ("topology" \in Requests /\ headroom[s] = {})

=============================================================================

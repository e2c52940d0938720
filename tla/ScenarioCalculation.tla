------------------------ MODULE ScenarioCalculation ------------------------
(***************************************************************************)
(* The life of a headroom calculation: the API handlers of                 *)
(* scenarios/views.py, the celery task run_solver with the signal          *)
(* handlers of tasks/celeryapp.py, the headroom service both of them       *)
(* write through, and the revocations of datadump/service_imports.py.      *)
(*                                                                         *)
(* Four places hold state and none is updated together with another: the   *)
(* scenarios table, the celery result backend, the broker, and the memory  *)
(* of the API handlers and of the worker's pool processes.  A step below   *)
(* is what happens between two points where another process may interleave *)
(* (an await, a commit, a call to redis).  The tables are those of one     *)
(* network.  A row's headroom is represented by the set of the writers     *)
(* whose result rows are in it, each result being a non-empty list.        *)
(***************************************************************************)
EXTENDS Naturals, FiniteSets

CONSTANTS
  Scenarios,      (* ids of scenario rows                                   *)
  Defaults,       (* the scenarios a network names as its default           *)
  Tasks,          (* celery task ids, allocated by delay()                  *)
  Workers,        (* processes of the celery pool                           *)
  Clients,        (* API requests in progress at the same time              *)
  Requests,       (* the kinds of request the clients send                  *)
  MaxFaults,      (* bound on crashes, lost connections and redeliveries    *)
  NoScenario, NoTask,
  Upload          (* the writer that is not a task: a PATCHed headroom      *)

RequestKinds == {"calculate", "upload", "remove", "import", "topology"}

ASSUME ScenariosAssumption == NoScenario \notin Scenarios /\ Defaults \subseteq Scenarios
ASSUME TasksAssumption == NoTask \notin Tasks /\ Upload \notin Tasks
ASSUME WorkersAssumption == IsFiniteSet(Workers)
ASSUME RequestsAssumption == Requests \subseteq RequestKinds
ASSUME MaxFaultsAssumption == MaxFaults \in Nat

ReadyStates == {"SUCCESS", "FAILURE", "REVOKED"}
CeleryStates == ReadyStates \cup {"PENDING", "STARTED", "PROGRESS", "RETRY"}
Statuses == CeleryStates \cup {"NULL"}
MaxRetries == 1
Attempts == 0..MaxRetries
Writers == Tasks \cup {Upload}

VARIABLES
  life,       (* [Scenarios -> "unborn" | "live" | "removed"]: is there a row? *)
  status,     (* [Scenarios -> Statuses]: solver_task_status                *)
  taskId,     (* [Scenarios -> Tasks \cup {NoTask}]: solver_task_id         *)
  headroom,   (* [Scenarios -> SUBSET Writers]: whose BusHeadroom rows      *)
  backend,    (* [Tasks -> CeleryStates]: result backend, PENDING = no key  *)
  scenarioOf, (* [Tasks -> Scenarios \cup {NoScenario}]: task arguments     *)
  ready,      (* [Tasks -> [Attempts -> Nat]]: copies of the message queued *)
  revoking,   (* tasks whose revoke broadcast is on its way                 *)
  revoked,    (* tasks the running worker remembers as revoked              *)
  worker,     (* [Workers -> WorkerState]                                   *)
  client,     (* [Clients -> ClientState]                                   *)
  faults,     (* faults so far                                              *)
  saved,      (* history: scenarios some headroom was ever committed for    *)
  settled     (* history: tasks that ever reached a ready state             *)

db == <<life, status, taskId, headroom, saved>>
results == <<backend, settled>>
broker == <<scenarioOf, ready, revoking, revoked>>
vars == <<life, status, taskId, headroom, saved, backend, settled,
          scenarioOf, ready, revoking, revoked, worker, client, faults>>

WorkerSteps == {"idle", "prerunRead", "prerunWrite", "storeStarted", "run", "saving",
                "markDone", "storeRetry", "storeFailure", "postrunRead",
                "postrunWrite", "ack"}
WorkerState == [pc: WorkerSteps, task: Tasks \cup {NoTask}, retries: Attempts,
                held: BOOLEAN, state: CeleryStates, seen: SUBSET Writers, linked: BOOLEAN]
Process(pc, t, r, held, st, seen, linked) ==
  [pc |-> pc, task |-> t, retries |-> r, held |-> held,
   state |-> st, seen |-> seen, linked |-> linked]
IdleWorker == Process("idle", NoTask, 0, FALSE, "PENDING", {}, FALSE)

ClientSteps == {"idle", "delay", "readState", "commit", "saving", "remove", "purge", "import"}
ClientState == [pc: ClientSteps, scenario: Scenarios \cup {NoScenario},
                task: Tasks \cup {NoTask}, state: CeleryStates,
                seen: SUBSET Writers, linked: BOOLEAN, doomed: SUBSET Scenarios]
Request(pc, s, t, st, seen, linked) ==
  [pc |-> pc, scenario |-> s, task |-> t, state |-> st, seen |-> seen, linked |-> linked,
   doomed |-> {}]
IdleClient == Request("idle", NoScenario, NoTask, "PENDING", {}, FALSE)

(* The type invariant. *)
TypeOK ==
  /\ life \in [Scenarios -> {"unborn", "live", "removed"}]
  /\ status \in [Scenarios -> Statuses]
  /\ taskId \in [Scenarios -> Tasks \cup {NoTask}]
  /\ headroom \in [Scenarios -> SUBSET Writers]
  /\ backend \in [Tasks -> CeleryStates]
  /\ scenarioOf \in [Tasks -> Scenarios \cup {NoScenario}]
  /\ ready \in [Tasks -> [Attempts -> Nat]]
  /\ revoking \subseteq Tasks
  /\ revoked \subseteq Tasks
  /\ worker \in [Workers -> WorkerState]
  /\ client \in [Clients -> ClientState]
  /\ faults \in Nat
  /\ saved \subseteq Scenarios
  /\ settled \subseteq Tasks

Init ==
  /\ life = [s \in Scenarios |-> "unborn"]
  /\ status = [s \in Scenarios |-> "NULL"]
  /\ taskId = [s \in Scenarios |-> NoTask]
  /\ headroom = [s \in Scenarios |-> {}]
  /\ backend = [t \in Tasks |-> "PENDING"]
  /\ scenarioOf = [t \in Tasks |-> NoScenario]
  /\ ready = [t \in Tasks |-> [r \in Attempts |-> 0]]
  /\ revoking = {}
  /\ revoked = {}
  /\ worker = [w \in Workers |-> IdleWorker]
  /\ client = [c \in Clients |-> IdleClient]
  /\ faults = 0
  /\ saved = {}
  /\ settled = {}

-----------------------------------------------------------------------------
(* Storing a task state.  The key-value result backend leaves a SUCCESS it *)
(* finds alone and replaces anything else.                                 *)
Store(t, st) ==
  /\ backend' = [backend EXCEPT ![t] = IF @ = "SUCCESS" THEN @ ELSE st]
  /\ settled' = IF st \in ReadyStates THEN settled \cup {t} ELSE settled

(* A copy of the message of attempt r is put into the queue or taken out.  *)
Enqueue(t, r) == ready' = [ready EXCEPT ![t] = [ready[t] EXCEPT ![r] = ready[t][r] + 1]]
Dequeue(t, r) == ready' = [ready EXCEPT ![t] = [ready[t] EXCEPT ![r] = ready[t][r] - 1]]

(* Wrong on purpose, to see the invariants fail: a save that is never      *)
(* committed, and one without its DELETE.                                  *)
SaveUncommitted(s, seen, writer) == UNCHANGED db

SaveWithoutDelete(s, seen, writer) ==
  /\ headroom' = [headroom EXCEPT ![s] = @ \cup {writer}]
  /\ status' = [status EXCEPT ![s] = "SUCCESS"]
  /\ saved' = saved \cup {s}
  /\ UNCHANGED <<life, taskId>>

(* The commit of update_scenario_headroom: of the rows of s, those its     *)
(* DELETE had seen are gone and the writer's own are there.                *)
SaveHeadroom(s, seen, writer) ==
  /\ headroom' = [headroom EXCEPT ![s] = (@ \ seen) \cup {writer}]
  /\ status' = [status EXCEPT ![s] = "SUCCESS"]
  /\ saved' = saved \cup {s}
  /\ UNCHANGED <<life, taskId>>

(* update_solver_status: every row of the task, and none if the row that   *)
(* will be the task's has not been given its id yet.                       *)
UpdateSolverStatus(t, st) ==
  /\ status' = [s \in Scenarios |->
                  IF life[s] = "live" /\ taskId[s] = t THEN st ELSE status[s]]
  /\ UNCHANGED <<life, taskId, headroom, saved>>

(* What DELETE ... ON DELETE CASCADE leaves of the rows in S. *)
DeleteScenarios(S) ==
  /\ life' = [s \in Scenarios |-> IF s \in S THEN "removed" ELSE life[s]]
  /\ status' = [s \in Scenarios |-> IF s \in S THEN "NULL" ELSE status[s]]
  /\ taskId' = [s \in Scenarios |-> IF s \in S THEN NoTask ELSE taskId[s]]
  /\ headroom' = [s \in Scenarios |-> IF s \in S THEN {} ELSE headroom[s]]
  /\ UNCHANGED saved

LiveScenarios == {s \in Scenarios : life[s] = "live"}

(* calculate_scenario goes ahead unless the status says that a calculation *)
(* is pending; wrong on purpose, unless another one is in its first run.   *)
MayCalculateOnRetry(s) == status[s] \in ReadyStates \cup {"NULL", "RETRY"}

MayCalculate(s) == status[s] \in ReadyStates \cup {"NULL"}

(* Wrong on purpose: without a look whether there is a task. *)
HasPendingTaskAny(s) == status[s] \notin ReadyStates

(* A task the row waits for: what remove_scenario and the import revoke. *)
HasPendingTask(s) == taskId[s] # NoTask /\ status[s] \notin ReadyStates

-----------------------------------------------------------------------------
(* API requests.  Each is a coroutine: its awaits are its interleaving     *)
(* points, and client[c].pc is the next of them.                           *)

Busy(c) == client[c].pc # "idle"

Proceed(c, pc, s, t, st) ==
  client' = [client EXCEPT ![c] = Request(pc, s, t, st, {}, FALSE)]

(* POST scenarios/ and the scenarios an import creates. *)
CreateScenario(s) ==
  /\ life[s] = "unborn"
  /\ life' = [life EXCEPT ![s] = "live"]
  /\ UNCHANGED <<status, taskId, headroom, saved, results, broker, worker, client, faults>>

(* calculate_scenario: 404 without a row, 409 while its status says that a *)
(* calculation is pending (the other 409 is for a row that names no solver *)
(* backend which runs unattended; those here do).                          *)
CalculateRead(c, s) ==
  /\ "calculate" \in Requests
  /\ ~Busy(c)
  /\ life[s] = "live"
  /\ MayCalculate(s)
  /\ Proceed(c, "delay", s, NoTask, "PENDING")
  /\ UNCHANGED <<db, results, broker, worker, faults>>

(* run_solver.delay: a fresh task id, one message. *)
CalculateDelay(c, t) ==
  /\ client[c].pc = "delay"
  /\ scenarioOf[t] = NoScenario
  /\ scenarioOf' = [scenarioOf EXCEPT ![t] = client[c].scenario]
  /\ Enqueue(t, 0)
  /\ Proceed(c, "readState", client[c].scenario, t, "PENDING")
  /\ UNCHANGED <<db, results, revoking, revoked, worker, faults>>

(* task.state, evaluated for the UPDATE's values. *)
CalculateReadState(c) ==
  /\ client[c].pc = "readState"
  /\ LET t == client[c].task
     IN  Proceed(c, "commit", client[c].scenario, t, backend[t])
  /\ UNCHANGED <<db, results, broker, worker, faults>>

(* UPDATE scenarios SET solver_task_status, solver_task_id; COMMIT. *)
CalculateCommit(c) ==
  LET s == client[c].scenario
  IN  /\ client[c].pc = "commit"
      /\ IF life[s] = "live"
           THEN /\ status' = [status EXCEPT ![s] = client[c].state]
                /\ taskId' = [taskId EXCEPT ![s] = client[c].task]
           ELSE UNCHANGED <<status, taskId>>
      /\ client' = [client EXCEPT ![c] = IdleClient]
      /\ UNCHANGED <<life, headroom, saved, results, broker, worker, faults>>

(* patch_scenario_headroom, up to the DELETE of the old rows (422 when the *)
(* scenario is not there).                                                 *)
UploadBegin(c, s) ==
  /\ "upload" \in Requests
  /\ ~Busy(c)
  /\ life[s] = "live"
  /\ client' = [client EXCEPT ![c] =
                  Request("saving", s, NoTask, "PENDING", headroom[s], TRUE)]
  /\ UNCHANGED <<db, results, broker, worker, faults>>

(* Its commit; foreign keys refuse it once the scenario or the buses its   *)
(* rows are linked to are gone.                                            *)
Accepted(c) == client[c].linked /\ life[client[c].scenario] = "live"

UploadCommit(c) ==
  /\ client[c].pc = "saving"
  /\ IF Accepted(c)
       THEN SaveHeadroom(client[c].scenario, client[c].seen, Upload)
       ELSE UNCHANGED db
  /\ client' = [client EXCEPT ![c] = IdleClient]
  /\ UNCHANGED <<results, broker, worker, faults>>

(* remove_scenario looks the row up by id alone and revokes its task ...   *)
RemoveRead(c, s) ==
  /\ "remove" \in Requests
  /\ ~Busy(c)
  /\ life[s] = "live"
  /\ revoking' = IF HasPendingTask(s) THEN revoking \cup {taskId[s]} ELSE revoking
  /\ Proceed(c, "remove", s, NoTask, "PENDING")
  /\ UNCHANGED <<db, results, scenarioOf, ready, revoked, worker, faults>>

(* ... and deletes it by id and network, which is nothing at all when the  *)
(* request's net_id is another network's.                                  *)
RemoveCommit(c) ==
  /\ client[c].pc = "remove"
  /\ \/ DeleteScenarios({client[c].scenario})
     \/ UNCHANGED db
  /\ client' = [client EXCEPT ![c] = IdleClient]
  /\ UNCHANGED <<results, broker, worker, faults>>

(* _purge_connections: revoke what the network's scenarios wait for, the   *)
(* default scenario's task included ...                                    *)
ImportRevoke(c) ==
  /\ "import" \in Requests
  /\ ~Busy(c)
  /\ revoking' = revoking \cup {taskId[s] : s \in {x \in LiveScenarios : HasPendingTask(x)}}
  /\ Proceed(c, "purge", NoScenario, NoTask, "PENDING")
  /\ UNCHANGED <<db, results, scenarioOf, ready, revoked, worker, faults>>

(* ... and DELETE every scenario there is at this statement, but for the   *)
(* default ones ...                                                        *)
ImportDelete(c) ==
  /\ client[c].pc = "purge"
  /\ client' = [client EXCEPT ![c].pc = "import", ![c].doomed = LiveScenarios \ Defaults]
  /\ UNCHANGED <<db, results, broker, worker, faults>>

(* ... which others see when the import commits, or not at all when it     *)
(* fails.                                                                  *)
ImportCommit(c) ==
  /\ client[c].pc = "import"
  /\ \/ DeleteScenarios(client[c].doomed)
     \/ UNCHANGED db
  /\ client' = [client EXCEPT ![c] = IdleClient]
  /\ UNCHANGED <<results, broker, worker, faults>>

(* import_subsystems replaces the network's buses: the headroom goes with  *)
(* them and a save under way holds rows of buses that no longer exist.     *)
ReplaceBuses ==
  /\ "topology" \in Requests
  /\ headroom' = [s \in Scenarios |-> {}]
  /\ worker' = [w \in Workers |-> [worker[w] EXCEPT !.linked = FALSE]]
  /\ client' = [c \in Clients |-> [client[c] EXCEPT !.linked = FALSE]]
  /\ UNCHANGED <<life, status, taskId, saved, results, broker, faults>>

-----------------------------------------------------------------------------
(* The worker.  worker[w].pc is the next step of the process.              *)

Running(w) == worker[w].pc # "idle"

(* Wrong on purpose: acknowledged on delivery. *)
ReceiveAckEarly(w, t, r) ==
  /\ ~Running(w)
  /\ ready[t][r] > 0
  /\ t \notin revoked
  /\ Dequeue(t, r)
  /\ worker' = [worker EXCEPT ![w] = Process("prerunRead", t, r, FALSE, "PENDING", {}, FALSE)]
  /\ UNCHANGED <<db, results, scenarioOf, revoking, revoked, client, faults>>

(* A message is delivered; it stays unacknowledged (task_acks_late), which *)
(* held records.                                                           *)
Receive(w, t, r) ==
  /\ ~Running(w)
  /\ ready[t][r] > 0
  /\ t \notin revoked
  /\ Dequeue(t, r)
  /\ worker' = [worker EXCEPT ![w] = Process("prerunRead", t, r, TRUE, "PENDING", {}, FALSE)]
  /\ UNCHANGED <<db, results, scenarioOf, revoking, revoked, client, faults>>

(* A message of a task known to be revoked: acknowledged, no signal sent. *)
ReceiveRevoked(t, r) ==
  /\ ready[t][r] > 0
  /\ t \in revoked
  /\ Dequeue(t, r)
  /\ Store(t, "REVOKED")
  /\ UNCHANGED <<db, scenarioOf, revoking, revoked, worker, client, faults>>

(* To the next step, with what the step has read. *)
Advance(w, from, to, st, seen, linked) ==
  /\ worker[w].pc = from
  /\ worker' = [worker EXCEPT ![w] =
                  Process(to, @.task, @.retries, @.held, st, seen, linked)]

Goto(w, from, to) == Advance(w, from, to, "PENDING", {}, FALSE)

(* task_prerun_handler reads the state celery has stored so far ... *)
PrerunRead(w) ==
  /\ Advance(w, "prerunRead", "prerunWrite", backend[worker[w].task], {}, FALSE)
  /\ UNCHANGED <<db, results, broker, client, faults>>

(* ... and copies it to the row. *)
PrerunWrite(w) ==
  /\ Goto(w, "prerunWrite", "storeStarted")
  /\ UpdateSolverStatus(worker[w].task, worker[w].state)
  /\ UNCHANGED <<results, broker, client, faults>>

(* task_track_started. *)
StoreStarted(w) ==
  /\ Goto(w, "storeStarted", "run")
  /\ Store(worker[w].task, "STARTED")
  /\ UNCHANGED <<db, broker, client, faults>>

(* on_progress, called by calc_headroom for each bus. *)
Progress(w) ==
  /\ worker[w].pc = "run"
  /\ Store(worker[w].task, "PROGRESS")
  /\ UNCHANGED <<db, broker, worker, client, faults>>

(* update_scenario_headroom in the worker, up to the DELETE. *)
SaveBegin(w) ==
  LET s == scenarioOf[worker[w].task]
  IN  /\ Advance(w, "run", "saving", "PENDING", headroom[s], TRUE)
      /\ life[s] = "live"
      /\ UNCHANGED <<db, results, broker, client, faults>>

SaveCommit(w) ==
  LET s == scenarioOf[worker[w].task]
  IN  /\ worker[w].linked
      /\ life[s] = "live"
      /\ Goto(w, "saving", "markDone")
      /\ SaveHeadroom(s, worker[w].seen, worker[w].task)
      /\ UNCHANGED <<results, broker, client, faults>>

(* A RuntimeError is not retried: no config, no case file, no scenario. *)
RunRefused(w) ==
  /\ Goto(w, "run", "storeFailure")
  /\ UNCHANGED <<db, results, broker, client, faults>>

(* Any other exception of the solver or of the save is retried once: the   *)
(* message with the next attempt is published before RETRY is stored.      *)
PublishRetry(w) ==
  /\ \E from \in {"run", "saving"} : Goto(w, from, "storeRetry")
  /\ worker[w].retries < MaxRetries
  /\ Enqueue(worker[w].task, worker[w].retries + 1)
  /\ UNCHANGED <<db, results, scenarioOf, revoking, revoked, client, faults>>

RetriesExhausted(w) ==
  /\ \E from \in {"run", "saving"} : Goto(w, from, "storeFailure")
  /\ worker[w].retries = MaxRetries
  /\ UNCHANGED <<db, results, broker, client, faults>>

MarkDone(w) ==
  /\ Goto(w, "markDone", "postrunRead")
  /\ Store(worker[w].task, "SUCCESS")
  /\ UNCHANGED <<db, broker, client, faults>>

StoreRetry(w) ==
  /\ Goto(w, "storeRetry", "postrunRead")
  /\ Store(worker[w].task, "RETRY")
  /\ UNCHANGED <<db, broker, client, faults>>

StoreFailure(w) ==
  /\ Goto(w, "storeFailure", "postrunRead")
  /\ Store(worker[w].task, "FAILURE")
  /\ UNCHANGED <<db, broker, client, faults>>

(* task_postrun_handler. *)
PostrunRead(w) ==
  /\ Advance(w, "postrunRead", "postrunWrite", backend[worker[w].task], {}, FALSE)
  /\ UNCHANGED <<db, results, broker, client, faults>>

PostrunWrite(w) ==
  /\ Goto(w, "postrunWrite", "ack")
  /\ UpdateSolverStatus(worker[w].task, worker[w].state)
  /\ UNCHANGED <<results, broker, client, faults>>

(* The message is acknowledged once the task is done with. *)
Acknowledge(w) ==
  /\ worker[w].pc = "ack"
  /\ worker' = [worker EXCEPT ![w] = IdleWorker]
  /\ UNCHANGED <<db, results, broker, client, faults>>

-----------------------------------------------------------------------------
(* Revocation and failures.                                                *)

(* The broadcast reaches the worker: the id is remembered, and one process *)
(* that executes the task is terminated.  Its message is acknowledged and  *)
(* no signal handler runs.                                                 *)
Executing(w, t) == Running(w) /\ worker[w].task = t

RevokeRunning(t, w) ==
  /\ t \in revoking
  /\ Executing(w, t)
  /\ worker' = [worker EXCEPT ![w] = IdleWorker]
  /\ Store(t, "REVOKED")
  /\ revoking' = revoking \ {t}
  /\ revoked' = revoked \cup {t}
  /\ UNCHANGED <<db, scenarioOf, ready, client, faults>>

RevokeQueued(t) ==
  /\ t \in revoking
  /\ \A w \in Workers : ~Executing(w, t)
  /\ revoking' = revoking \ {t}
  /\ revoked' = revoked \cup {t}
  /\ UNCHANGED <<db, results, scenarioOf, ready, worker, client, faults>>

Fault == faults < MaxFaults /\ faults' = faults + 1

(* Copies of a message the processes hold unacknowledged. *)
Holds(w, t, r) == worker[w].held /\ worker[w].task = t /\ worker[w].retries = r
Holders(t, r) == {w \in Workers : Holds(w, t, r)}

(* A pool process dies: task_reject_on_worker_lost puts the message back. *)
WorkerLost(w) ==
  /\ Fault
  /\ Running(w)
  /\ IF worker[w].held
       THEN Enqueue(worker[w].task, worker[w].retries)
       ELSE UNCHANGED ready
  /\ worker' = [worker EXCEPT ![w] = IdleWorker]
  /\ UNCHANGED <<db, results, scenarioOf, revoking, revoked, client>>

(* The whole worker restarts: every unacknowledged message is delivered    *)
(* again, and what it knew of revocations is gone.                         *)
WorkerRestart ==
  /\ Fault
  /\ ready' = [t \in Tasks |-> [r \in Attempts |->
                 ready[t][r] + Cardinality(Holders(t, r))]]
  /\ worker' = [w \in Workers |-> IdleWorker]
  /\ revoking' = {}
  /\ revoked' = {}
  /\ UNCHANGED <<db, results, scenarioOf, client>>

(* The broker gives an unacknowledged message to others while its first    *)
(* receiver is still at work.                                              *)
VisibilityTimeout(w) ==
  /\ Fault
  /\ Running(w)
  /\ worker[w].held
  /\ Enqueue(worker[w].task, worker[w].retries)
  /\ worker' = [worker EXCEPT ![w].held = FALSE]
  /\ UNCHANGED <<db, results, scenarioOf, revoking, revoked, client>>

(* The database is out of reach of a signal handler: celery logs what a    *)
(* receiver raises and goes on.                                            *)
SignalHandlerFails(w) ==
  /\ Fault
  /\ \/ \E from \in {"prerunRead", "prerunWrite"} : Goto(w, from, "storeStarted")
     \/ \E from \in {"postrunRead", "postrunWrite"} : Goto(w, from, "ack")
  /\ UNCHANGED <<db, results, broker, client>>

(* The API process dies, or a statement of the request fails. *)
RequestLost(c) ==
  /\ Fault
  /\ Busy(c)
  /\ client' = [client EXCEPT ![c] = IdleClient]
  /\ UNCHANGED <<db, results, broker, worker>>

-----------------------------------------------------------------------------
ClientContinues(c) ==
  \/ \E t \in Tasks : CalculateDelay(c, t)
  \/ CalculateReadState(c)
  \/ CalculateCommit(c)
  \/ UploadCommit(c)
  \/ RemoveCommit(c)
  \/ ImportDelete(c)
  \/ ImportCommit(c)

ClientRequests(c) ==
  \/ \E s \in Scenarios : CalculateRead(c, s)
  \/ \E s \in Scenarios : UploadBegin(c, s)
  \/ \E s \in Scenarios : RemoveRead(c, s)
  \/ ImportRevoke(c)

WorkerContinues(w) ==
  \/ PrerunRead(w)
  \/ PrerunWrite(w)
  \/ StoreStarted(w)
  \/ SaveBegin(w)
  \/ SaveCommit(w)
  \/ RunRefused(w)
  \/ PublishRetry(w)
  \/ RetriesExhausted(w)
  \/ MarkDone(w)
  \/ StoreRetry(w)
  \/ StoreFailure(w)
  \/ PostrunRead(w)
  \/ PostrunWrite(w)
  \/ Acknowledge(w)

Deliver(t, r) ==
  \/ \E w \in Workers : Receive(w, t, r)
  \/ ReceiveRevoked(t, r)

Faulty ==
  \/ \E w \in Workers : WorkerLost(w)
  \/ WorkerRestart
  \/ \E w \in Workers : VisibilityTimeout(w)
  \/ \E w \in Workers : SignalHandlerFails(w)
  \/ \E c \in Clients : RequestLost(c)

Next ==
  \/ \E s \in Scenarios : CreateScenario(s)
  \/ \E c \in Clients : ClientRequests(c)
  \/ \E c \in Clients : ClientContinues(c)
  \/ ReplaceBuses
  \/ \E t \in Tasks, r \in Attempts : Deliver(t, r)
  \/ \E w \in Workers : Progress(w)
  \/ \E w \in Workers : WorkerContinues(w)
  \/ \E t \in Tasks, w \in Workers : RevokeRunning(t, w)
  \/ \E t \in Tasks : RevokeQueued(t)
  \/ Faulty

Spec == Init /\ [][Next]_vars

(* The event loop goes on with a request it has begun, a calculation ends, *)
(* and a queued message is delivered sooner or later.  Nobody has to send  *)
(* a request, and a revocation may come too late or never.                 *)
FairSpec ==
  /\ Spec
  /\ \A c \in Clients : WF_vars(ClientContinues(c))
  /\ \A w \in Workers : WF_vars(WorkerContinues(w))
  /\ \A t \in Tasks, r \in Attempts : WF_vars(Deliver(t, r))

-----------------------------------------------------------------------------
(* A row that says SUCCESS belongs to a scenario whose headroom some       *)
(* calculation or upload has committed.  The status reaches the row by     *)
(* four ways (the save itself, prerun, postrun, and calculate_scenario's   *)
(* task.state), each of them read earlier from a backend that a redelivered*)
(* or retried execution may be rewriting meanwhile.                        *)
SuccessWasSaved ==
  \A s \in Scenarios : life[s] = "live" /\ status[s] = "SUCCESS" => s \in saved

(* A calculation that was queued is never lost by the worker: until it has *)
(* succeeded, failed or been revoked, a copy of its message is in the      *)
(* broker or held unacknowledged, whatever crashes, retries, redeliveries  *)
(* and overlapping executions happen.                                      *)
Outstanding(t, r) == ready[t][r] > 0 \/ \E w \in Workers : Holds(w, t, r)

NoTaskLost ==
  \A t \in Tasks : scenarioOf[t] # NoScenario =>
    t \in settled \/ \E r \in Attempts : Outstanding(t, r)

(* What the 409 of calculate_scenario calls pending: a message waits or a  *)
(* process has not saved yet.  How many there are of a scenario is a       *)
(* property of CalculationHistory.                                         *)
Underway(t) ==
  \/ \E r \in Attempts : ready[t][r] > 0
  \/ \E w \in Workers : /\ Executing(w, t)
                        /\ worker[w].pc \in {"prerunRead", "prerunWrite",
                                             "storeStarted", "run", "saving"}

Quiet ==
  /\ \A c \in Clients : ~Busy(c)
  /\ \A w \in Workers : ~Running(w)
  /\ \A t \in Tasks, r \in Attempts : ready[t][r] = 0

(* "Calculation request is already pending", says the 409: once nothing is *)
(* going on, no queued, running or reporting task, no row makes the API    *)
(* answer that.                                                            *)
PendingIsPending ==
  Quiet => \A s \in Scenarios : MayCalculate(s)

-----------------------------------------------------------------------------
(* The promise towards a client whose calculation was queued, see          *)
(* TaskLedger.  What the result backend says of a task is its entry, and a *)
(* failure counts from the first time it is stored.                        *)
LedgerEntry(t) ==
  CASE scenarioOf[t] = NoScenario -> "new"
    [] scenarioOf[t] # NoScenario /\ backend[t] = "SUCCESS" -> "succeeded"
    [] scenarioOf[t] # NoScenario /\ backend[t] # "SUCCESS" /\ t \in settled -> "failed"
    [] scenarioOf[t] # NoScenario /\ backend[t] # "SUCCESS" /\ t \notin settled -> "owed"

Ledger == INSTANCE TaskLedger
            WITH entry <- [t \in Tasks |-> LedgerEntry(t)],
                 owner <- scenarioOf,
                 kept  <- saved

(* Every queued calculation is settled sooner or later.  One that the      *)
(* backend says has succeeded has a scenario with results, and is not      *)
(* taken back by an execution that is redelivered, retried or revoked      *)
(* afterwards; one that has failed may still succeed.                      *)
ImplementsLedger == Ledger!FairSpec

=============================================================================

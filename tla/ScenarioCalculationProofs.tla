--------------------- MODULE ScenarioCalculationProofs ---------------------
(***************************************************************************)
(* Theorems about ScenarioCalculation, for any number of scenarios, tasks, *)
(* pool processes, requests and faults.                                    *)
(***************************************************************************)
EXTENDS ScenarioCalculation, FiniteSetTheorems, TLAPS

(* Who refers to whom.  Messages, revocations, settlements and executions  *)
(* are of tasks that were queued for a scenario; a request knows the       *)
(* scenario it is about, and the task it has queued is that scenario's.    *)
Queued(t) == t \in Tasks /\ scenarioOf[t] \in Scenarios

MessagesWired == \A t \in Tasks, r \in Attempts : ready[t][r] > 0 => Queued(t)
RevokesWired == \A t \in revoking : Queued(t)
SettledWired == \A t \in settled : Queued(t)
WorkersWired == \A w \in Workers :
                  /\ Running(w) => Queued(worker[w].task)
                  /\ worker[w].held => Running(w)
ClientsWired == \A c \in Clients :
                  /\ client[c].pc \in {"delay", "readState", "commit", "saving", "remove"}
                       => client[c].scenario \in Scenarios
                  /\ client[c].pc \in {"readState", "commit"}
                       => client[c].task \in Tasks
                          /\ scenarioOf[client[c].task] = client[c].scenario

(* Results and statuses of a task only ever reach the scenario the task    *)
(* was queued for.                                                         *)
RowsWired ==
  \A s \in Scenarios :
    /\ \A t \in headroom[s] \ {Upload} : scenarioOf[t] = s
    /\ taskId[s] # NoTask => scenarioOf[taskId[s]] = s

Wiring ==
  /\ MessagesWired
  /\ RevokesWired
  /\ SettledWired
  /\ WorkersWired
  /\ ClientsWired
  /\ RowsWired

-----------------------------------------------------------------------------
(* What the shared parts of the actions leave well-typed.                  *)

LEMMA AdvanceType ==
  ASSUME TypeOK, NEW w \in Workers, NEW from, NEW to \in WorkerSteps,
         NEW st \in CeleryStates, NEW seen \in SUBSET Writers, NEW linked \in BOOLEAN,
         Advance(w, from, to, st, seen, linked)
  PROVE  worker' \in [Workers -> WorkerState]
BY DEF TypeOK, Advance, Process, WorkerState

LEMMA GotoType ==
  ASSUME TypeOK, NEW w \in Workers, NEW from, NEW to \in WorkerSteps, Goto(w, from, to)
  PROVE  worker' \in [Workers -> WorkerState]
BY AdvanceType, "PENDING" \in CeleryStates DEF Goto, CeleryStates

LEMMA IdleWorkerType == IdleWorker \in WorkerState
BY DEF IdleWorker, Process, WorkerState, WorkerSteps, CeleryStates, Attempts, MaxRetries

LEMMA RequestType ==
  ASSUME TypeOK, NEW c \in Clients, NEW pc \in ClientSteps,
         NEW s \in Scenarios \cup {NoScenario}, NEW t \in Tasks \cup {NoTask},
         NEW st \in CeleryStates, NEW seen \in SUBSET Writers, NEW linked \in BOOLEAN,
         client' = [client EXCEPT ![c] = Request(pc, s, t, st, seen, linked)]
  PROVE  client' \in [Clients -> ClientState]
BY DEF TypeOK, Request, ClientState

LEMMA IdleClientType == IdleClient \in ClientState
BY DEF IdleClient, Request, ClientState, ClientSteps, CeleryStates

LEMMA StoreType ==
  ASSUME TypeOK, NEW t \in Tasks, NEW st \in CeleryStates, Store(t, st)
  PROVE  /\ backend' \in [Tasks -> CeleryStates]
         /\ settled' \subseteq Tasks
BY DEF TypeOK, Store

LEMMA EnqueueFacts ==
  ASSUME TypeOK, NEW t \in Tasks, NEW r \in Attempts, Enqueue(t, r)
  PROVE  /\ ready' \in [Tasks -> [Attempts -> Nat]]
         /\ ready'[t][r] > 0
         /\ \A u \in Tasks, q \in Attempts : ready[u][q] > 0 => ready'[u][q] > 0
         /\ \A u \in Tasks, q \in Attempts : ready'[u][q] > 0 => ready[u][q] > 0 \/ u = t
<1>1. ready[t] \in [Attempts -> Nat]
  BY DEF TypeOK
<1>2. [ready[t] EXCEPT ![r] = ready[t][r] + 1] \in [Attempts -> Nat]
  BY <1>1
<1>3. QED
  BY <1>1, <1>2 DEF TypeOK, Enqueue

LEMMA DequeueFacts ==
  ASSUME TypeOK, NEW t \in Tasks, NEW r \in Attempts, ready[t][r] > 0, Dequeue(t, r)
  PROVE  /\ ready' \in [Tasks -> [Attempts -> Nat]]
         /\ \A u \in Tasks, q \in Attempts : ready'[u][q] > 0 => ready[u][q] > 0
         /\ \A u \in Tasks, q \in Attempts : (u # t \/ q # r) => ready'[u][q] = ready[u][q]
<1>1. ready[t] \in [Attempts -> Nat]
  BY DEF TypeOK
<1>2. [ready[t] EXCEPT ![r] = ready[t][r] - 1] \in [Attempts -> Nat]
  BY <1>1
<1>3. QED
  BY <1>1, <1>2 DEF TypeOK, Dequeue

LEMMA UpdateType ==
  ASSUME TypeOK, NEW t, NEW st \in CeleryStates, UpdateSolverStatus(t, st)
  PROVE  status' \in [Scenarios -> Statuses]
BY DEF TypeOK, UpdateSolverStatus, Statuses

LEMMA SaveType ==
  ASSUME TypeOK, NEW s \in Scenarios, NEW seen \in SUBSET Writers, NEW writer \in Writers,
         SaveHeadroom(s, seen, writer)
  PROVE  /\ headroom' \in [Scenarios -> SUBSET Writers]
         /\ status' \in [Scenarios -> Statuses]
         /\ saved' \subseteq Scenarios
BY DEF TypeOK, SaveHeadroom, Statuses, CeleryStates, ReadyStates

LEMMA DeleteType ==
  ASSUME TypeOK, NEW S, DeleteScenarios(S)
  PROVE  /\ life' \in [Scenarios -> {"unborn", "live", "removed"}]
         /\ status' \in [Scenarios -> Statuses]
         /\ taskId' \in [Scenarios -> Tasks \cup {NoTask}]
         /\ headroom' \in [Scenarios -> SUBSET Writers]
BY DEF TypeOK, DeleteScenarios, Statuses

LEMMA HoldersCount ==
  ASSUME NEW t, NEW r PROVE Cardinality(Holders(t, r)) \in Nat
BY WorkersAssumption, FS_Subset, FS_CardinalityType DEF Holders
-----------------------------------------------------------------------------
LEMMA TypeStep == TypeOK /\ Wiring /\ [Next]_vars => TypeOK'
<1> SUFFICES ASSUME TypeOK, Wiring, Next PROVE TypeOK'
  BY DEF TypeOK, vars
<1> USE DEF db, results, broker
<1>t. \A w \in Workers : worker[w].pc # "idle" =>
        worker[w].task \in Tasks /\ scenarioOf[worker[w].task] \in Scenarios
  BY DEF Wiring, WorkersWired, Running, Queued
<1>s. \A w \in Workers : /\ worker[w].retries \in Attempts
                         /\ worker[w].state \in CeleryStates
                         /\ worker[w].seen \in SUBSET Writers
  BY DEF TypeOK, WorkerState
<1>c. \A st \in CeleryStates : st \in Statuses
  BY DEF Statuses
<1>p. /\ "PENDING" \in CeleryStates /\ "STARTED" \in CeleryStates
      /\ "PROGRESS" \in CeleryStates /\ "RETRY" \in CeleryStates
      /\ "SUCCESS" \in CeleryStates /\ "FAILURE" \in CeleryStates
      /\ "REVOKED" \in CeleryStates
  BY DEF CeleryStates, ReadyStates
<1>1. ASSUME NEW s \in Scenarios, CreateScenario(s) PROVE TypeOK'
  BY <1>1 DEF CreateScenario, TypeOK
<1>2. ASSUME NEW c \in Clients, ClientRequests(c) PROVE TypeOK'
  <2>1. ASSUME NEW s \in Scenarios, CalculateRead(c, s) PROVE TypeOK'
    BY <2>1, <1>p, RequestType DEF CalculateRead, Proceed, ClientSteps, TypeOK
  <2>2. ASSUME NEW s \in Scenarios, UploadBegin(c, s) PROVE TypeOK'
    <3>1. headroom[s] \in SUBSET Writers
      BY DEF TypeOK
    <3>2. QED
      BY <2>2, <3>1, <1>p, RequestType DEF UploadBegin, ClientSteps, TypeOK
  <2>3. ASSUME NEW s \in Scenarios, RemoveRead(c, s) PROVE TypeOK'
    BY <2>3, <1>p, RequestType DEF RemoveRead, Proceed, ClientSteps, TypeOK, HasPendingTask
  <2>4. CASE ImportRevoke(c)
    <3>1. \A s \in LiveScenarios : HasPendingTask(s) => taskId[s] \in Tasks
      BY DEF LiveScenarios, HasPendingTask, TypeOK
    <3>2. {taskId[s] : s \in {x \in LiveScenarios : HasPendingTask(x)}} \subseteq Tasks
      BY <3>1
    <3>3. QED
      BY <2>4, <3>2, <1>p, RequestType DEF ImportRevoke, Proceed, ClientSteps, TypeOK
  <2>5. QED
    BY <1>2, <2>1, <2>2, <2>3, <2>4 DEF ClientRequests
<1>3. ASSUME NEW c \in Clients, ClientContinues(c) PROVE TypeOK'
  <2>c. /\ client[c].scenario \in Scenarios \cup {NoScenario}
        /\ client[c].seen \in SUBSET Writers
        /\ client[c].state \in CeleryStates
        /\ client[c].task \in Tasks \cup {NoTask}
    BY DEF TypeOK, ClientState
  <2>i. client' = [client EXCEPT ![c] = IdleClient] => client' \in [Clients -> ClientState]
    BY IdleClientType DEF TypeOK
  <2>1. ASSUME NEW t \in Tasks, CalculateDelay(c, t) PROVE TypeOK'
    <3>3. ready' \in [Tasks -> [Attempts -> Nat]]
      BY <2>1, 0 \in Attempts, EnqueueFacts DEF CalculateDelay, Attempts, MaxRetries
    <3>4. client' \in [Clients -> ClientState]
      BY <2>1, <2>c, <1>p, RequestType DEF CalculateDelay, Proceed, ClientSteps
    <3>5. QED
      BY <2>1, <2>c, <3>3, <3>4 DEF CalculateDelay, TypeOK
  <2>2. CASE CalculateReadState(c)
    <3>1. client[c].task \in Tasks
      BY <2>2 DEF CalculateReadState, Wiring, ClientsWired
    <3>2. backend[client[c].task] \in CeleryStates
      BY <3>1 DEF TypeOK
    <3>3. client' \in [Clients -> ClientState]
      BY <2>2, <2>c, <3>1, <3>2, RequestType DEF CalculateReadState, Proceed, ClientSteps
    <3>4. QED
      BY <2>2, <3>3 DEF CalculateReadState, TypeOK
  <2>3. CASE CalculateCommit(c)
    BY <2>3, <2>c, <2>i, <1>c DEF CalculateCommit, TypeOK
  <2>4. CASE UploadCommit(c)
    <3>1. client[c].scenario \in Scenarios
      BY <2>4 DEF UploadCommit, Wiring, ClientsWired
    <3>2. SaveHeadroom(client[c].scenario, client[c].seen, Upload) \/ UNCHANGED db
      BY <2>4 DEF UploadCommit
    <3>3. /\ headroom' \in [Scenarios -> SUBSET Writers]
          /\ status' \in [Scenarios -> Statuses]
          /\ saved' \subseteq Scenarios
          /\ UNCHANGED <<life, taskId>>
      BY <3>1, <3>2, <2>c, SaveType DEF SaveHeadroom, Writers, TypeOK
    <3>4. QED
      BY <2>4, <2>i, <3>3 DEF UploadCommit, TypeOK
  <2>5. CASE RemoveCommit(c)
    BY <2>5, <2>i, DeleteType DEF RemoveCommit, TypeOK, DeleteScenarios
  <2>6. CASE ImportCommit(c)
    BY <2>6, <2>i, DeleteType DEF ImportCommit, TypeOK, DeleteScenarios
  <2>7. CASE ImportDelete(c)
    <3>1. [client[c] EXCEPT !.pc = "import", !.doomed = LiveScenarios \ Defaults] \in ClientState
      BY DEF TypeOK, ClientState, ClientSteps, LiveScenarios
    <3>2. QED
      BY <2>7, <3>1 DEF ImportDelete, TypeOK
  <2>8. QED
    BY <1>3, <2>1, <2>2, <2>3, <2>4, <2>5, <2>6, <2>7 DEF ClientContinues
<1>4. CASE ReplaceBuses
  <2>1. \A w \in Workers : [worker[w] EXCEPT !.linked = FALSE] \in WorkerState
    BY DEF TypeOK, WorkerState
  <2>2. \A c \in Clients : [client[c] EXCEPT !.linked = FALSE] \in ClientState
    BY DEF TypeOK, ClientState
  <2>3. QED
    BY <1>4, <2>1, <2>2 DEF ReplaceBuses, TypeOK
<1>5. ASSUME NEW t \in Tasks, NEW r \in Attempts, Deliver(t, r) PROVE TypeOK'
  <2>3. ready' \in [Tasks -> [Attempts -> Nat]]
    BY <1>5, DequeueFacts DEF Deliver, Receive, ReceiveRevoked
  <2>4. ASSUME NEW w \in Workers, Receive(w, t, r) PROVE TypeOK'
    <3>1. Process("prerunRead", t, r, TRUE, "PENDING", {}, FALSE) \in WorkerState
      BY <1>p DEF Process, WorkerState, WorkerSteps
    <3>2. QED
      BY <2>3, <2>4, <3>1 DEF Receive, TypeOK
  <2>5. CASE ReceiveRevoked(t, r)
    BY <2>3, <2>5, <1>p, StoreType DEF ReceiveRevoked, TypeOK
  <2>6. QED
    BY <1>5, <2>4, <2>5 DEF Deliver
<1>6. ASSUME NEW w \in Workers, Progress(w) PROVE TypeOK'
  BY <1>6, <1>t, <1>p, StoreType DEF Progress, TypeOK
<1>7. ASSUME NEW w \in Workers, WorkerContinues(w) PROVE TypeOK'
  <2>1. CASE PrerunRead(w) \/ PostrunRead(w)
    <3>1. backend[worker[w].task] \in CeleryStates
      BY <2>1, <1>t DEF PrerunRead, PostrunRead, Advance, TypeOK
    <3>2. worker' \in [Workers -> WorkerState]
      BY <2>1, <3>1, AdvanceType DEF PrerunRead, PostrunRead, WorkerSteps
    <3>3. QED
      BY <2>1, <3>2 DEF PrerunRead, PostrunRead, TypeOK
  <2>2. CASE PrerunWrite(w) \/ PostrunWrite(w)
    <3>1. worker' \in [Workers -> WorkerState]
      BY <2>2, GotoType DEF PrerunWrite, PostrunWrite, WorkerSteps
    <3>2. UpdateSolverStatus(worker[w].task, worker[w].state)
      BY <2>2 DEF PrerunWrite, PostrunWrite
    <3>3. status' \in [Scenarios -> Statuses]
      BY <3>2, <1>s, UpdateType
    <3>4. QED
      BY <2>2, <3>1, <3>2, <3>3 DEF PrerunWrite, PostrunWrite, UpdateSolverStatus, TypeOK
  <2>3. CASE StoreStarted(w) \/ MarkDone(w) \/ StoreRetry(w) \/ StoreFailure(w)
    <3>1. worker' \in [Workers -> WorkerState]
      BY <2>3, GotoType DEF StoreStarted, MarkDone, StoreRetry, StoreFailure, WorkerSteps
    <3>2. PICK st \in CeleryStates : Store(worker[w].task, st)
      BY <2>3, <1>p DEF StoreStarted, MarkDone, StoreRetry, StoreFailure
    <3>3. worker[w].task \in Tasks
      BY <2>3, <1>t DEF StoreStarted, MarkDone, StoreRetry, StoreFailure, Goto, Advance
    <3>4. /\ backend' \in [Tasks -> CeleryStates]
          /\ settled' \subseteq Tasks
      BY <3>2, <3>3, StoreType
    <3>5. QED
      BY <2>3, <3>1, <3>4 DEF StoreStarted, MarkDone, StoreRetry, StoreFailure, TypeOK
  <2>4. CASE SaveBegin(w)
    <3>1. headroom[scenarioOf[worker[w].task]] \in SUBSET Writers
      BY <2>4, <1>t DEF SaveBegin, Advance, TypeOK
    <3>2. worker' \in [Workers -> WorkerState]
      BY <2>4, <3>1, <1>p, AdvanceType DEF SaveBegin, WorkerSteps
    <3>3. QED
      BY <2>4, <3>2 DEF SaveBegin, TypeOK
  <2>5. CASE SaveCommit(w)
    <3>1. worker' \in [Workers -> WorkerState]
      BY <2>5, GotoType DEF SaveCommit, WorkerSteps
    <3>2. /\ scenarioOf[worker[w].task] \in Scenarios
          /\ worker[w].task \in Writers
      BY <2>5, <1>t DEF SaveCommit, Goto, Advance, Writers
    <3>3. /\ headroom' \in [Scenarios -> SUBSET Writers]
          /\ status' \in [Scenarios -> Statuses]
          /\ saved' \subseteq Scenarios
      BY <2>5, <3>2, <1>s, SaveType DEF SaveCommit
    <3>4. QED
      BY <2>5, <3>1, <3>3 DEF SaveCommit, SaveHeadroom, TypeOK
  <2>6. CASE RunRefused(w) \/ RetriesExhausted(w)
    <3>1. worker' \in [Workers -> WorkerState]
      BY <2>6, GotoType DEF RunRefused, RetriesExhausted, WorkerSteps
    <3>2. QED
      BY <2>6, <3>1 DEF RunRefused, RetriesExhausted, TypeOK
  <2>7. CASE PublishRetry(w)
    <3>1. worker' \in [Workers -> WorkerState]
      BY <2>7, GotoType DEF PublishRetry, WorkerSteps
    <3>2. worker[w].task \in Tasks /\ worker[w].retries + 1 \in Attempts
      BY <2>7, <1>t, <1>s DEF PublishRetry, Goto, Advance, Attempts, MaxRetries
    <3>3. ready' \in [Tasks -> [Attempts -> Nat]]
      BY <2>7, <3>2, EnqueueFacts DEF PublishRetry
    <3>4. QED
      BY <2>7, <3>1, <3>3 DEF PublishRetry, TypeOK
  <2>8. CASE Acknowledge(w)
    BY <2>8, IdleWorkerType DEF Acknowledge, TypeOK
  <2>9. QED
    BY <1>7, <2>1, <2>2, <2>3, <2>4, <2>5, <2>6, <2>7, <2>8 DEF WorkerContinues
<1>8. ASSUME NEW t \in Tasks, NEW w \in Workers, RevokeRunning(t, w) PROVE TypeOK'
  BY <1>8, <1>p, StoreType, IdleWorkerType DEF RevokeRunning, TypeOK
<1>9. ASSUME NEW t \in Tasks, RevokeQueued(t) PROVE TypeOK'
  BY <1>9 DEF RevokeQueued, TypeOK
<1>10. CASE Faulty
  <2>f. faults' \in Nat
    <3>1. Fault
      BY <1>10 DEF Faulty, WorkerLost, WorkerRestart, VisibilityTimeout, SignalHandlerFails,
         RequestLost
    <3>2. QED
      BY <3>1 DEF Fault, TypeOK
  <2>1. ASSUME NEW w \in Workers, WorkerLost(w) PROVE TypeOK'
    <3>1. ready' \in [Tasks -> [Attempts -> Nat]]
      BY <2>1, <1>t, <1>s, EnqueueFacts DEF WorkerLost, Running, TypeOK
    <3>2. QED
      BY <2>1, <2>f, <3>1, IdleWorkerType DEF WorkerLost, TypeOK
  <2>2. CASE WorkerRestart
    BY <2>2, <2>f, HoldersCount, IdleWorkerType DEF WorkerRestart, TypeOK
  <2>3. ASSUME NEW w \in Workers, VisibilityTimeout(w) PROVE TypeOK'
    <3>1. ready' \in [Tasks -> [Attempts -> Nat]]
      BY <2>3, <1>t, <1>s, EnqueueFacts DEF VisibilityTimeout, Running
    <3>2. [worker[w] EXCEPT !.held = FALSE] \in WorkerState
      BY DEF TypeOK, WorkerState
    <3>3. QED
      BY <2>3, <2>f, <3>1, <3>2 DEF VisibilityTimeout, TypeOK
  <2>4. ASSUME NEW w \in Workers, SignalHandlerFails(w) PROVE TypeOK'
    <3>1. worker' \in [Workers -> WorkerState]
      BY <2>4, GotoType DEF SignalHandlerFails, WorkerSteps
    <3>2. QED
      BY <2>4, <2>f, <3>1 DEF SignalHandlerFails, TypeOK
  <2>5. ASSUME NEW c \in Clients, RequestLost(c) PROVE TypeOK'
    BY <2>5, <2>f, IdleClientType DEF RequestLost, TypeOK
  <2>6. QED
    BY <1>10, <2>1, <2>2, <2>3, <2>4, <2>5 DEF Faulty
<1>11. QED
  BY <1>1, <1>2, <1>3, <1>4, <1>5, <1>6, <1>7, <1>8, <1>9, <1>10 DEF Next
LEMMA RestartFacts ==
  ASSUME TypeOK, WorkerRestart
  PROVE  /\ \A t \in Tasks, r \in Attempts : ready'[t][r] > 0 =>
              ready[t][r] > 0 \/ \E w \in Workers : Holds(w, t, r)
         /\ \A t \in Tasks, r \in Attempts :
              ready[t][r] > 0 \/ (\E w \in Workers : Holds(w, t, r)) => ready'[t][r] > 0
<1> SUFFICES ASSUME NEW t \in Tasks, NEW r \in Attempts
             PROVE  ready'[t][r] > 0 <=>
                      ready[t][r] > 0 \/ \E w \in Workers : Holds(w, t, r)
  OBVIOUS
<1>1. IsFiniteSet(Holders(t, r))
  BY WorkersAssumption, FS_Subset DEF Holders
<1>2. Cardinality(Holders(t, r)) > 0 <=> \E w \in Workers : Holds(w, t, r)
  <2>1. Cardinality(Holders(t, r)) = 0 <=> Holders(t, r) = {}
    BY <1>1, FS_EmptySet
  <2>2. QED
    BY <2>1, HoldersCount DEF Holders
<1>3. ready'[t][r] = ready[t][r] + Cardinality(Holders(t, r))
  BY DEF WorkerRestart
<1>4. ready[t][r] \in Nat
  BY DEF TypeOK
<1>5. QED
  BY <1>2, <1>3, <1>4, HoldersCount

LEMMA WiringStep == TypeOK /\ Wiring /\ [Next]_vars => Wiring'
<1> SUFFICES ASSUME TypeOK, Wiring, Next PROVE Wiring'
  BY DEF vars, Wiring, MessagesWired, RevokesWired, SettledWired, WorkersWired, ClientsWired,
     RowsWired, Queued, Running
<1> USE ScenariosAssumption
    DEF TypeOK, db, results, broker, Wiring, MessagesWired, RevokesWired, SettledWired,
        WorkersWired, ClientsWired, RowsWired, Queued, Running
<1>1. ASSUME NEW s \in Scenarios, CreateScenario(s) PROVE Wiring'
  BY <1>1 DEF CreateScenario
<1>2. ASSUME NEW c \in Clients, ClientRequests(c) PROVE Wiring'
  <2>1. ASSUME NEW s \in Scenarios, CalculateRead(c, s) PROVE Wiring'
    BY <2>1 DEF CalculateRead, Proceed, Request, Busy
  <2>2. ASSUME NEW s \in Scenarios, UploadBegin(c, s) PROVE Wiring'
    BY <2>2 DEF UploadBegin, Request
  <2>3. ASSUME NEW s \in Scenarios, RemoveRead(c, s) PROVE Wiring'
    BY <2>3 DEF RemoveRead, Proceed, Request, HasPendingTask
  <2>4. CASE ImportRevoke(c)
    BY <2>4 DEF ImportRevoke, Proceed, Request, HasPendingTask, LiveScenarios
  <2>5. QED
    BY <1>2, <2>1, <2>2, <2>3, <2>4 DEF ClientRequests
<1>3. ASSUME NEW c \in Clients, ClientContinues(c) PROVE Wiring'
  <2>1. ASSUME NEW t \in Tasks, CalculateDelay(c, t) PROVE Wiring'
    <3>1. \A u \in Tasks, q \in Attempts : ready'[u][q] > 0 => ready[u][q] > 0 \/ u = t
      BY <2>1, EnqueueFacts DEF CalculateDelay, Attempts, MaxRetries
    <3>2. QED
      BY <2>1, <3>1 DEF CalculateDelay, Proceed, Request
  <2>2. CASE CalculateReadState(c)
    BY <2>2 DEF CalculateReadState, Proceed, Request
  <2>3. CASE CalculateCommit(c)
    BY <2>3 DEF CalculateCommit, IdleClient, Request
  <2>4. CASE UploadCommit(c)
    BY <2>4 DEF UploadCommit, IdleClient, Request, SaveHeadroom
  <2>5. CASE RemoveCommit(c)
    BY <2>5 DEF RemoveCommit, IdleClient, Request, DeleteScenarios
  <2>6. CASE ImportCommit(c)
    BY <2>6 DEF ImportCommit, IdleClient, Request, DeleteScenarios
  <2>7. CASE ImportDelete(c)
    BY <2>7 DEF ImportDelete, ClientState
  <2>8. QED
    BY <1>3, <2>1, <2>2, <2>3, <2>4, <2>5, <2>6, <2>7 DEF ClientContinues
<1>4. CASE ReplaceBuses
  <2>1. \A w \in Workers : /\ worker'[w].pc = worker[w].pc
                           /\ worker'[w].task = worker[w].task
                           /\ worker'[w].held = worker[w].held
    BY <1>4 DEF ReplaceBuses, WorkerState
  <2>2. \A c \in Clients : /\ client'[c].pc = client[c].pc
                           /\ client'[c].scenario = client[c].scenario
                           /\ client'[c].task = client[c].task
    BY <1>4 DEF ReplaceBuses, ClientState
  <2>3. RowsWired'
    BY <1>4 DEF ReplaceBuses
  <2>4. WorkersWired' /\ ClientsWired'
    <3>1. UNCHANGED scenarioOf
      BY <1>4 DEF ReplaceBuses
    <3>2. WorkersWired'
      BY <2>1, <3>1
    <3>3. ClientsWired'
      BY <2>2, <3>1
    <3>4. QED
      BY <3>2, <3>3
  <2>5. QED
    BY <1>4, <2>3, <2>4 DEF ReplaceBuses
<1>5. ASSUME NEW t \in Tasks, NEW r \in Attempts, Deliver(t, r) PROVE Wiring'
  <2>1. ASSUME NEW w \in Workers, Receive(w, t, r) PROVE Wiring'
    BY <2>1, DequeueFacts DEF Receive, Process
  <2>2. CASE ReceiveRevoked(t, r)
    BY <2>2, DequeueFacts DEF ReceiveRevoked, Store
  <2>3. QED
    BY <1>5, <2>1, <2>2 DEF Deliver
<1>6. ASSUME NEW w \in Workers, Progress(w) PROVE Wiring'
  BY <1>6 DEF Progress, Store
<1>7. ASSUME NEW w \in Workers, WorkerContinues(w) PROVE Wiring'
  <2>1. CASE PrerunRead(w)
    BY <2>1 DEF PrerunRead, Advance, Process
  <2>2. CASE PrerunWrite(w)
    BY <2>2 DEF PrerunWrite, Goto, Advance, Process, UpdateSolverStatus
  <2>3. CASE StoreStarted(w)
    BY <2>3 DEF StoreStarted, Goto, Advance, Process, Store
  <2>4. CASE SaveBegin(w)
    BY <2>4 DEF SaveBegin, Advance, Process
  <2>5. CASE SaveCommit(w)
    BY <2>5 DEF SaveCommit, Goto, Advance, Process, SaveHeadroom
  <2>6. CASE RunRefused(w)
    BY <2>6 DEF RunRefused, Goto, Advance, Process
  <2>7. CASE RetriesExhausted(w)
    BY <2>7 DEF RetriesExhausted, Goto, Advance, Process
  <2>8. CASE MarkDone(w)
    BY <2>8 DEF MarkDone, Goto, Advance, Process, Store
  <2>9. CASE StoreRetry(w)
    BY <2>9 DEF StoreRetry, Goto, Advance, Process, Store
  <2>10. CASE StoreFailure(w)
    BY <2>10 DEF StoreFailure, Goto, Advance, Process, Store
  <2>11. CASE PostrunRead(w)
    BY <2>11 DEF PostrunRead, Advance, Process
  <2>12. CASE PostrunWrite(w)
    BY <2>12 DEF PostrunWrite, Goto, Advance, Process, UpdateSolverStatus
  <2>13. CASE Acknowledge(w)
    BY <2>13 DEF Acknowledge, IdleWorker, Process
  <2>14. CASE PublishRetry(w)
    <3>1. worker[w].task \in Tasks /\ worker[w].retries + 1 \in Attempts
      BY <2>14 DEF PublishRetry, Goto, Advance, WorkerState, Attempts, MaxRetries
    <3>2. \A u \in Tasks, q \in Attempts :
            ready'[u][q] > 0 => ready[u][q] > 0 \/ u = worker[w].task
      BY <2>14, <3>1, EnqueueFacts DEF PublishRetry
    <3>3. QED
      BY <2>14, <3>2 DEF PublishRetry, Goto, Advance, Process
  <2>15. QED
    BY <1>7, <2>1, <2>2, <2>3, <2>4, <2>5, <2>6, <2>7, <2>8, <2>9, <2>10, <2>11, <2>12, <2>13, <2>14 DEF WorkerContinues
<1>8. ASSUME NEW t \in Tasks, NEW w \in Workers, RevokeRunning(t, w) PROVE Wiring'
  BY <1>8 DEF RevokeRunning, IdleWorker, Process, Store
<1>9. ASSUME NEW t \in Tasks, RevokeQueued(t) PROVE Wiring'
  BY <1>9 DEF RevokeQueued
<1>10. CASE Faulty
  <2>1. ASSUME NEW w \in Workers, WorkerLost(w) \/ VisibilityTimeout(w) PROVE Wiring'
    <3>1. worker[w].task \in Tasks /\ worker[w].retries \in Attempts
      BY <2>1 DEF WorkerLost, VisibilityTimeout, WorkerState
    <3>2. \A u \in Tasks, q \in Attempts :
            ready'[u][q] > 0 => ready[u][q] > 0 \/ u = worker[w].task
      BY <2>1, <3>1, EnqueueFacts DEF WorkerLost, VisibilityTimeout
    <3>3. MessagesWired'
      BY <2>1, <3>1, <3>2 DEF WorkerLost, VisibilityTimeout
    <3>4. CASE WorkerLost(w)
      BY <3>3, <3>4 DEF WorkerLost, IdleWorker, Process
    <3>5. CASE VisibilityTimeout(w)
      BY <3>3, <3>5 DEF VisibilityTimeout
    <3>6. QED
      BY <2>1, <3>4, <3>5
  <2>2. CASE WorkerRestart
    <3>0. \A t \in Tasks, r \in Attempts : ready'[t][r] > 0 =>
            ready[t][r] > 0 \/ \E w \in Workers : Holds(w, t, r)
      BY <2>2, RestartFacts
    <3>1. MessagesWired'
      BY <2>2, <3>0 DEF WorkerRestart, Holds
    <3>2. QED
      BY <2>2, <3>1 DEF WorkerRestart, IdleWorker, Process
  <2>3. ASSUME NEW w \in Workers, SignalHandlerFails(w) PROVE Wiring'
    BY <2>3 DEF SignalHandlerFails, Goto, Advance, Process
  <2>4. ASSUME NEW c \in Clients, RequestLost(c) PROVE Wiring'
    BY <2>4 DEF RequestLost, IdleClient, Request
  <2>5. QED
    BY <1>10, <2>1, <2>2, <2>3, <2>4 DEF Faulty
<1>11. QED
  BY <1>1, <1>2, <1>3, <1>4, <1>5, <1>6, <1>7, <1>8, <1>9, <1>10 DEF Next
-----------------------------------------------------------------------------
(* The theorems. *)

LEMMA InitTypeWiring == Init => TypeOK /\ Wiring
<1> SUFFICES ASSUME Init PROVE TypeOK /\ Wiring
  OBVIOUS
<1>1. TypeOK
  BY IdleWorkerType, IdleClientType DEF Init, TypeOK, Statuses, CeleryStates, Attempts, MaxRetries
<1>2. Wiring
  BY DEF Init, Wiring, MessagesWired, RevokesWired, SettledWired, WorkersWired, ClientsWired,
     RowsWired, Running, IdleWorker, IdleClient, Process, Request
<1>3. QED
  BY <1>1, <1>2

LEMMA TypeWiring == Spec => [](TypeOK /\ Wiring)
<1>1. TypeOK /\ Wiring /\ [Next]_vars => (TypeOK /\ Wiring)'
  BY TypeStep, WiringStep
<1>2. QED
  BY <1>1, InitTypeWiring, PTL DEF Spec

(* Every variable keeps its type, in particular no count of messages goes  *)
(* below zero and no handler reads a state under an id it does not have.   *)
THEOREM TypeCorrect == Spec => []TypeOK
BY TypeWiring, PTL

-----------------------------------------------------------------------------
(* SuccessWasSaved is not inductive: a SUCCESS on its way to the row, in   *)
(* the backend or in the memory of a process, must be backed as well.      *)
Saved(s) == s \in saved

RowsSaved == \A s \in Scenarios : status[s] = "SUCCESS" => Saved(s)
BackendSaved == \A t \in Tasks : backend[t] = "SUCCESS" => Saved(scenarioOf[t])
WorkersSaved == \A w \in Workers :
                  \/ worker[w].pc = "markDone"
                  \/ worker[w].pc \in {"prerunWrite", "postrunWrite"}
                       /\ worker[w].state = "SUCCESS"
                  => Saved(scenarioOf[worker[w].task])
ClientsSaved == \A c \in Clients :
                  client[c].pc = "commit" /\ client[c].state = "SUCCESS"
                    => Saved(client[c].scenario)

SavedInv == RowsSaved /\ BackendSaved /\ WorkersSaved /\ ClientsSaved

LEMMA SavedStep == TypeOK /\ Wiring /\ SavedInv /\ [Next]_vars => SavedInv'
<1> SUFFICES ASSUME TypeOK, Wiring, SavedInv, Next PROVE SavedInv'
  BY DEF vars, SavedInv, RowsSaved, BackendSaved, WorkersSaved, ClientsSaved, Saved
<1> USE ScenariosAssumption, TasksAssumption
    DEF TypeOK, db, results, broker, Wiring, WorkersWired, ClientsWired,
        RowsWired, Queued, Running, SavedInv, RowsSaved, BackendSaved, WorkersSaved,
        ClientsSaved, Saved
<1>1. ASSUME NEW s \in Scenarios, CreateScenario(s) PROVE SavedInv'
  BY <1>1 DEF CreateScenario
<1>2. ASSUME NEW c \in Clients, ClientRequests(c) PROVE SavedInv'
  <2>1. ASSUME NEW s \in Scenarios, CalculateRead(c, s) PROVE SavedInv'
    BY <2>1 DEF CalculateRead, Proceed, Request, Busy
  <2>2. ASSUME NEW s \in Scenarios, UploadBegin(c, s) PROVE SavedInv'
    BY <2>2 DEF UploadBegin, Request
  <2>3. ASSUME NEW s \in Scenarios, RemoveRead(c, s) PROVE SavedInv'
    BY <2>3 DEF RemoveRead, Proceed, Request, HasPendingTask
  <2>4. CASE ImportRevoke(c)
    BY <2>4 DEF ImportRevoke, Proceed, Request, HasPendingTask, LiveScenarios
  <2>5. QED
    BY <1>2, <2>1, <2>2, <2>3, <2>4 DEF ClientRequests
<1>3. ASSUME NEW c \in Clients, ClientContinues(c) PROVE SavedInv'
  <2>1. ASSUME NEW t \in Tasks, CalculateDelay(c, t) PROVE SavedInv'
    BY <2>1 DEF CalculateDelay, Proceed, Request
  <2>2. CASE CalculateReadState(c)
    BY <2>2 DEF CalculateReadState, Proceed, Request
  <2>3. CASE CalculateCommit(c)
    BY <2>3 DEF CalculateCommit, IdleClient, Request
  <2>4. CASE UploadCommit(c)
    BY <2>4 DEF UploadCommit, IdleClient, Request, SaveHeadroom
  <2>5. CASE RemoveCommit(c)
    BY <2>5 DEF RemoveCommit, IdleClient, Request, DeleteScenarios
  <2>6. CASE ImportCommit(c)
    BY <2>6 DEF ImportCommit, IdleClient, Request, DeleteScenarios
  <2>7. CASE ImportDelete(c)
    BY <2>7 DEF ImportDelete, ClientState
  <2>8. QED
    BY <1>3, <2>1, <2>2, <2>3, <2>4, <2>5, <2>6, <2>7 DEF ClientContinues
<1>4. CASE ReplaceBuses
  <2>1. \A w \in Workers : /\ worker'[w].pc = worker[w].pc
                           /\ worker'[w].task = worker[w].task
                           /\ worker'[w].state = worker[w].state
    BY <1>4 DEF ReplaceBuses, WorkerState
  <2>2. \A c \in Clients : /\ client'[c].pc = client[c].pc
                           /\ client'[c].scenario = client[c].scenario
                           /\ client'[c].state = client[c].state
    BY <1>4 DEF ReplaceBuses, ClientState
  <2>3. RowsSaved' /\ BackendSaved'
    BY <1>4 DEF ReplaceBuses
  <2>4. UNCHANGED <<saved, scenarioOf>>
    BY <1>4 DEF ReplaceBuses
  <2>5. WorkersSaved'
    BY <2>1, <2>4
  <2>6. ClientsSaved'
    BY <2>2, <2>4
  <2>7. QED
    BY <2>3, <2>5, <2>6
<1>5. ASSUME NEW t \in Tasks, NEW r \in Attempts, Deliver(t, r) PROVE SavedInv'
  <2>1. ASSUME NEW w \in Workers, Receive(w, t, r) PROVE SavedInv'
    BY <2>1 DEF Receive, Process
  <2>2. CASE ReceiveRevoked(t, r)
    BY <2>2 DEF ReceiveRevoked, Store
  <2>3. QED
    BY <1>5, <2>1, <2>2 DEF Deliver
<1>6. ASSUME NEW w \in Workers, Progress(w) PROVE SavedInv'
  BY <1>6 DEF Progress, Store
<1>7. ASSUME NEW w \in Workers, WorkerContinues(w) PROVE SavedInv'
  <2>1. CASE PrerunRead(w)
    BY <2>1 DEF PrerunRead, Advance, Process
  <2>2. CASE PrerunWrite(w)
    <3>1. RowsSaved'
      BY <2>2 DEF PrerunWrite, Goto, Advance, UpdateSolverStatus
    <3>2. BackendSaved' /\ WorkersSaved' /\ ClientsSaved'
      BY <2>2 DEF PrerunWrite, Goto, Advance, Process, UpdateSolverStatus
    <3>3. QED
      BY <3>1, <3>2
  <2>3. CASE StoreStarted(w)
    BY <2>3 DEF StoreStarted, Goto, Advance, Process, Store
  <2>4. CASE SaveBegin(w)
    BY <2>4 DEF SaveBegin, Advance, Process
  <2>5. CASE SaveCommit(w)
    BY <2>5 DEF SaveCommit, Goto, Advance, Process, SaveHeadroom
  <2>6. CASE RunRefused(w)
    BY <2>6 DEF RunRefused, Goto, Advance, Process
  <2>7. CASE PublishRetry(w)
    BY <2>7 DEF PublishRetry, Goto, Advance, Process
  <2>8. CASE RetriesExhausted(w)
    BY <2>8 DEF RetriesExhausted, Goto, Advance, Process
  <2>9. CASE MarkDone(w)
    BY <2>9 DEF MarkDone, Goto, Advance, Process, Store
  <2>10. CASE StoreRetry(w)
    BY <2>10 DEF StoreRetry, Goto, Advance, Process, Store
  <2>11. CASE StoreFailure(w)
    BY <2>11 DEF StoreFailure, Goto, Advance, Process, Store
  <2>12. CASE PostrunRead(w)
    BY <2>12 DEF PostrunRead, Advance, Process
  <2>13. CASE PostrunWrite(w)
    <3>1. RowsSaved'
      BY <2>13 DEF PostrunWrite, Goto, Advance, UpdateSolverStatus
    <3>2. BackendSaved' /\ WorkersSaved' /\ ClientsSaved'
      BY <2>13 DEF PostrunWrite, Goto, Advance, Process, UpdateSolverStatus
    <3>3. QED
      BY <3>1, <3>2
  <2>14. CASE Acknowledge(w)
    BY <2>14 DEF Acknowledge, IdleWorker, Process
  <2>15. QED
    BY <1>7, <2>1, <2>2, <2>3, <2>4, <2>5, <2>6, <2>7, <2>8, <2>9, <2>10, <2>11, <2>12, <2>13, <2>14 DEF WorkerContinues
<1>8. ASSUME NEW t \in Tasks, NEW w \in Workers, RevokeRunning(t, w) PROVE SavedInv'
  BY <1>8 DEF RevokeRunning, IdleWorker, Process, Store
<1>9. ASSUME NEW t \in Tasks, RevokeQueued(t) PROVE SavedInv'
  BY <1>9 DEF RevokeQueued
<1>10. CASE Faulty
  <2>1. ASSUME NEW w \in Workers, WorkerLost(w) PROVE SavedInv'
    BY <2>1 DEF WorkerLost, IdleWorker, Process
  <2>2. CASE WorkerRestart
    BY <2>2 DEF WorkerRestart, IdleWorker, Process
  <2>3. ASSUME NEW w \in Workers, VisibilityTimeout(w) PROVE SavedInv'
    BY <2>3 DEF VisibilityTimeout
  <2>4. ASSUME NEW w \in Workers, SignalHandlerFails(w) PROVE SavedInv'
    BY <2>4 DEF SignalHandlerFails, Goto, Advance, Process
  <2>5. ASSUME NEW c \in Clients, RequestLost(c) PROVE SavedInv'
    BY <2>5 DEF RequestLost, IdleClient, Request
  <2>6. QED
    BY <1>10, <2>1, <2>2, <2>3, <2>4, <2>5 DEF Faulty
<1>11. QED
  BY <1>1, <1>2, <1>3, <1>4, <1>5, <1>6, <1>7, <1>8, <1>9, <1>10 DEF Next

LEMMA InitSaved == Init => SavedInv
BY DEF Init, SavedInv, RowsSaved, BackendSaved, WorkersSaved, ClientsSaved,
       IdleWorker, IdleClient, Process, Request

(* A row only says SUCCESS once a headroom was committed for its scenario, *)
(* whatever is retried, redelivered, revoked, lost or requested meanwhile. *)
THEOREM SuccessWasSavedAlways == Spec => []SuccessWasSaved
<1>1. TypeOK /\ Wiring /\ SavedInv /\ [Next]_vars => SavedInv'
  BY SavedStep
<1>2. SavedInv => SuccessWasSaved
  BY DEF SavedInv, RowsSaved, SuccessWasSaved, Saved
<1>3. QED
  BY <1>1, <1>2, InitSaved, TypeWiring, PTL DEF Spec

-----------------------------------------------------------------------------
(* NoTaskLost is not inductive either: an execution that is about to       *)
(* acknowledge must have settled its task or left the message of the next  *)
(* attempt behind.                                                         *)
Reporting == {"storeRetry", "postrunRead", "postrunWrite", "ack"}

NoneLostByAck ==
  \A w \in Workers : worker[w].pc \in Reporting =>
    \/ worker[w].task \in settled
    \/ worker[w].retries = 0 /\ Outstanding(worker[w].task, 1)

LostInv == NoTaskLost /\ NoneLostByAck

(* What is outstanding stays outstanding, is replaced by the message of the *)
(* next attempt, or is settled.                                             *)
Kept(t) ==
  \A r \in Attempts : Outstanding(t, r) =>
    t \in settled' \/ \E q \in Attempts : q >= r /\ Outstanding(t, q)'

LEMMA LostRules ==
  ASSUME LostInv, settled \subseteq settled', \A t \in Tasks : Kept(t), WorkersWired,
         \A t \in Tasks : scenarioOf'[t] # NoScenario =>
           scenarioOf[t] # NoScenario \/ Outstanding(t, 0)',
         \A w \in Workers : worker'[w].pc \in Reporting =>
           \/ /\ worker[w].pc \in Reporting
              /\ worker'[w].task = worker[w].task
              /\ worker'[w].retries = worker[w].retries
           \/ worker'[w].task \in settled'
           \/ worker'[w].retries = 0 /\ Outstanding(worker[w].task, 1)'
  PROVE  LostInv'
<1>1. 0 \in Attempts /\ 1 \in Attempts /\ \A q \in Attempts : q >= 1 => q = 1
  BY DEF Attempts, MaxRetries
<1>2. NoTaskLost'
  BY <1>1 DEF LostInv, NoTaskLost, Kept
<1>3. ASSUME NEW w \in Workers, worker'[w].pc \in Reporting, worker[w].pc \in Reporting,
             worker'[w].task = worker[w].task, worker'[w].retries = worker[w].retries
      PROVE  \/ worker'[w].task \in settled'
             \/ worker'[w].retries = 0 /\ Outstanding(worker[w].task, 1)'
  <2>1. worker[w].task \in Tasks
    BY <1>3 DEF WorkersWired, Running, Queued, Reporting
  <2>2. \/ worker[w].task \in settled
        \/ worker[w].retries = 0 /\ Outstanding(worker[w].task, 1)
    BY <1>3 DEF LostInv, NoneLostByAck
  <2>3. ASSUME NEW t \in Tasks, Outstanding(t, 1) PROVE t \in settled' \/ Outstanding(t, 1)'
    BY <1>1, <2>3 DEF Kept
  <2>4. ASSUME NEW t \in Tasks, t = worker[w].task, Outstanding(t, 1)'
        PROVE  Outstanding(worker[w].task, 1)'
    BY <2>4, <1>3 DEF Outstanding
  <2>5. QED
    BY <1>3, <2>1, <2>2, <2>3, <2>4
<1>4. NoneLostByAck'
  BY <1>3 DEF NoneLostByAck
<1>5. QED
  BY <1>2, <1>4 DEF LostInv

(* A step that neither moves a process nor takes or adds a message. *)
LEMMA LostQuiet ==
  ASSUME LostInv, UNCHANGED <<worker, ready, scenarioOf>>, settled \subseteq settled'
  PROVE  LostInv'
BY DEF LostInv, NoTaskLost, NoneLostByAck, Outstanding, Holds

(* A step of one process that leaves the queue alone. *)
LEMMA LostAdvance ==
  ASSUME TypeOK, WorkersWired, LostInv, UNCHANGED <<ready, scenarioOf>>, settled \subseteq settled',
         NEW w \in Workers, NEW from, NEW to, NEW st, NEW seen, NEW linked,
         Advance(w, from, to, st, seen, linked),
         to \in Reporting => from \in Reporting \/ worker[w].task \in settled'
  PROVE  LostInv'
<1>1. \A v \in Workers : /\ worker'[v].task = worker[v].task
                         /\ worker'[v].retries = worker[v].retries
                         /\ v # w => worker'[v].pc = worker[v].pc
  BY DEF Advance, Process, TypeOK
<1>2. worker[w].pc = from /\ worker'[w].pc = to
  BY DEF Advance, Process, TypeOK
<1>3. \A t \in Tasks, r \in Attempts : Outstanding(t, r) => Outstanding(t, r)'
  <2>1. ASSUME NEW t, NEW r, NEW v \in Workers, Holds(v, t, r) PROVE Holds(v, t, r)'
    <3>1. worker \in [Workers -> WorkerState]
      BY DEF TypeOK
    <3>2. CASE v = w
      BY <2>1, <3>1, <3>2 DEF Holds, Advance, Process
    <3>3. CASE v # w
      BY <2>1, <3>1, <3>3 DEF Holds, Advance
    <3>4. QED
      BY <3>2, <3>3
  <2>2. QED
    BY <2>1 DEF Outstanding
<1>4. \A t \in Tasks : Kept(t)
  BY <1>3 DEF Kept, Attempts, MaxRetries
<1>5. \A v \in Workers : worker'[v].pc \in Reporting =>
        (worker[v].pc \in Reporting \/ worker'[v].task \in settled')
  <2>1. ASSUME NEW v \in Workers, worker'[v].pc \in Reporting, v # w
        PROVE  worker[v].pc \in Reporting
    BY <1>1, <2>1
  <2>2. ASSUME worker'[w].pc \in Reporting
        PROVE  worker[w].pc \in Reporting \/ worker'[w].task \in settled'
    <3>1. worker'[w].task = worker[w].task
      BY <1>1
    <3>2. QED
      BY <1>2, <2>2, <3>1
  <2>3. QED
    BY <2>1, <2>2
<1>6. \A t \in Tasks : scenarioOf'[t] # NoScenario => scenarioOf[t] # NoScenario
  OBVIOUS
<1>7. \A v \in Workers : worker'[v].task = worker[v].task /\ worker'[v].retries = worker[v].retries
  BY <1>1
<1>8. QED
  BY <1>4, <1>5, <1>6, <1>7, LostRules

LEMMA LostStep == TypeOK /\ Wiring /\ LostInv /\ [Next]_vars => LostInv'
<1> SUFFICES ASSUME TypeOK, Wiring, LostInv, Next PROVE LostInv'
  BY DEF vars, LostInv, NoTaskLost, NoneLostByAck, Outstanding, Holds
<1> USE DEF db, results, broker
<1>w. WorkersWired
  BY DEF Wiring
<1>r. 0 \in Attempts /\ 1 \in Attempts /\ \A q \in Attempts : q >= q /\ (q # 0 => q = 1)
  BY DEF Attempts, MaxRetries
<1>1. ASSUME NEW s \in Scenarios, CreateScenario(s) PROVE LostInv'
  BY <1>1, LostQuiet DEF CreateScenario
<1>2. ASSUME NEW c \in Clients, ClientRequests(c) PROVE LostInv'
  BY <1>2, LostQuiet DEF ClientRequests, CalculateRead, UploadBegin, RemoveRead, ImportRevoke
<1>3. ASSUME NEW c \in Clients, ClientContinues(c) PROVE LostInv'
  <2>1. ASSUME NEW t \in Tasks, CalculateDelay(c, t) PROVE LostInv'
    <3>1. /\ ready'[t][0] > 0
          /\ \A u \in Tasks, q \in Attempts : ready[u][q] > 0 => ready'[u][q] > 0
      BY <2>1, <1>r, EnqueueFacts DEF CalculateDelay
    <3>2. UNCHANGED <<worker, settled>>
      BY <2>1 DEF CalculateDelay
    <3>3. \A u \in Tasks, q \in Attempts : Outstanding(u, q) => Outstanding(u, q)'
      BY <3>1, <3>2 DEF Outstanding, Holds
    <3>4. \A u \in Tasks : Kept(u)
      BY <1>r, <3>3 DEF Kept
    <3>5. \A u \in Tasks : scenarioOf'[u] # NoScenario =>
             scenarioOf[u] # NoScenario \/ Outstanding(u, 0)'
      BY <2>1, <3>1 DEF CalculateDelay, TypeOK, Outstanding
    <3>6. QED
      BY <1>w, <3>2, <3>4, <3>5, LostRules
  <2>2. CASE CalculateReadState(c) \/ CalculateCommit(c) \/ UploadCommit(c)
               \/ RemoveCommit(c) \/ ImportDelete(c) \/ ImportCommit(c)
    BY <2>2, LostQuiet DEF CalculateReadState, CalculateCommit, UploadCommit, RemoveCommit,
       ImportDelete, ImportCommit
  <2>3. QED
    BY <1>3, <2>1, <2>2 DEF ClientContinues
<1>4. CASE ReplaceBuses
  <2>1. \A w \in Workers : /\ worker'[w].pc = worker[w].pc
                           /\ worker'[w].task = worker[w].task
                           /\ worker'[w].held = worker[w].held
                           /\ worker'[w].retries = worker[w].retries
    BY <1>4 DEF ReplaceBuses, TypeOK, WorkerState
  <2>2. UNCHANGED <<ready, scenarioOf, settled>>
    BY <1>4 DEF ReplaceBuses
  <2>3. \A t, r : Outstanding(t, r) => Outstanding(t, r)'
    BY <2>1, <2>2 DEF Outstanding, Holds
  <2>4. \A t \in Tasks : Kept(t)
    BY <1>r, <2>3 DEF Kept
  <2>5. QED
    BY <1>w, <2>1, <2>2, <2>4, LostRules
<1>5. ASSUME NEW t \in Tasks, NEW r \in Attempts, Deliver(t, r) PROVE LostInv'
  <2>1. ASSUME NEW w \in Workers, Receive(w, t, r) PROVE LostInv'
    <3>1. \A u \in Tasks, q \in Attempts : (u # t \/ q # r) => ready'[u][q] = ready[u][q]
      BY <2>1, DequeueFacts DEF Receive
    <3>2. /\ Holds(w, t, r)'
          /\ worker'[w].pc \notin Reporting
          /\ ~worker[w].held
          /\ \A v \in Workers : v # w => worker'[v] = worker[v]
      BY <2>1, <1>w DEF Receive, Process, Holds, TypeOK, Reporting, WorkersWired, Running
    <3>3. \A u \in Tasks, q \in Attempts : Outstanding(u, q) => Outstanding(u, q)'
      BY <3>1, <3>2 DEF Outstanding, Holds
    <3>4. \A u \in Tasks : Kept(u)
      BY <1>r, <3>3 DEF Kept
    <3>5. UNCHANGED <<scenarioOf, settled>>
      BY <2>1 DEF Receive
    <3>6. QED
      BY <1>w, <3>2, <3>4, <3>5, LostRules
  <2>2. CASE ReceiveRevoked(t, r)
    <3>1. \A u \in Tasks, q \in Attempts : (u # t \/ q # r) => ready'[u][q] = ready[u][q]
      BY <2>2, DequeueFacts DEF ReceiveRevoked
    <3>2. t \in settled' /\ settled \subseteq settled' /\ UNCHANGED <<worker, scenarioOf>>
      BY <2>2 DEF ReceiveRevoked, Store, ReadyStates
    <3>3. \A u \in Tasks, q \in Attempts : u # t /\ Outstanding(u, q) => Outstanding(u, q)'
      BY <3>1, <3>2 DEF Outstanding, Holds
    <3>4. \A u \in Tasks : Kept(u)
      BY <1>r, <3>2, <3>3 DEF Kept
    <3>5. QED
      BY <1>w, <3>2, <3>4, LostRules
  <2>3. QED
    BY <1>5, <2>1, <2>2 DEF Deliver
<1>6. ASSUME NEW w \in Workers, Progress(w) PROVE LostInv'
  BY <1>6, LostQuiet DEF Progress, Store
<1>7. ASSUME NEW w \in Workers, WorkerContinues(w) PROVE LostInv'
  <2>1. CASE PrerunRead(w) \/ PostrunRead(w) \/ SaveBegin(w)
    <3>1. UNCHANGED <<ready, scenarioOf, settled>>
      BY <2>1 DEF PrerunRead, PostrunRead, SaveBegin
    <3>2. QED
      BY <2>1, <3>1, <1>w, LostAdvance DEF PrerunRead, PostrunRead, SaveBegin, Reporting
  <2>2. CASE PrerunWrite(w) \/ PostrunWrite(w) \/ SaveCommit(w) \/ RunRefused(w)
               \/ RetriesExhausted(w)
    <3>1. UNCHANGED <<ready, scenarioOf, settled>>
      BY <2>2 DEF PrerunWrite, PostrunWrite, SaveCommit, RunRefused, RetriesExhausted
    <3>2. QED
      BY <2>2, <3>1, <1>w, LostAdvance
      DEF PrerunWrite, PostrunWrite, SaveCommit, RunRefused, RetriesExhausted, Goto, Reporting
  <2>3. CASE StoreStarted(w) \/ MarkDone(w) \/ StoreRetry(w) \/ StoreFailure(w)
    <3>1. /\ UNCHANGED <<ready, scenarioOf>>
          /\ settled \subseteq settled'
      BY <2>3 DEF StoreStarted, MarkDone, StoreRetry, StoreFailure, Store
    <3>2. MarkDone(w) \/ StoreFailure(w) => worker[w].task \in settled'
      BY DEF MarkDone, StoreFailure, Store, ReadyStates
    <3>3. QED
      BY <2>3, <3>1, <3>2, <1>w, LostAdvance
      DEF StoreStarted, MarkDone, StoreRetry, StoreFailure, Goto, Reporting
  <2>4. CASE PublishRetry(w)
    <3>1. /\ worker[w].pc \in {"run", "saving"}
          /\ worker[w].retries = 0
          /\ worker[w].task \in Tasks
          /\ Enqueue(worker[w].task, 1)
      BY <2>4, <1>w DEF PublishRetry, Goto, Advance, TypeOK, WorkerState, Attempts, MaxRetries,
         WorkersWired, Running, Queued
    <3>2. /\ ready'[worker[w].task][1] > 0
          /\ \A u \in Tasks, q \in Attempts : ready[u][q] > 0 => ready'[u][q] > 0
      BY <3>1, <1>r, EnqueueFacts
    <3>3. \A v \in Workers : /\ worker'[v].task = worker[v].task
                             /\ worker'[v].retries = worker[v].retries
                             /\ v # w => worker'[v].pc = worker[v].pc
      BY <2>4 DEF PublishRetry, Goto, Advance, Process, TypeOK
    <3>4. \A u \in Tasks, q \in Attempts : Outstanding(u, q) => Outstanding(u, q)'
      <4>1. ASSUME NEW u, NEW q, NEW v \in Workers, Holds(v, u, q) PROVE Holds(v, u, q)'
        <5>1. worker \in [Workers -> WorkerState]
          BY DEF TypeOK
        <5>2. CASE v = w
          BY <2>4, <4>1, <5>1, <5>2 DEF Holds, PublishRetry, Goto, Advance, Process
        <5>3. CASE v # w
          BY <2>4, <4>1, <5>1, <5>3 DEF Holds, PublishRetry, Goto, Advance
        <5>4. QED
          BY <5>2, <5>3
      <4>2. QED
        BY <3>2, <4>1 DEF Outstanding
    <3>5. \A u \in Tasks : Kept(u)
      BY <1>r, <3>4 DEF Kept
    <3>6. Outstanding(worker[w].task, 1)' /\ worker'[w].retries = 0
      <4>1. worker'[w].task = worker[w].task /\ worker'[w].retries = worker[w].retries
        BY <3>3
      <4>2. QED
        BY <3>1, <3>2, <4>1 DEF Outstanding
    <3>7. UNCHANGED <<scenarioOf, settled>>
      BY <2>4 DEF PublishRetry
    <3>8. QED
      BY <1>w, <3>3, <3>5, <3>6, <3>7, LostRules
  <2>5. CASE Acknowledge(w)
    <3>1. /\ worker[w].pc = "ack"
          /\ worker'[w].pc = "idle"
          /\ \A v \in Workers : v # w => worker'[v] = worker[v]
          /\ UNCHANGED <<ready, scenarioOf, settled>>
      BY <2>5 DEF Acknowledge, IdleWorker, Process, TypeOK
    <3>2. \/ worker[w].task \in settled
          \/ worker[w].retries = 0 /\ Outstanding(worker[w].task, 1)
      BY <3>1 DEF LostInv, NoneLostByAck, Reporting
    <3>3. \A u, q : Outstanding(u, q) => Outstanding(u, q)' \/ Holds(w, u, q)
      BY <3>1 DEF Outstanding, Holds
    <3>4. \A u \in Tasks : Kept(u)
      <4>1. SUFFICES ASSUME NEW u \in Tasks, NEW q \in Attempts, Outstanding(u, q),
                            ~Outstanding(u, q)', u \notin settled
                     PROVE  \E p \in Attempts : p >= q /\ Outstanding(u, p)'
        BY <1>r, <3>1 DEF Kept
      <4>2. Holds(w, u, q)
        BY <4>1, <3>3
      <4>3. q = 0 /\ worker[w].retries = 0 /\ Outstanding(u, 1)
        BY <4>1, <4>2, <3>2 DEF Holds
      <4>4. Outstanding(u, 1)'
        BY <4>3, <3>3 DEF Holds
      <4>5. QED
        BY <4>3, <4>4, <1>r, 1 >= 0
    <3>5. QED
      BY <1>w, <3>1, <3>4, LostRules DEF Reporting
  <2>6. QED
    BY <1>7, <2>1, <2>2, <2>3, <2>4, <2>5 DEF WorkerContinues
<1>8. ASSUME NEW t \in Tasks, NEW w \in Workers, RevokeRunning(t, w) PROVE LostInv'
  <2>1. /\ worker[w].task = t
        /\ worker'[w].pc = "idle"
        /\ \A v \in Workers : v # w => worker'[v] = worker[v]
        /\ t \in settled'
        /\ settled \subseteq settled'
        /\ UNCHANGED <<ready, scenarioOf>>
    BY <1>8 DEF RevokeRunning, Executing, IdleWorker, Process, TypeOK, Store, ReadyStates
  <2>2. \A u, q : u # t /\ Outstanding(u, q) => Outstanding(u, q)'
    BY <2>1 DEF Outstanding, Holds
  <2>3. \A u \in Tasks : Kept(u)
    BY <1>r, <2>1, <2>2 DEF Kept
  <2>4. QED
    BY <1>w, <2>1, <2>3, LostRules DEF Reporting
<1>9. ASSUME NEW t \in Tasks, RevokeQueued(t) PROVE LostInv'
  BY <1>9, LostQuiet DEF RevokeQueued
<1>10. CASE Faulty
  <2>1. ASSUME NEW w \in Workers, WorkerLost(w) \/ VisibilityTimeout(w) PROVE LostInv'
    <3>1. worker[w].task \in Tasks /\ worker[w].retries \in Attempts
      BY <2>1, <1>w DEF WorkerLost, VisibilityTimeout, WorkersWired, Running, Queued, TypeOK,
         WorkerState
    <3>2. /\ worker[w].held => ready'[worker[w].task][worker[w].retries] > 0
          /\ \A u \in Tasks, q \in Attempts : ready[u][q] > 0 => ready'[u][q] > 0
      BY <2>1, <3>1, EnqueueFacts DEF WorkerLost, VisibilityTimeout
    <3>3. /\ \A v \in Workers : v # w => worker'[v] = worker[v]
          /\ \/ worker'[w].pc = "idle"
             \/ /\ worker'[w].pc = worker[w].pc
                /\ worker'[w].task = worker[w].task
                /\ worker'[w].retries = worker[w].retries
          /\ UNCHANGED <<scenarioOf, settled>>
      BY <2>1 DEF WorkerLost, VisibilityTimeout, IdleWorker, Process, TypeOK, WorkerState
    <3>4. \A u \in Tasks, q \in Attempts : Outstanding(u, q) => Outstanding(u, q)'
      BY <3>2, <3>3 DEF Outstanding, Holds
    <3>5. \A u \in Tasks : Kept(u)
      BY <1>r, <3>4 DEF Kept
    <3>6. QED
      BY <1>w, <3>3, <3>5, LostRules DEF Reporting
  <2>2. CASE WorkerRestart
    <3>1. \A u \in Tasks, q \in Attempts :
            ready[u][q] > 0 \/ (\E w \in Workers : Holds(w, u, q)) => ready'[u][q] > 0
      BY <2>2, RestartFacts
    <3>2. /\ \A w \in Workers : worker'[w].pc = "idle"
          /\ UNCHANGED <<scenarioOf, settled>>
      BY <2>2 DEF WorkerRestart, IdleWorker, Process
    <3>3. \A u \in Tasks, q \in Attempts : Outstanding(u, q) => Outstanding(u, q)'
      BY <3>1 DEF Outstanding
    <3>4. \A u \in Tasks : Kept(u)
      BY <1>r, <3>3 DEF Kept
    <3>5. QED
      BY <1>w, <3>2, <3>4, LostRules DEF Reporting
  <2>3. ASSUME NEW w \in Workers, SignalHandlerFails(w) PROVE LostInv'
    <3>1. UNCHANGED <<ready, scenarioOf, settled>>
      BY <2>3 DEF SignalHandlerFails
    <3>2. QED
      BY <2>3, <3>1, <1>w, LostAdvance DEF SignalHandlerFails, Goto, Reporting
  <2>4. ASSUME NEW c \in Clients, RequestLost(c) PROVE LostInv'
    BY <2>4, LostQuiet DEF RequestLost
  <2>5. QED
    BY <1>10, <2>1, <2>2, <2>3, <2>4 DEF Faulty
<1>11. QED
  BY <1>1, <1>2, <1>3, <1>4, <1>5, <1>6, <1>7, <1>8, <1>9, <1>10 DEF Next

LEMMA InitLost == Init => LostInv
BY DEF Init, LostInv, NoTaskLost, NoneLostByAck, Reporting, IdleWorker, Process

(* A queued calculation is not lost before it is settled. *)
THEOREM NoTaskLostAlways == Spec => []NoTaskLost
<1>1. TypeOK /\ Wiring /\ LostInv /\ [Next]_vars => LostInv'
  BY LostStep
<1>2. LostInv => NoTaskLost
  BY DEF LostInv
<1>3. QED
  BY <1>1, <1>2, InitLost, TypeWiring, PTL DEF Spec
=============================================================================

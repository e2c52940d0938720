---------------------- MODULE CalculationHistoryProofs ----------------------
(***************************************************************************)
(* What the calculation service promises, for any number of scenarios,     *)
(* tasks, pool processes, requests and faults: it implements the safety of *)
(* the task ledger, and the clauses of CalculationHistory that say what    *)
(* holds of a scenario until something interferes with it.                 *)
(***************************************************************************)
EXTENDS CalculationHistory, ScenarioCalculationProofs

(* What a step may do to the ledger: nothing, accept a task that is new,   *)
(* keep a scenario's results, or store a state of a task it has accepted,  *)
(* SUCCESS only of one whose scenario has results.                         *)
ledger == <<scenarioOf, backend, settled, saved>>

LeavesLedger == UNCHANGED ledger

AcceptsTask ==
  /\ UNCHANGED <<backend, settled, saved>>
  /\ \E t \in Tasks, s \in Scenarios :
       /\ scenarioOf[t] = NoScenario
       /\ scenarioOf' = [scenarioOf EXCEPT ![t] = s]

KeepsResults ==
  /\ UNCHANGED <<scenarioOf, backend, settled>>
  /\ \E s \in Scenarios : saved' = saved \cup {s}

StoresState ==
  /\ UNCHANGED <<scenarioOf, saved>>
  /\ \E t \in Tasks, st \in CeleryStates :
       /\ Queued(t)
       /\ Store(t, st)
       /\ st = "SUCCESS" => scenarioOf[t] \in saved

LedgerKind == LeavesLedger \/ AcceptsTask \/ KeepsResults \/ StoresState

LEMMA ClientKind ==
  ASSUME TypeOK, Wiring, NEW c \in Clients, ClientRequests(c) \/ ClientContinues(c)
  PROVE  LedgerKind
<1> USE DEF db, results, broker, ledger
<1>1. ASSUME ClientRequests(c) PROVE LeavesLedger
  BY <1>1 DEF ClientRequests, CalculateRead, UploadBegin, RemoveRead, ImportRevoke, LeavesLedger
<1>2. ASSUME NEW t \in Tasks, CalculateDelay(c, t) PROVE AcceptsTask
  <2>1. client[c].scenario \in Scenarios
    BY <1>2 DEF CalculateDelay, Wiring, ClientsWired
  <2> QED BY <1>2, <2>1 DEF CalculateDelay, AcceptsTask
<1>3. CASE CalculateReadState(c) \/ CalculateCommit(c) \/ ImportDelete(c)
  BY <1>3 DEF CalculateReadState, CalculateCommit, ImportDelete, LedgerKind, LeavesLedger
<1>4. CASE RemoveCommit(c) \/ ImportCommit(c)
  BY <1>4 DEF RemoveCommit, ImportCommit, DeleteScenarios, LedgerKind, LeavesLedger
<1>5. CASE UploadCommit(c)
  <2>1. client[c].scenario \in Scenarios
    BY <1>5 DEF UploadCommit, Wiring, ClientsWired
  <2> QED BY <1>5, <2>1 DEF UploadCommit, SaveHeadroom, KeepsResults, LedgerKind, LeavesLedger
<1> QED BY <1>1, <1>2, <1>3, <1>4, <1>5 DEF ClientContinues, LedgerKind

LEMMA WorkerKind ==
  ASSUME TypeOK, Wiring, SavedInv, NEW w \in Workers, Progress(w) \/ WorkerContinues(w)
  PROVE  LedgerKind
<1> USE DEF db, results, broker, ledger
<1>1. worker[w].pc # "idle" => Queued(worker[w].task)
  BY DEF Wiring, WorkersWired, Running
<1>2. {"STARTED", "PROGRESS", "SUCCESS", "RETRY", "FAILURE"} \subseteq CeleryStates
  BY DEF CeleryStates, ReadyStates
<1>3. ASSUME NEW st \in CeleryStates, Queued(worker[w].task), Store(worker[w].task, st),
             UNCHANGED <<scenarioOf, saved>>,
             st = "SUCCESS" => scenarioOf[worker[w].task] \in saved
      PROVE  LedgerKind
  BY <1>3 DEF Queued, StoresState, LedgerKind
<1>4. CASE Progress(w)
  BY <1>1, <1>2, <1>3, <1>4 DEF Progress
<1>5. CASE StoreStarted(w) \/ StoreRetry(w) \/ StoreFailure(w)
  BY <1>1, <1>2, <1>3, <1>5 DEF StoreStarted, StoreRetry, StoreFailure, Goto, Advance
<1>6. CASE MarkDone(w)
  <2>1. worker[w].pc = "markDone"
    BY <1>6 DEF MarkDone, Goto, Advance
  <2>2. scenarioOf[worker[w].task] \in saved
    BY <2>1 DEF SavedInv, WorkersSaved, Saved
  <2> QED BY <1>1, <1>2, <1>3, <1>6, <2>1, <2>2 DEF MarkDone
<1>7. CASE PrerunRead(w) \/ PrerunWrite(w) \/ PostrunRead(w) \/ PostrunWrite(w) \/ Acknowledge(w)
  BY <1>7 DEF PrerunRead, PrerunWrite, PostrunRead, PostrunWrite, UpdateSolverStatus,
     Acknowledge, LedgerKind, LeavesLedger
<1>8. CASE SaveBegin(w) \/ RunRefused(w) \/ PublishRetry(w) \/ RetriesExhausted(w)
  BY <1>8 DEF SaveBegin, RunRefused, PublishRetry, RetriesExhausted, LedgerKind, LeavesLedger
<1>9. CASE SaveCommit(w)
  <2>1. scenarioOf[worker[w].task] \in Scenarios
    BY <1>1, <1>9 DEF SaveCommit, Goto, Advance, Queued
  <2> QED BY <1>9, <2>1 DEF SaveCommit, SaveHeadroom, KeepsResults, LedgerKind
<1> QED BY <1>4, <1>5, <1>6, <1>7, <1>8, <1>9 DEF WorkerContinues

LEMMA FaultKind == Faulty => LeavesLedger
<1> SUFFICES ASSUME Faulty PROVE LeavesLedger OBVIOUS
<1> USE DEF db, results, broker, ledger, LeavesLedger
<1>1. ASSUME NEW w \in Workers, WorkerLost(w) \/ VisibilityTimeout(w) \/ SignalHandlerFails(w)
      PROVE  LeavesLedger
  BY <1>1 DEF WorkerLost, VisibilityTimeout, SignalHandlerFails
<1>2. CASE WorkerRestart
  BY <1>2 DEF WorkerRestart
<1>3. ASSUME NEW c \in Clients, RequestLost(c) PROVE LeavesLedger
  BY <1>3 DEF RequestLost
<1> QED BY <1>1, <1>2, <1>3 DEF Faulty

LEMMA StepKind == TypeOK /\ Wiring /\ SavedInv /\ [Next]_vars => LedgerKind
<1> SUFFICES ASSUME TypeOK, Wiring, SavedInv, [Next]_vars PROVE LedgerKind OBVIOUS
<1> USE DEF db, results, broker, ledger
<1>1. CASE UNCHANGED vars
  BY <1>1 DEF vars, LedgerKind, LeavesLedger
<1>2. ASSUME NEW s \in Scenarios, CreateScenario(s) PROVE LedgerKind
  BY <1>2 DEF CreateScenario, LedgerKind, LeavesLedger
<1>3. CASE ReplaceBuses
  BY <1>3 DEF ReplaceBuses, LedgerKind, LeavesLedger
<1>s. "REVOKED" \in CeleryStates
  BY DEF CeleryStates, ReadyStates
<1>4. ASSUME NEW t \in Tasks, NEW r \in Attempts, Deliver(t, r) PROVE LedgerKind
  <2>1. ASSUME NEW w \in Workers, Receive(w, t, r) PROVE LedgerKind
    BY <2>1 DEF Receive, LedgerKind, LeavesLedger
  <2>2. CASE ReceiveRevoked(t, r)
    BY <1>s, <2>2 DEF ReceiveRevoked, Wiring, MessagesWired, StoresState, LedgerKind
  <2> QED BY <1>4, <2>1, <2>2 DEF Deliver
<1>5. ASSUME NEW t \in Tasks, NEW w \in Workers, RevokeRunning(t, w) PROVE LedgerKind
  BY <1>s, <1>5 DEF RevokeRunning, Wiring, RevokesWired, StoresState, LedgerKind
<1>6. ASSUME NEW t \in Tasks, RevokeQueued(t) PROVE LedgerKind
  BY <1>6 DEF RevokeQueued, LedgerKind, LeavesLedger
<1>7. CASE Faulty
  BY <1>7, FaultKind DEF LedgerKind
<1> QED BY <1>1, <1>2, <1>3, <1>4, <1>5, <1>6, <1>7, ClientKind, WorkerKind DEF Next

-----------------------------------------------------------------------------
(* The entries of the ledger, one by one. *)
LEMMA EntryOf ==
  ASSUME NEW t
  PROVE  /\ scenarioOf[t] = NoScenario => LedgerEntry(t) = "new"
         /\ scenarioOf[t] # NoScenario /\ backend[t] = "SUCCESS" => LedgerEntry(t) = "succeeded"
         /\ scenarioOf[t] # NoScenario /\ backend[t] # "SUCCESS" /\ t \in settled
              => LedgerEntry(t) = "failed"
         /\ scenarioOf[t] # NoScenario /\ backend[t] # "SUCCESS" /\ t \notin settled
              => LedgerEntry(t) = "owed"
BY DEF LedgerEntry

LEMMA EntryAfter ==
  ASSUME NEW t
  PROVE  /\ scenarioOf'[t] = NoScenario => LedgerEntry(t)' = "new"
         /\ scenarioOf'[t] # NoScenario /\ backend'[t] = "SUCCESS" => LedgerEntry(t)' = "succeeded"
         /\ scenarioOf'[t] # NoScenario /\ backend'[t] # "SUCCESS" /\ t \in settled'
              => LedgerEntry(t)' = "failed"
         /\ scenarioOf'[t] # NoScenario /\ backend'[t] # "SUCCESS" /\ t \notin settled'
              => LedgerEntry(t)' = "owed"
BY DEF LedgerEntry

LEMMA EntryKept ==
  ASSUME NEW t, scenarioOf'[t] = scenarioOf[t], backend'[t] = backend[t],
         t \in settled' <=> t \in settled
  PROVE  LedgerEntry(t)' = LedgerEntry(t)
BY EntryOf, EntryAfter

LedgerVars == <<[t \in Tasks |-> LedgerEntry(t)], scenarioOf, saved>>

(* A step of the service is a step of the ledger or leaves it as it is.    *)
LEMMA LedgerStep ==
  TypeOK /\ Wiring /\ SavedInv /\ LedgerKind => [Ledger!Next]_LedgerVars
<1> SUFFICES ASSUME TypeOK, Wiring, SavedInv, LedgerKind
             PROVE  [Ledger!Next]_LedgerVars
  OBVIOUS
<1> DEFINE entry == [t \in Tasks |-> LedgerEntry(t)]
           after == [t \in Tasks |-> LedgerEntry(t)']
<1>0. entry' = after
  OBVIOUS
<1>1. CASE LeavesLedger
  <2>1. \A t \in Tasks : LedgerEntry(t)' = LedgerEntry(t)
    BY <1>1, EntryKept DEF LeavesLedger, ledger
  <2> QED BY <1>1, <2>1 DEF LeavesLedger, ledger, LedgerVars
<1>2. CASE AcceptsTask
  <2>1. PICK t \in Tasks, s \in Scenarios :
          scenarioOf[t] = NoScenario /\ scenarioOf' = [scenarioOf EXCEPT ![t] = s]
    BY <1>2 DEF AcceptsTask
  <2>2. /\ UNCHANGED <<backend, settled, saved>>
        /\ t \notin settled
        /\ backend[t] # "SUCCESS"
    BY <1>2, <2>1, ScenariosAssumption DEF AcceptsTask, Wiring, SettledWired, Queued,
       SavedInv, BackendSaved, Saved, TypeOK
  <2>3. LedgerEntry(t) = "new" /\ LedgerEntry(t)' = "owed"
    BY <2>1, <2>2, EntryOf, EntryAfter, ScenariosAssumption DEF TypeOK
  <2>4. \A u \in Tasks \ {t} : LedgerEntry(u)' = LedgerEntry(u)
    BY <2>1, <2>2, EntryKept DEF TypeOK
  <2>5. entry[t] = "new" /\ after = [entry EXCEPT ![t] = "owed"]
    BY <2>3, <2>4
  <2>6. Ledger!Accept(t, s)
    BY <2>1, <2>2, <2>5 DEF Ledger!Accept
  <2> QED BY <2>6 DEF Ledger!Next
<1>3. CASE KeepsResults
  <2>1. \A t \in Tasks : LedgerEntry(t)' = LedgerEntry(t)
    BY <1>3, EntryKept DEF KeepsResults
  <2>2. after = entry
    BY <2>1
  <2>3. PICK s \in Scenarios : saved' = saved \cup {s}
    BY <1>3 DEF KeepsResults
  <2>4. Ledger!Keep(s)
    BY <1>3, <2>2, <2>3 DEF KeepsResults, Ledger!Keep
  <2> QED BY <2>4 DEF Ledger!Next
<1>4. CASE StoresState
  <2>1. PICK t \in Tasks, st \in CeleryStates :
          Queued(t) /\ Store(t, st) /\ (st = "SUCCESS" => scenarioOf[t] \in saved)
    BY <1>4 DEF StoresState
  <2>2. /\ UNCHANGED <<scenarioOf, saved>>
        /\ scenarioOf[t] # NoScenario
        /\ backend'[t] = IF backend[t] = "SUCCESS" THEN "SUCCESS" ELSE st
        /\ \A u \in Tasks \ {t} : backend'[u] = backend[u] /\ (u \in settled' <=> u \in settled)
        /\ t \in settled' <=> t \in settled \/ st \in ReadyStates
    BY <1>4, <2>1, ScenariosAssumption DEF StoresState, Queued, Store, TypeOK
  <2>3. \A u \in Tasks \ {t} : LedgerEntry(u)' = LedgerEntry(u)
    BY <2>2, EntryKept
  <2>4. ASSUME LedgerEntry(t)' = LedgerEntry(t) PROVE UNCHANGED LedgerVars
    <3>1. \A u \in Tasks : LedgerEntry(u)' = LedgerEntry(u)
      BY <2>3, <2>4
    <3> QED BY <2>2, <3>1 DEF LedgerVars
  <2>5. ASSUME NEW e, LedgerEntry(t)' = e PROVE after = [entry EXCEPT ![t] = e]
    BY <2>3, <2>5
  <2>6. CASE backend[t] = "SUCCESS"
    BY <2>2, <2>4, <2>6, EntryOf, EntryAfter
  <2>7. CASE backend[t] # "SUCCESS" /\ st = "SUCCESS"
    <3>1. LedgerEntry(t) \in {"owed", "failed"} /\ LedgerEntry(t)' = "succeeded"
      BY <2>2, <2>7, EntryOf, EntryAfter
    <3>2. Ledger!Succeed(t)
      BY <2>1, <2>2, <2>5, <2>7, <3>1 DEF Ledger!Succeed
    <3> QED BY <3>2 DEF Ledger!Next
  <2>8. CASE backend[t] # "SUCCESS" /\ st # "SUCCESS" /\ st \in ReadyStates /\ t \notin settled
    <3>1. LedgerEntry(t) = "owed" /\ LedgerEntry(t)' = "failed"
      BY <2>2, <2>8, EntryOf, EntryAfter
    <3>2. Ledger!Fail(t)
      BY <2>2, <2>5, <3>1 DEF Ledger!Fail
    <3> QED BY <3>2 DEF Ledger!Next
  <2>9. CASE backend[t] # "SUCCESS" /\ st # "SUCCESS" /\ (st \notin ReadyStates \/ t \in settled)
    BY <2>2, <2>4, <2>9, EntryOf, EntryAfter
  <2> QED BY <2>6, <2>7, <2>8, <2>9
<1> QED BY <1>1, <1>2, <1>3, <1>4 DEF LedgerKind

LEMMA SavedAlways == Spec => [](TypeOK /\ Wiring /\ SavedInv)
<1>1. TypeOK /\ Wiring /\ SavedInv /\ [Next]_vars => SavedInv'
  BY SavedStep
<1> QED BY <1>1, InitSaved, TypeWiring, PTL DEF Spec

(* The service implements the ledger, but for the promise that nothing     *)
(* stays owed: whatever is retried, redelivered, revoked or lost, a task   *)
(* is accepted once, is a success only when its scenario has results, and  *)
(* no execution that comes later takes a success back.                     *)
THEOREM ImplementsLedgerSafely == Spec => Ledger!Spec
<1>1. Init => Ledger!Init
  BY DEF Init, Ledger!Init, LedgerEntry
<1>2. TypeOK /\ Wiring /\ SavedInv /\ [Next]_vars =>
        [Ledger!Next]_<<[t \in Tasks |-> LedgerEntry(t)], scenarioOf, saved>>
  BY StepKind, LedgerStep DEF LedgerVars
<1> QED BY <1>1, <1>2, SavedAlways, PTL DEF Spec, Ledger!Spec, Ledger!vars

-----------------------------------------------------------------------------
(* Every behaviour with the record is a behaviour of the service.          *)
LEMMA HistoryIsService == HistorySpec => Spec
<1>1. HistoryInit => Init
  BY DEF HistoryInit
<1>2. [HistoryNext]_hvars => [Next]_vars
  BY DEF HistoryNext, hvars
<1> QED BY <1>1, <1>2, PTL DEF HistorySpec, Spec

LEMMA ServiceInv == HistorySpec => [](TypeOK /\ Wiring /\ SavedInv)
BY HistoryIsService, SavedAlways, PTL

-----------------------------------------------------------------------------
(* As long as no two saves of a scenario have overlapped, whoever is       *)
(* between the DELETE and the commit of one has seen all the rows there    *)
(* are.  That makes OneHeadroomUnlessRivals inductive.                     *)
Covered(s) ==
  /\ \A w \in Workers : WorkerSaves(w, s) => headroom[s] \subseteq worker[w].seen
  /\ \A c \in Clients : Uploads(c, s) => headroom[s] \subseteq client[c].seen

OneWriter(s) == \A a, b \in headroom[s] : a = b

SavesAlone(s) == OneWriter(s) /\ Covered(s) /\ ~Rival(s)

AloneInv == \A s \in Scenarios \ rivals : SavesAlone(s)

(* A step that adds no rows: who saves afterwards was saving before, or    *)
(* begins with the rows there are.                                         *)
AddsNothing(s) ==
  /\ headroom'[s] \subseteq headroom[s]
  /\ \A w \in Workers : WorkerSaves(w, s)' =>
       \/ WorkerSaves(w, s) /\ worker'[w].seen = worker[w].seen
       \/ headroom'[s] \subseteq worker'[w].seen
  /\ \A c \in Clients : Uploads(c, s)' =>
       \/ Uploads(c, s) /\ client'[c].seen = client[c].seen
       \/ headroom'[s] \subseteq client'[c].seen

(* A step that replaces them, after which nobody is saving. *)
ReplacesAll(s) ==
  /\ \E x : headroom'[s] \subseteq {x}
  /\ \A w \in Workers : ~WorkerSaves(w, s)'
  /\ \A c \in Clients : ~Uploads(c, s)'

LEMMA AloneRules ==
  ASSUME NEW s \in Scenarios, SavesAlone(s), ~Rival(s)', AddsNothing(s) \/ ReplacesAll(s)
  PROVE  SavesAlone(s)'
<1>1. CASE AddsNothing(s)
  <2>1. OneWriter(s)'
    BY <1>1 DEF AddsNothing, SavesAlone, OneWriter
  <2>2. Covered(s)'
    BY <1>1 DEF AddsNothing, SavesAlone, Covered
  <2> QED BY <2>1, <2>2 DEF SavesAlone
<1>2. CASE ReplacesAll(s)
  BY <1>2 DEF ReplacesAll, SavesAlone, OneWriter, Covered
<1> QED BY <1>1, <1>2

LEMMA AloneClient ==
  ASSUME TypeOK, Wiring, NEW s \in Scenarios, SavesAlone(s),
         NEW c \in Clients, ClientRequests(c) \/ ClientContinues(c)
  PROVE  AddsNothing(s) \/ ReplacesAll(s)
<1> USE DEF db, results, broker
<1>f. client \in [Clients -> ClientState] /\ \A w \in Workers : worker[w].pc # "idle" =>
        worker[w].task \in Tasks /\ scenarioOf[worker[w].task] \in Scenarios
  BY DEF TypeOK, Wiring, WorkersWired, Running, Queued
(* A request that does not save, and the rows stay or go. *)
<1>q. ASSUME headroom'[s] \subseteq headroom[s], UNCHANGED worker,
             \A w \in Workers : WorkerSaves(w, s)' => WorkerSaves(w, s),
             NEW req, client' = [client EXCEPT ![c] = req],
             req.pc # "saving" \/ headroom'[s] \subseteq req.seen
      PROVE  AddsNothing(s)
  BY <1>q, <1>f DEF AddsNothing, Uploads
<1>w. UNCHANGED <<worker, scenarioOf>> =>
        \A w \in Workers : WorkerSaves(w, s)' => WorkerSaves(w, s)
  BY DEF WorkerSaves
<1>1. CASE ClientRequests(c)
  <2>1. ASSUME NEW x \in Scenarios, CalculateRead(c, x) \/ RemoveRead(c, x)
        PROVE  AddsNothing(s)
    BY <2>1, <1>q, <1>w DEF CalculateRead, RemoveRead, Proceed, Request
  <2>2. CASE ImportRevoke(c)
    BY <2>2, <1>q, <1>w DEF ImportRevoke, Proceed, Request
  <2>3. ASSUME NEW x \in Scenarios, UploadBegin(c, x) PROVE AddsNothing(s)
    <3>1. CASE x = s
      BY <2>3, <3>1, <1>q, <1>w DEF UploadBegin, Request
    <3>2. CASE x # s
      BY <2>3, <3>2, <1>f, <1>w DEF UploadBegin, Request, AddsNothing, Uploads
    <3> QED BY <3>1, <3>2
  <2> QED BY <1>1, <2>1, <2>2, <2>3 DEF ClientRequests
<1>2. ASSUME NEW t \in Tasks, CalculateDelay(c, t) PROVE AddsNothing(s)
  <2>1. \A w \in Workers : WorkerSaves(w, s)' => WorkerSaves(w, s)
    BY <1>2, <1>f, ScenariosAssumption DEF CalculateDelay, WorkerSaves, TypeOK
  <2> QED BY <1>2, <1>q, <2>1 DEF CalculateDelay, Proceed, Request
<1>3. CASE CalculateReadState(c) \/ CalculateCommit(c)
  BY <1>3, <1>q, <1>w DEF CalculateReadState, CalculateCommit, Proceed, Request, IdleClient
<1>4. CASE RemoveCommit(c) \/ ImportCommit(c)
  BY <1>4, <1>q, <1>w DEF RemoveCommit, ImportCommit, DeleteScenarios, Request, IdleClient
<1>5. CASE ImportDelete(c)
  <2>1. client' = [client EXCEPT ![c] = [client[c] EXCEPT !.pc = "import", !.doomed = LiveScenarios \ Defaults]]
    BY <1>5 DEF ImportDelete
  <2>2. [client[c] EXCEPT !.pc = "import", !.doomed = LiveScenarios \ Defaults].pc = "import"
    BY <1>f DEF ClientState
  <2> QED BY <1>5, <1>q, <1>w, <2>1, <2>2 DEF ImportDelete
<1>6. CASE UploadCommit(c)
  <2>1. CASE UNCHANGED db
    BY <1>6, <2>1, <1>q, <1>w DEF UploadCommit, Request, IdleClient
  <2>2. CASE SaveHeadroom(client[c].scenario, client[c].seen, Upload)
    <3>1. CASE client[c].scenario # s
      BY <1>6, <2>2, <3>1, <1>q, <1>w DEF UploadCommit, SaveHeadroom, Request, IdleClient, TypeOK
    <3>2. CASE client[c].scenario = s
      <4>1. Uploads(c, s)
        BY <1>6, <3>2 DEF UploadCommit, Uploads
      <4>2. /\ \A w \in Workers : ~WorkerSaves(w, s)
            /\ \A d \in Clients \ {c} : ~Uploads(d, s)
        BY <4>1 DEF SavesAlone, Rival
      <4>3. headroom'[s] \subseteq {Upload}
        BY <2>2, <3>2, <4>1 DEF SaveHeadroom, SavesAlone, Covered, TypeOK
      <4>4. /\ \A w \in Workers : ~WorkerSaves(w, s)'
            /\ \A d \in Clients : ~Uploads(d, s)'
        BY <1>6, <4>2, <1>f, <1>w DEF UploadCommit, Uploads, IdleClient, Request
      <4> QED BY <4>3, <4>4 DEF ReplacesAll
    <3> QED BY <3>1, <3>2
  <2> QED BY <1>6, <2>1, <2>2 DEF UploadCommit
<1> QED BY <1>1, <1>2, <1>3, <1>4, <1>5, <1>6 DEF ClientContinues

(* A step of one process. *)
LEMMA AloneAdvance ==
  ASSUME TypeOK, NEW s \in Scenarios, NEW w \in Workers, NEW p,
         worker' = [worker EXCEPT ![w] = p], UNCHANGED <<scenarioOf, client>>,
         headroom'[s] \subseteq headroom[s],
         \/ p.pc # "saving"
         \/ p.pc = worker[w].pc /\ p.task = worker[w].task /\ p.seen = worker[w].seen
         \/ scenarioOf[p.task] = s => headroom'[s] \subseteq p.seen
  PROVE  AddsNothing(s)
BY DEF TypeOK, AddsNothing, WorkerSaves, Uploads

LEMMA AloneWorker ==
  ASSUME TypeOK, Wiring, NEW s \in Scenarios, SavesAlone(s),
         NEW w \in Workers, Progress(w) \/ WorkerContinues(w)
  PROVE  AddsNothing(s) \/ ReplacesAll(s)
<1> USE DEF db, results, broker
<1>1. CASE Progress(w)
  BY <1>1 DEF Progress, AddsNothing, WorkerSaves, Uploads
<1>2. CASE PrerunRead(w) \/ PrerunWrite(w) \/ PostrunRead(w) \/ PostrunWrite(w) \/ Acknowledge(w)
  BY <1>2, AloneAdvance DEF PrerunRead, PrerunWrite, PostrunRead, PostrunWrite, Acknowledge,
     Goto, Advance, Process, IdleWorker, UpdateSolverStatus
<1>3. CASE StoreStarted(w) \/ MarkDone(w) \/ StoreRetry(w) \/ StoreFailure(w)
  BY <1>3, AloneAdvance DEF StoreStarted, MarkDone, StoreRetry, StoreFailure, Goto, Advance, Process
<1>4. CASE RunRefused(w) \/ PublishRetry(w) \/ RetriesExhausted(w)
  BY <1>4, AloneAdvance DEF RunRefused, PublishRetry, RetriesExhausted, Goto, Advance, Process
<1>5. CASE SaveBegin(w)
  BY <1>5, AloneAdvance DEF SaveBegin, Advance, Process
<1>6. CASE SaveCommit(w)
  <2>1. worker[w].pc = "saving" /\ SaveHeadroom(scenarioOf[worker[w].task], worker[w].seen, worker[w].task)
    BY <1>6 DEF SaveCommit, Goto, Advance
  <2>2. CASE scenarioOf[worker[w].task] # s
    BY <1>6, <2>1, <2>2, AloneAdvance DEF SaveCommit, SaveHeadroom, Goto, Advance, Process, TypeOK
  <2>3. CASE scenarioOf[worker[w].task] = s
    <3>1. WorkerSaves(w, s)
      BY <2>1, <2>3 DEF WorkerSaves
    <3>2. /\ \A v \in Workers \ {w} : ~WorkerSaves(v, s)
          /\ \A d \in Clients : ~Uploads(d, s)
      BY <3>1 DEF SavesAlone, Rival
    <3>3. headroom'[s] \subseteq {worker[w].task}
      BY <2>1, <2>3, <3>1 DEF SaveHeadroom, SavesAlone, Covered, TypeOK
    <3>4. /\ \A v \in Workers : ~WorkerSaves(v, s)'
          /\ \A d \in Clients : ~Uploads(d, s)'
      BY <1>6, <3>2 DEF SaveCommit, Goto, Advance, Process, WorkerSaves, Uploads, TypeOK
    <3> QED BY <3>3, <3>4 DEF ReplacesAll
  <2> QED BY <2>2, <2>3
<1> QED BY <1>1, <1>2, <1>3, <1>4, <1>5, <1>6 DEF WorkerContinues

LEMMA AloneFault ==
  ASSUME TypeOK, NEW s \in Scenarios, Faulty
  PROVE  AddsNothing(s)
<1> USE DEF db, results, broker
<1>1. ASSUME NEW w \in Workers, WorkerLost(w) PROVE AddsNothing(s)
  BY <1>1, AloneAdvance DEF WorkerLost, IdleWorker, Process
<1>2. CASE WorkerRestart
  BY <1>2 DEF WorkerRestart, AddsNothing, WorkerSaves, Uploads, IdleWorker, Process
<1>3. ASSUME NEW w \in Workers, VisibilityTimeout(w) PROVE AddsNothing(s)
  <2>1. /\ worker' = [worker EXCEPT ![w] = [worker[w] EXCEPT !.held = FALSE]]
        /\ UNCHANGED <<scenarioOf, client, headroom>>
    BY <1>3 DEF VisibilityTimeout
  <2>2. /\ [worker[w] EXCEPT !.held = FALSE].pc = worker[w].pc
        /\ [worker[w] EXCEPT !.held = FALSE].task = worker[w].task
        /\ [worker[w] EXCEPT !.held = FALSE].seen = worker[w].seen
    BY DEF TypeOK, WorkerState
  <2> QED BY <2>1, <2>2, AloneAdvance
<1>4. ASSUME NEW w \in Workers, SignalHandlerFails(w) PROVE AddsNothing(s)
  BY <1>4, AloneAdvance DEF SignalHandlerFails, Goto, Advance, Process
<1>5. ASSUME NEW c \in Clients, RequestLost(c) PROVE AddsNothing(s)
  BY <1>5 DEF RequestLost, AddsNothing, WorkerSaves, Uploads, IdleClient, Request, TypeOK
<1> QED BY <1>1, <1>2, <1>3, <1>4, <1>5 DEF Faulty

LEMMA AloneNext ==
  ASSUME TypeOK, Wiring, Next, NEW s \in Scenarios, SavesAlone(s)
  PROVE  AddsNothing(s) \/ ReplacesAll(s)
<1> USE DEF db, results, broker
<1>1. ASSUME NEW x \in Scenarios, CreateScenario(x) PROVE AddsNothing(s)
  BY <1>1 DEF CreateScenario, AddsNothing, WorkerSaves, Uploads
<1>2. CASE ReplaceBuses
  BY <1>2 DEF ReplaceBuses, AddsNothing
<1>3. ASSUME NEW t \in Tasks, NEW r \in Attempts, Deliver(t, r) PROVE AddsNothing(s)
  <2>1. ASSUME NEW w \in Workers, Receive(w, t, r) PROVE AddsNothing(s)
    BY <2>1, AloneAdvance DEF Receive, Process
  <2>2. CASE ReceiveRevoked(t, r)
    BY <2>2 DEF ReceiveRevoked, AddsNothing, WorkerSaves, Uploads
  <2> QED BY <1>3, <2>1, <2>2 DEF Deliver
<1>4. ASSUME NEW t \in Tasks, NEW w \in Workers, RevokeRunning(t, w) PROVE AddsNothing(s)
  BY <1>4, AloneAdvance DEF RevokeRunning, IdleWorker, Process
<1>5. ASSUME NEW t \in Tasks, RevokeQueued(t) PROVE AddsNothing(s)
  BY <1>5 DEF RevokeQueued, AddsNothing, WorkerSaves, Uploads
<1> QED BY <1>1, <1>2, <1>3, <1>4, <1>5, AloneClient, AloneWorker, AloneFault DEF Next

LEMMA AloneStep == TypeOK /\ Wiring /\ AloneInv /\ [HistoryNext]_hvars => AloneInv'
<1> SUFFICES ASSUME TypeOK, Wiring, AloneInv, [HistoryNext]_hvars,
                    NEW s \in Scenarios, s \notin rivals'
             PROVE  SavesAlone(s)'
  BY DEF AloneInv
<1>1. CASE UNCHANGED hvars
  BY <1>1 DEF hvars, vars, history, AloneInv, SavesAlone, OneWriter, Covered, Rival, WorkerSaves,
     Uploads
<1>2. CASE HistoryNext
  <2>1. s \notin rivals /\ ~Rival(s)'
    BY <1>2 DEF HistoryNext
  <2>2. SavesAlone(s)
    BY <2>1 DEF AloneInv
  <2> QED BY <1>2, <2>1, <2>2, AloneNext, AloneRules DEF HistoryNext
<1> QED BY <1>1, <1>2

LEMMA AloneInit == HistoryInit => AloneInv
BY DEF HistoryInit, Init, AloneInv, SavesAlone, OneWriter, Covered, Rival, WorkerSaves, Uploads,
       IdleWorker, IdleClient, Process, Request

(* A scenario has the rows of one writer at most, unless two saves of it   *)
(* have overlapped.                                                        *)
THEOREM OneHeadroomUnlessRivalsAlways == HistorySpec => []OneHeadroomUnlessRivals
<1>1. TypeOK /\ Wiring /\ SavedInv /\ AloneInv /\ [HistoryNext]_hvars => AloneInv'
  BY AloneStep
<1>2. AloneInv => OneHeadroomUnlessRivals
  <2> SUFFICES ASSUME NEW s \in Scenarios, OneWriter(s) PROVE Cardinality(headroom[s]) <= 1
    BY DEF AloneInv, SavesAlone, OneHeadroomUnlessRivals
  <2>1. CASE headroom[s] = {}
    BY <2>1, FS_EmptySet
  <2>2. ASSUME NEW x \in headroom[s] PROVE Cardinality(headroom[s]) <= 1
    <3>1. headroom[s] = {x}
      BY <2>2 DEF OneWriter
    <3> QED BY <3>1, FS_Singleton
  <2> QED BY <2>1, <2>2
<1> QED BY <1>1, <1>2, AloneInit, ServiceInv, PTL DEF HistorySpec

=============================================================================

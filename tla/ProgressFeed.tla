---------------------------- MODULE ProgressFeed ----------------------------
(***************************************************************************)
(* How a browser hears of the calculations it watches: the monitor of      *)
(* tasks_monitor/service.py, the hub of events.py, and the two coroutines  *)
(* of the websocket handler of views.py.                                   *)
(*                                                                         *)
(* Every task state that celery stores is published by the result backend. *)
(* The monitor copies what it receives to the queue of every websocket.    *)
(* The consumer of a websocket takes subscriptions, the producer sends     *)
(* what belongs to the scenarios subscribed to.  Only PROGRESS and SUCCESS *)
(* carry a scenario id; for the others the producer looks the task up in   *)
(* the scenarios table and remembers the answer.                           *)
(***************************************************************************)
EXTENDS Naturals, Sequences, FiniteSets, SequencesExt

CONSTANTS
  Scenarios, Tasks, Sockets,
  ScenarioOf,     (* [Tasks -> Scenarios]: what a task was queued for       *)
  Unreadable,     (* tasks whose exceptions have arguments that are no text *)
  MaxReports,     (* bound on the states stored for one task                *)
  MaxAsked,       (* bound on the subscriptions sent over one websocket     *)
  NoTask, Unknown, Nobody

ASSUME TasksAssumption == IsFiniteSet(Tasks)
ASSUME ScenarioOfAssumption == ScenarioOf \in [Tasks -> Scenarios]
ASSUME NamesAssumption == NoTask \notin Tasks /\ {Unknown, Nobody} \cap Scenarios = {}
ASSUME MaxReportsAssumption == MaxReports \in Nat
ASSUME MaxAskedAssumption == MaxAsked \in Nat

Ready == {"SUCCESS", "FAILURE", "REVOKED"}
States == Ready \cup {"STARTED", "PROGRESS", "RETRY"}
Reported == [task: Tasks, state: Ready]

(* The object the hub puts into every queue is one and the same: matched   *)
(* says that some producer has given it its scenario_id, and at, the       *)
(* number of the report, identifies it; a websocket's own objects have 0.  *)
Message == [task: Tasks, state: States, at: 0..MaxReports, matched: BOOLEAN]
Object(t, st, at) == [task |-> t, state |-> st, at |-> at, matched |-> FALSE]

VARIABLES
  meta,      (* [Tasks -> States \cup {"none"}]: the result backend         *)
  reports,   (* [Tasks -> Nat]: states stored so far                        *)
  named,     (* [Scenarios -> Tasks \cup {NoTask}]: solver_task_id          *)
  pending,   (* scenarios whose solver_task_status is not a ready state     *)
  monitor,   (* "up" | "down"                                               *)
  wire,      (* messages published and not yet read by the monitor          *)
  socket,    (* [Sockets -> SocketState]                                    *)
  heard      (* history: [Sockets -> SUBSET Reported], ready states it sent *)

backend == <<meta, reports>>
rows == <<named, pending>>
vars == <<meta, reports, named, pending, monitor, wire, socket, heard>>

SocketState == [
  open: BOOLEAN,                              (* its queue is in the hub    *)
  gone: BOOLEAN,                              (* the browser has left       *)
  times: 0..MaxAsked,                         (* subscriptions received     *)
  ids: SUBSET Scenarios,                      (* scenario_ids               *)
  ongoing: [Tasks -> Scenarios \cup {Unknown, Nobody}],  (* the tasks map   *)
  queue: Seq(Message),
  consumer: {"receive", "query", "mget", "put", "failed"},
  found: SUBSET Tasks,                        (* rows its query returned    *)
  items: SUBSET Message,                      (* what its mget returned     *)
  producer: {"get", "query", "mget", "match"},
  asked: SUBSET Tasks,                        (* what the producer asks for *)
  msg: Message \cup {Unknown}]

NothingOngoing == [t \in Tasks |-> Unknown]
Closed == [open |-> FALSE, gone |-> FALSE, times |-> 0, ids |-> {},
           ongoing |-> NothingOngoing, queue |-> <<>>, consumer |-> "receive", found |-> {}, items |-> {},
           producer |-> "get", asked |-> {}, msg |-> Unknown]

TypeOK ==
  /\ meta \in [Tasks -> States \cup {"none"}]
  /\ reports \in [Tasks -> 0..MaxReports]
  /\ named \in [Scenarios -> Tasks \cup {NoTask}]
  /\ pending \subseteq Scenarios
  /\ monitor \in {"up", "down"}
  /\ wire \in Seq(Message)
  /\ socket \in [Sockets -> SocketState]
  /\ heard \in [Sockets -> SUBSET Reported]

Init ==
  /\ meta = [t \in Tasks |-> "none"]
  /\ reports = [t \in Tasks |-> 0]
  /\ named = [s \in Scenarios |-> NoTask]
  /\ pending = {}
  /\ monitor = "up"
  /\ wire = <<>>
  /\ socket = [h \in Sockets |-> Closed]
  /\ heard = [h \in Sockets |-> {}]

-----------------------------------------------------------------------------
(* The calculations, as far as the feed sees them.                         *)

(* A message may be delivered again, to a process that works beside the    *)
(* first one or after it (task_acks_late, task_reject_on_worker_lost), and *)
(* a retry may begin before the first execution has reported: after a      *)
(* first state any may be stored, but SUCCESS is final.                    *)
Follows(st) ==
  CASE st = "none" -> {"STARTED", "REVOKED"}
    [] st = "SUCCESS" -> {}
    [] OTHER -> States

(* A state is stored and published; nobody keeps what is published while   *)
(* the monitor is not subscribed.                                          *)
Report(t, st) ==
  /\ reports[t] < MaxReports
  /\ st \in Follows(meta[t])
  /\ meta' = [meta EXCEPT ![t] = st]
  /\ reports' = [reports EXCEPT ![t] = @ + 1]
  /\ wire' = IF monitor = "up" THEN Append(wire, Object(t, st, reports[t] + 1)) ELSE wire
  /\ UNCHANGED <<rows, monitor, socket, heard>>

(* calculate_scenario commits the task's id, with the state it has read,   *)
(* while the task is perhaps at work or over.                              *)
NameRow(t) ==
  LET s == ScenarioOf[t]
  IN  /\ named[s] # t
      /\ \A u \in Tasks : named[s] = u => meta[u] \in Ready
      /\ named' = [named EXCEPT ![s] = t]
      /\ \/ pending' = pending \cup {s}
         \/ meta[t] \in Ready /\ pending' = pending \ {s}
      /\ UNCHANGED <<backend, monitor, wire, socket, heard>>

(* The signal handlers and the save update the row of the task: it becomes *)
(* ready before SUCCESS is stored and after FAILURE is, and pending by a   *)
(* state read earlier or when the task is executed again.                  *)
RowReady(t) ==
  LET s == ScenarioOf[t]
  IN  /\ named[s] = t
      /\ meta[t] # "none"
      /\ pending' = pending \ {s}
      /\ UNCHANGED <<backend, named, monitor, wire, socket, heard>>

RowPending(t) ==
  LET s == ScenarioOf[t]
  IN  /\ named[s] = t
      /\ pending' = pending \cup {s}
      /\ UNCHANGED <<backend, named, monitor, wire, socket, heard>>

-----------------------------------------------------------------------------
(* The monitor.                                                            *)

Subscribers == {h \in Sockets : socket[h].open}

(* parse_task_meta_raw joins the arguments of an exception as text. *)
Readable(m) == m.task \in Unreadable => m.state \notin {"FAILURE", "RETRY"}

(* One message, when somebody listens; what cannot be parsed is logged.    *)
Publish ==
  /\ monitor = "up"
  /\ Subscribers # {}
  /\ wire # <<>>
  /\ wire' = Tail(wire)
  /\ socket' = [h \in Sockets |->
                  IF socket[h].open /\ Readable(Head(wire))
                    THEN [socket[h] EXCEPT !.queue = Append(@, Head(wire))]
                    ELSE socket[h]]
  /\ UNCHANGED <<backend, rows, monitor, heard>>

(* Redis is lost: the monitor's task ends, and nothing starts it again.    *)
MonitorEnds ==
  /\ monitor = "up"
  /\ monitor' = "down"
  /\ wire' = <<>>
  /\ UNCHANGED <<backend, rows, socket, heard>>

-----------------------------------------------------------------------------
(* A websocket.                                                            *)

Connect(h) ==
  /\ ~socket[h].open
  /\ socket' = [socket EXCEPT ![h] = [Closed EXCEPT !.open = TRUE]]
  /\ heard' = [heard EXCEPT ![h] = {}]
  /\ UNCHANGED <<backend, rows, monitor, wire>>

BrowserLeaves(h) ==
  /\ socket[h].open
  /\ ~socket[h].gone
  /\ socket' = [socket EXCEPT ![h].gone = TRUE]
  /\ UNCHANGED <<backend, rows, monitor, wire, heard>>

(* Wrong on purpose: wait until both coroutines have ended. *)
CloseWhenBothEnd(h) ==
  /\ socket[h].open
  /\ socket[h].consumer = "failed"
  /\ socket[h].producer = "failed"
  /\ socket' = [socket EXCEPT ![h] = Closed]
  /\ UNCHANGED <<backend, rows, monitor, wire, heard>>

(* handle returns, and its queue leaves the hub, once one of the two       *)
(* coroutines has ended: it is the consumer, by an exception, that of the  *)
(* disconnection among them.  The producer survives all of its own.        *)
Close(h) ==
  /\ socket[h].open
  /\ \/ socket[h].consumer = "failed"
     \/ socket[h].consumer = "receive" /\ socket[h].gone
  /\ socket' = [socket EXCEPT ![h] = Closed]
  /\ UNCHANGED <<backend, rows, monitor, wire, heard>>

(* The rows _update_ongoing_tasks_map selects. *)
PendingTasks(ids) == {t \in Tasks : /\ ScenarioOf[t] \in ids \cap pending
                                    /\ named[ScenarioOf[t]] = t}

(* The answer to the query is merged into the tasks map, keyed by task;    *)
(* wrong on purpose, with key and value swapped.                           *)
MergeSwapped(ongoing, found) == [t \in Tasks |-> IF t \in found THEN t ELSE ongoing[t]]

Merge(ongoing, found) == [t \in Tasks |-> IF t \in found THEN ScenarioOf[t] ELSE ongoing[t]]

(* The session is in use: a second execute on it raises. *)
SessionBusy(h) == socket[h].consumer = "query" \/ socket[h].producer = "query"

(* A subscription, and the query for what is going on in its scenarios.    *)
Subscribe(h, ids) ==
  /\ socket[h].open
  /\ ~socket[h].gone
  /\ socket[h].consumer = "receive"
  /\ socket[h].times < MaxAsked
  /\ socket' = [socket EXCEPT
       ![h] = [socket[h] EXCEPT !.times = @ + 1,
                        !.ids = ids,
                        !.ongoing = NothingOngoing,
                        !.found = PendingTasks(ids),
                        !.consumer = IF ids = {} THEN "receive"
                                     ELSE IF SessionBusy(h) THEN "failed"
                                     ELSE "query"]]
  /\ UNCHANGED <<backend, rows, monitor, wire, heard>>

(* The query's answer is merged into the map; the states of all tasks in   *)
(* the map are asked from redis ...                                        *)
ConsumerMaps(h) ==
  LET known == Merge(socket[h].ongoing, socket[h].found)
  IN  /\ socket[h].consumer = "query"
      /\ socket' = [socket EXCEPT
           ![h] = [socket[h] EXCEPT !.ongoing = known,
                            !.found = {t \in Tasks : known[t] # Unknown},
                            !.consumer = "mget"]]
      /\ UNCHANGED <<backend, rows, monitor, wire, heard>>

(* ... which answers ... *)
ConsumerReads(h) ==
  /\ socket[h].consumer = "mget"
  /\ socket' = [socket EXCEPT
       ![h] = [socket[h] EXCEPT !.items = {Object(t, meta[t], 0) :
                                             t \in {u \in socket[h].found : meta[u] # "none"}},
                        !.found = {},
                        !.consumer = "put"]]
  /\ UNCHANGED <<backend, rows, monitor, wire, heard>>

(* ... and the answers go into the websocket's own queue, unless one of    *)
(* them cannot be parsed.                                                  *)
ConsumerPuts(h) ==
  /\ socket[h].consumer = "put"
  /\ \E items \in SetToSeqs(socket[h].items) :
       socket' = [socket EXCEPT
         ![h] = IF \A m \in socket[h].items : Readable(m)
                  THEN [socket[h] EXCEPT !.queue = @ \o items, !.items = {}, !.consumer = "receive"]
                  ELSE [socket[h] EXCEPT !.items = {}, !.consumer = "failed"]]
  /\ UNCHANGED <<backend, rows, monitor, wire, heard>>

CarriesScenario(m) == m.matched \/ m.state \in {"PROGRESS", "SUCCESS"}

(* A producer writes the scenario it has found, or that it has found none, *)
(* into the message, which waits in the queues of other websockets too.    *)
Match(sockets, m, found) ==
  LET Same(x) == m.at > 0 /\ x.task = m.task /\ x.at = m.at
      Seen(x) == IF Same(x) THEN [x EXCEPT !.matched = found] ELSE x
  IN  [h \in Sockets |->
         [sockets[h] EXCEPT !.queue = [i \in DOMAIN @ |-> Seen(@[i])]]]

(* Wrong on purpose: only what the map knows. *)
SendKnown(h, m, s) ==
  heard' = [heard EXCEPT ![h] = IF /\ socket[h].ongoing[m.task] \in socket[h].ids
                                   /\ ~socket[h].gone
                                   /\ m.state \in Ready
                                  THEN @ \cup {[task |-> m.task, state |-> m.state]}
                                  ELSE @]

(* Sent to the browser, if it wants it now and is still there. *)
Send(h, m, s) ==
  heard' = [heard EXCEPT ![h] = IF s \in socket[h].ids /\ ~socket[h].gone /\ m.state \in Ready
                                  THEN @ \cup {[task |-> m.task, state |-> m.state]}
                                  ELSE @]

(* The producer takes a message whose scenario it knows ...                *)
ProducerSends(h) ==
  LET m == Head(socket[h].queue)
  IN  /\ socket[h].open
      /\ socket[h].producer = "get"
      /\ socket[h].queue # <<>>
      /\ LET rest == [socket EXCEPT ![h].queue = Tail(@)]
             known == socket[h].ongoing[m.task]
         IN  \/ /\ CarriesScenario(m)
                /\ Send(h, m, ScenarioOf[m.task])
                /\ socket' = rest
             \/ /\ ~CarriesScenario(m)
                /\ known # Unknown
                /\ Send(h, m, known)
                /\ socket' = Match(rest, m, known # Nobody)
      /\ UNCHANGED <<backend, rows, monitor, wire>>

(* ... or one of a task it has to look up: nothing to look up without a    *)
(* subscription, and an exception, logged, while the session is in use.    *)
ProducerLooksUp(h) ==
  LET m == Head(socket[h].queue)
  IN  /\ socket[h].open
      /\ socket[h].producer = "get"
      /\ socket[h].queue # <<>>
      /\ ~CarriesScenario(m)
      /\ socket[h].ongoing[m.task] = Unknown
      /\ socket' = [socket EXCEPT
           ![h] = IF socket[h].ids = {}
                    THEN [socket[h] EXCEPT !.queue = Tail(@), !.ongoing[m.task] = Nobody]
                    ELSE IF SessionBusy(h)
                      THEN [socket[h] EXCEPT !.queue = Tail(@)]
                      ELSE [socket[h] EXCEPT !.queue = Tail(@), !.msg = m, !.producer = "query",
                                     !.asked = PendingTasks(socket[h].ids)]]
      /\ UNCHANGED <<backend, rows, monitor, wire, heard>>

ProducerMaps(h) ==
  LET known == Merge(socket[h].ongoing, socket[h].asked)
  IN  /\ socket[h].producer = "query"
      /\ socket' = [socket EXCEPT
           ![h] = [socket[h] EXCEPT !.ongoing = known,
                            !.asked = {t \in Tasks : known[t] # Unknown},
                            !.producer = "mget"]]
      /\ UNCHANGED <<backend, rows, monitor, wire, heard>>

(* It has no use for the states of the tasks in the map, which it asks for *)
(* as well, but one that cannot be parsed raises: this is logged and the   *)
(* message lost.                                                           *)
ProducerReads(h) ==
  LET answers == {Object(t, meta[t], 0) : t \in {u \in socket[h].asked : meta[u] # "none"}}
  IN  /\ socket[h].producer = "mget"
      /\ socket' = [socket EXCEPT
           ![h] = IF \A m \in answers : Readable(m)
                    THEN [socket[h] EXCEPT !.asked = {}, !.producer = "match"]
                    ELSE [socket[h] EXCEPT !.asked = {}, !.msg = Unknown, !.producer = "get"]]
      /\ UNCHANGED <<backend, rows, monitor, wire, heard>>

(* A task that is still not in the map is noted as nobody's. *)
ProducerMatches(h) ==
  LET m == socket[h].msg
      s == socket[h].ongoing[m.task]
  IN  /\ socket[h].producer = "match"
      /\ Send(h, m, s)
      /\ socket' = Match([socket EXCEPT
           ![h] = [socket[h] EXCEPT !.ongoing[m.task] = IF s = Unknown THEN Nobody ELSE s,
                            !.msg = Unknown,
                            !.producer = "get"]], m, s \in Scenarios)
      /\ UNCHANGED <<backend, rows, monitor, wire>>

-----------------------------------------------------------------------------
Calculations ==
  \E t \in Tasks :
    \/ \E st \in States : Report(t, st)
    \/ NameRow(t)
    \/ RowReady(t)
    \/ RowPending(t)

Browser(h) ==
  \/ Connect(h)
  \/ BrowserLeaves(h)
  \/ \E ids \in SUBSET Scenarios : Subscribe(h, ids)

ConsumerContinues(h) == ConsumerMaps(h) \/ ConsumerReads(h) \/ ConsumerPuts(h)

ProducerContinues(h) ==
  \/ ProducerSends(h)
  \/ ProducerLooksUp(h)
  \/ ProducerMaps(h)
  \/ ProducerReads(h)
  \/ ProducerMatches(h)

Next ==
  \/ Calculations
  \/ Publish
  \/ MonitorEnds
  \/ \E h \in Sockets : Browser(h)
  \/ \E h \in Sockets : Close(h)
  \/ \E h \in Sockets : ConsumerContinues(h)
  \/ \E h \in Sockets : ProducerContinues(h)

Spec == Init /\ [][Next]_vars

(* The event loop runs what can run: the monitor polls as long as somebody *)
(* listens, and each websocket has its own two coroutines and handler.     *)
FairSpec ==
  /\ Spec
  /\ WF_vars(Publish)
  /\ \A h \in Sockets : /\ WF_vars(Close(h))
                        /\ WF_vars(ConsumerContinues(h))
                        /\ WF_vars(ProducerContinues(h))

-----------------------------------------------------------------------------
OnTheWire(t, st) == \E i \in 1..Len(wire) : wire[i].task = t /\ wire[i].state = st

Watches(h, t) == socket[h].open /\ ~socket[h].gone /\ ScenarioOf[t] \in socket[h].ids

Told(h, t, st) == [task |-> t, state |-> st] \in heard[h]

Announced(h, t, st) == Watches(h, t) /\ named[ScenarioOf[t]] = t /\ OnTheWire(t, st)

Hears(st) ==
  \A h \in Sockets, t \in Tasks :
    Announced(h, t, st) ~> Told(h, t, st) \/ ~Watches(h, t) \/ monitor = "down"

(* A browser that goes on watching a scenario is told that its calculation *)
(* has succeeded, whatever the state of the row and of the tasks map.      *)
SuccessIsHeard == Hears("SUCCESS")

(* A browser that goes on watching a scenario, whose row has the id of the *)
(* task by then, is told that the calculation has failed.                  *)
FailureIsHeard == Hears("FAILURE")

(* The queue of a browser that has left does not stay in the hub. *)
LeavesTheHub == \A h \in Sockets : socket[h].gone ~> ~socket[h].open

=============================================================================

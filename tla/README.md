# GridCapacityMap: models and proofs

TLA+ models of the GridCapacityMap back end (`backend/gridmap`) and of the state
of its front end (`maplibre/src`), checked with TLC and, where the result should hold for every size, proved with TLAPS.

Paths below are relative to the repository; in `PROJECT.json` they carry the
prefix `src/`.

## 1. The system and its parts

| Component | Code | State | Operations |
|---|---|---|---|
| Calculation lifecycle | `scenarios/`, `headroom/`, `tasks/`, `database/session.py` | table `scenarios` (`solver_task_id`, `solver_task_status`), table `scenario_bus_headrooms`, celery result backend (redis), celery queue (redis), pool processes | create, calculate, PATCH headroom, remove; `run_solver` with its signal handlers |
| Progress feed | `tasks_monitor/` | `hub.subscriptions`, one queue, `scenario_ids` and `ongoing_tasks_map` per websocket, the redis pub/sub buffer of the monitor | subscribe, publish, produce, disconnect |
| Connections import/export | `datadump/service_imports.py`, `service_exports.py`, `database/helpers.py` | `connection_requests`, reference tables (users, organisations, geo), `scenarios` | purge, import, export |
| Start-up import | `datadump/cli.py`, `xlsx_importer.py`, `helpers.py` | as above, the files of `NET_DATA_ROOT`, one database session for all of them | import every directory that has no network yet, or newer files |
| Networks and subsystems | `networks/` | `networks`, `network_buses`, `network_branches`, `network_trafos`, `network_trafos_3w` | create, update, import subsystems, import geodata |
| Response cache | `cache/dependencies.py`, `connections/views.py` | redis keys, ETags | conditional GET |
| Connection requests | `connections/` | `connection_requests` | queries |
| Authentication | `auth/` | keycloak | token check |
| Start, health, migrations | `main.py`, `wait_for_db.py`, `healthcheck/`, `migrations/` | none of their own | - |
| Front end | `maplibre/src/context`, `hooks`, `components`, `helpers` | React state | select network/scenario, subscribe, create scenario |

How they interact:

* the API process is one asyncio loop; a request handler is interleaved with the
  others at each of its awaits. Its session is a READ COMMITTED transaction;
* `calculate_scenario` sends a celery message and writes the task id to the row
  afterwards. The worker knows the scenario from the message, the signal
  handlers know the row from the task id;
* the start-up script runs once per container start, before the API; it creates
  networks through the networks' service and their requests through the same
  `import_unified` that the PUT endpoint calls. Another container's API may be
  serving meanwhile;
* worker and API both save headroom through `update_scenario_headroom`;
* the import and `remove_scenario` revoke tasks by broadcast;
* the result backend publishes every stored state; the monitor copies what it
  receives to every websocket's queue.

What makes it hard: no two of the database, the result backend and the broker
are ever updated together; messages are redelivered (`task_acks_late`,
`task_reject_on_worker_lost`), a retry overlaps the execution that asked for it,
and each handler checks a state it read some awaits ago.

What makes it correct, per component:

* calculation: a queued task is not lost and is settled in the end, a success
  for good; `SUCCESS` means a headroom was saved; one calculation per scenario; a
  save replaces what was there; the newest result is shown; a row that says a
  calculation is pending has one;
* progress feed: a subscriber hears the end of a calculation it watches, and a
  browser that has left is forgotten;
* import: what 201 means for the tables, what a failure leaves, the default
  scenario kept, reference rows unique;
* start-up: one network per case_name, "complete" means whole, no directory
  disturbs another's network or keeps it out;
* networks: lines end at buses, what is drawn ends at what is drawn;
* cache: what is served of a network with requests is never older than the
  version its key names;
* front end: what is shown together belongs together, and to what is selected.

The hazards, each at its line, are listed in `PROJECT.json`.

## 2. Modules

| Module | Models |
|---|---|
| `ScenarioCalculation` | the calculation lifecycle: every API request that touches a scenario row or its headroom, the celery task, its signals, revocation, faults |
| `TaskLedger` | abstract specification of the service towards its client: new, owed, failed, succeeded |
| `CalculationHistory` | `ScenarioCalculation` with a record of what interfered with each scenario, and what holds of one with which nothing did |
| `MCScenarioCalculation`, `MCCalculationHistory` | both on small sets |
| `ScenarioCalculationProofs` | theorems about `ScenarioCalculation` |
| `CalculationHistoryProofs` | that it implements `TaskLedger` (safety), and theorems about `CalculationHistory` |
| `ProgressFeed` | what a browser hears of the calculations it watches: published task states, the monitor, the hub, the two coroutines of a websocket |
| `MCProgressFeed` | `ProgressFeed` with one scenario for each task |
| `ProgressFeedProofs` | theorems about `ProgressFeed` |
| `ResponseCache` | the conditional, cached GET of a network's connection requests against imports that replace them |
| `MCResponseCache`, `ResponseCacheProofs` | its instance, and theorems about it |
| `ConnectionsImport` | `import_unified`: the requests and scenarios of one network replaced, statement by statement, by several importers at a time |
| `MCConnectionsImport` | its instance: two buses with a position and one without, four documents |
| `ConnectionsImportProofs` | theorems about `ConnectionsImport` |
| `StartupImport` | the start-up script: directories, networks, subsystems, geodata, sheets, the commits between them and the session they share |
| `MCStartupImport` | its instance: 21 kinds of directory |
| `StartupImportProofs` | theorems about its records and sessions: whose network a commit changes |
| `StartupRowsProofs` | theorems about its rows: foreign keys, positions, what a complete import has in it |
| `ScenarioView` | the front end: which network, scenario, headroom and requests a browser shows, and which scenarios it subscribes to |
| `MCScenarioView` | its instance: two networks, three scenarios, one request |
| `ScenarioViewProofs` | theorems about `ScenarioView` |

### ScenarioCalculation

State: `life`, `status`, `taskId`, `headroom` are the rows of one network's
scenarios (the rows of `scenario_bus_headrooms` are represented by whose result
they are: the id of a task, or `Upload` for a PATCH; a result is a non-empty
list). `backend` is the result backend. `ready[t][r]` counts the queued messages
of attempt `r` of task `t`, `revoking` and `revoked` are the revocation broadcast
and what the worker remembers of it. `worker[w]` and `client[c]` are the
processes of the pool and the API requests in progress with their local
variables; `pc` is the next step. `saved` and `settled` are history variables.

Steps: a handler is cut at each point where another process can interleave.

* `calculate_scenario`: `CalculateRead` (the row and the 409 check, views.py
  191-206), `CalculateDelay` (208-209), `CalculateReadState` (`task.state`, 215),
  `CalculateCommit` (212-217).
* `patch_scenario_headroom`: `UploadBegin` up to the DELETE (the rows it sees are
  `seen`), `UploadCommit`.
* `remove_scenario`: `RemoveRead`, `RemoveCommit`, which deletes nothing when the
  request carries another network's id.
* import: `ImportRevoke`, `ImportDelete` (which chooses the scenarios),
  `ImportCommit` (or rollback), where others see them gone.
* `import_subsystems`: `ReplaceBuses`; the headroom goes with the buses (ON DELETE
  CASCADE), and a save under way then fails on its foreign keys (`linked`).
* the task: `Receive`, `PrerunRead`, `PrerunWrite`, `StoreStarted`, `Progress`,
  `SaveBegin`, `SaveCommit`, `MarkDone`, `PostrunRead`, `PostrunWrite`,
  `Acknowledge`; errors go by `RunRefused` (RuntimeError), `PublishRetry` and
  `StoreRetry` (any other, once), `RetriesExhausted` and `StoreFailure`.
* faults, at most `MaxFaults`: a process lost, the worker restarted, a message
  redelivered while held, a signal handler without database, a request lost.

What celery, kombu and redis do is modelled from how the code configures and
calls them (celeryconfig.py, celeryapp.py): the message is acknowledged after the
task, a message of a lost process is requeued, a stored SUCCESS is not
overwritten, a revoked task is terminated without signals.

### TaskLedger

`entry[t]` is new, owed, failed or succeeded, `owner[t]` the scenario it was
accepted for and `kept` the scenarios results were committed for. A task succeeds
only when its scenario has results and stays so; a failure (or a revocation) may
be followed by a success, since a redelivered message is executed again.
`ScenarioCalculation` implements it with `entry <- LedgerEntry`, which reads the
result backend: SUCCESS is succeeded, another state failed once a ready one was
stored, else owed.

### CalculationHistory

Adds three records. `disturbed`: the scenarios with which something interfered,
that is two requests to calculate or upload overlapped, an upload ran beside a
calculation, a task was revoked, a fault had another process execute a task that
was under way or had saved, or lost a request that had queued one. `rivals`: the
scenarios two saves of which were between DELETE and commit at a time. `newest`:
what was accepted last. The properties say of a scenario that is not in the
record what the code does not keep of one that is, under every other request,
retry and fault. Of one that is, it is easily false: two requests read a row
before either writes its id, and both queue a task (views.py:202-217); two saves
see the same rows, delete them and add their own, and a bus has two
(headroom/service.py:33-60).

### ProgressFeed

State: `meta` is the result backend, `wire` what it has published and the monitor
has not read, `named` and `pending` what the rows say of the tasks
(`solver_task_id`, and whether `solver_task_status` is a ready state). The
lifecycle is reduced to what the feed can see of it: SUCCESS is final and any
other state may follow any other, as a message may be delivered twice and a retry
may overlap what it retries (`Follows`), and the row may become ready before or after
the state is stored (`RowReady`), since the two are written by different steps
of `ScenarioCalculation`. `socket[h]` is the handler of one websocket: its
`scenario_ids` (`ids`), its `ongoing_tasks_map` (`ongoing`: `Unknown` is no key,
`Nobody` is the value None), its queue in the hub, and where its two coroutines
are. `heard` is a history of what the browser was sent.

Steps: the consumer is cut at the awaits of `_update_ongoing_tasks_map`
(`Subscribe`, `ConsumerMaps`, `ConsumerReads`, `ConsumerPuts`), the producer at
its own (`ProducerLooksUp`, `ProducerMaps`, `ProducerReads`, where a state in redis
that cannot be parsed costs the message, `ProducerMatches`; `ProducerSends` when
nothing has to be looked up). A query's answer is fixed when the query
starts. Both use one `AsyncSession`: the second execute raises, which ends the
consumer, and with it the websocket, and costs the producer its message. The hub
puts one object into all queues and a producer writes the scenario it has found
into it (`Match`), so the others find it there. `Publish` needs a subscriber;
`MonitorEnds` has no way back.

### ResponseCache

State: `stamp` is the committed max(updated_at) of a network's requests and
`version` counts what was committed; `redis[k]` is the version cached under the
key of stamp `k`; `browser[b]` is a client's request under way and its own
cached copy. An import purges (`Purge`), flushes rows with newer and newer
stamps (`Insert`) and commits more than once: `get_or_create` commits its session
whenever it adds a row of reference data (`GetOrCreate`). `Rollback` leaves what
was committed. A request reads the stamp (`Request`, or `Revalidate` when it is
the client's own tag), asks redis (`Hit`, `Miss`), computes in another statement
(`Compute`) and stores under the key it read before (`Set`).

`Fresh` is about networks with requests. The tag of a network without any comes
back with every purge, and a response computed between two commits of an import
may be stored under it: with `Empty` included the property does not hold. It
does not hold either when imports of one network overlap: the stamps of the one
that commits last may be the older ones. Both are listed as hazards.

### ConnectionsImport

State: `rows` are the committed connection requests and scenarios of one network,
`refs[r]` how many rows of reference data `r` (a user, an organisation, a place)
are committed, `default` the network's default scenario. `elsewhere` are the rows of reference
data that a `get_or_create` of somebody else has missed and not committed: a user
who creates a scenario (scenarios/views.py:88) or an import of another network
(`OtherSelects`, `OtherCreates`); `raced` is a history of the rows that two had
missed at a time. `session[i]` is one call of `import_unified` with its transaction: `dropped` and `flushed` are what it has
changed and not committed, `added` what it has added and not flushed, `snap` the
rows its DELETE has started with, `known` what `get_or_create_cached` remembers,
`stale` the buses whose objects a commit has expired. `before`, `alone` and `made`
are history for the properties.

A session is a READ COMMITTED transaction. A statement sees what is committed
when it starts (`Visible`). A DELETE is cut in two, its snapshot and its end
(`Dropped`), because it waits for rows another session holds and then passes
over what is gone; an INSERT waits for a unique key another session holds
((`MustWait`) and raises when it is there (`KeyTaken`). Steps: `Begin` (with the
area check, which raises before anything is touched), `PurgeScenarios`,
`PurgeRequests`, `Purged`; per request `Locate`, `RefKnown`, `RefSelect` and
`RefCreate` for each of its reference rows, `AddRequest`; `FlushRequests`; per
scenario `Link`, the author's reference row, `AddScenario`; `Finish`. `RefCreate`
commits the whole session, as `get_or_create` does. After that the objects of an
API session are expired (`AsyncSession(bind=...)` has the default
`expire_on_commit`; the script passes False), and reading an attribute of one
outside of a database call raises: `LocateRaises` (the number of a bus that is
looked for, or the name of the nearest one in the warning that it is too far),
`NetUnreadable`. How far the `next(...)` over the buses reads is left open, as the
SELECT has no order. A request whose `extra` has no coordinates raises after its
reference data (`AddRaises`).

Two things the code does are described here and claimed by no property. The
default is read with the network and the DELETE comes later, so a PATCH in
between makes a scenario the default that the DELETE takes
(service_imports.py:91); `DefaultSurvives` speaks of a default all open imports
have read. The project ids of a scenario are looked up in all networks
(service_imports.py:248), so a request of another one may be linked (`Abroad`);
`SuccessReplaces` counts it among what a scenario names.

### StartupImport

State: `files[d]` is what directory `d` holds and `newer` the networks whose
files were written after their creation; `case`, `default`, `created` are the
networks' records, `case[n]` being the name of the directory with the case_name
its configuration had; `db[n]` the committed rows of network `n` and `view[n]` the
same as the script's session has them; `broken` says that a flush has failed and
the session refuses every call. A row of a line names the buses at its ends by
key: the number and the start it was inserted in, so that a line to a bus that
has been replaced would be seen; a scenario is its code and the start. `had` are
the default scenarios the network had since its import began: the script's object
of it is not expired, and may have any of them when the scenarios are deleted.

Steps: one per commit. `Start` and `Stop`; per directory `LoadMetadata`,
`FindNetwork` or `CreateNetwork`, `InsertBuses` (the DELETE, with its cascades,
and the new buses), `InsertLines` for branches, trafos and 3-winding trafos,
`DrawLines` (geodata), `ImportRequests`. An exception inside a part leaves what
the part has done so far in the session (`Raises`), where the next commit of
another directory takes it along; an exception in a flush loses it and breaks
the session (`Breaks`). Between starts the files change (`Modify`); at any time
a user may send a configuration (`UpdateNetwork`) or the container stop (`Crash`).

The sheet is modelled by what decides which requests are imported: a blank cell
in a column of numbers turns all of them into floating point numbers (`AsFloats`,
`NodeId`), one cell that does not fit or one blank cell of a scenario raises for
the whole sheet (`Converts`), and with `fake_coords_distance` a request at a bus
without position may be left without coordinates, which raises at its H3 index
(`risky`). The default scenario survives the DELETE (`Kept`), so its code, like a
code that is twice in the sheet or a project that is twice at a bus, breaks the
session (`Clashes`).

Files may fit their schemas and not be importable: a geometry is a Point or a
LineString whatever its feature is of, and says of itself what it is
(`Feature`), so the column of a bus or a branch may refuse it at the flush
(`FitsBus`, `FitsLine`) and a branch of one position has no end to take
(`Endless`); a winding number written as an integer is not converted to text and
its query raises (`Lookup`). The configuration's case_name may change, and then
the directory is of another network (`CaseOf`, `Existing`); only the times of the
subsystems' and geodata's files make a network older than its files (`Modify`).

### ScenarioView

State: `ui` is the React state that the components share, with `details`,
`headroom`, `current` and `prev` represented by the scenario they are of;
`fresh` says which of the objects and arrays among the dependencies were replaced
since the last render, `seen` what the effects last saw of the others. `flight` is
the bag of requests the API has not answered, `socket` and `subscribed` the
websocket and what the server was last sent over it.

Steps: an event sets state; `Render` is a render with the effects after it, all
of them in their order on the rendered state (`After`, `NewRequests`), until
nothing has changed (`Settled`). Answers (`NetworksArrive`, `DetailsArrive`,
`ListArrives`, `CreationArrives`, `DeletionArrives`, `Fails`) come in any order,
also between two renders: no request is cancelled and no answer compared with
what is selected by then. The websocket and the user act when all has come to
rest. A change of the settings and the list of networks after it are one request
here.

What the properties leave out, because the code does not keep it: when the
answers of two selections cross, or the newest fails, the details shown are not
the selected scenario's, and requests of another one stay selected (`crossed`:
`late` or `failed`); headroom and current requests stay when the
details become null, as in a network without default scenario; the list asked for
after a deletion is that of the network the deletion was asked in, and a row of
it that is selected loses its details with the next change of network
(`strayed`); an address without `netId` stays so when the user goes back to it
and selects the network shown last; a websocket that has closed is not replaced
(useScenarioProgress.ts:79 looks at the one that failed), and one that has opened
is sent nothing before the next render.

## 3. Runs

| Run | Instance | Shows |
|---|---|---|
| `calculation_requests` | 2 scenarios (one the default), 1 task, 1 process, 2 requests at a time of every kind, new buses, no fault | `TypeOK` with every request interleaved with every other and with the worker |
| `calculation_history` | 1 scenario, 2 tasks, 2 processes, 2 clients that calculate and upload, 1 fault | `OneCalculationAtATime`, `NewestResultShown` of a scenario nothing has interfered with; `OneHeadroomUnlessRivals`: saves that do not overlap leave one set of results, wherever a process dies or a message comes again |
| `calculation_liveness` | 1 scenario, 1 task, 2 processes, 2 faults, fair | `SuccessWasSaved`, `NoTaskLost` and the ledger with its liveness: two faults are what it takes to have two executions of one task, one of them interrupted |
| `finished_before_commit` | 1 scenario, 1 task | expected violation of `PendingIsPending` |
| `progress_feed` | 1 scenario, 1 task of 4 states with an unreadable exception, 1 websocket, 2 subscriptions, fair | `TypeOK`, `SuccessIsHeard`, `LeavesTheHub` |
| `failure_unheard` | 1 scenario, 1 task, 1 websocket, fair | expected violation of `FailureIsHeard` |
| `response_cache` | 2 clients, 2 stamps | `TypeOK`, `Fresh` |
| `connections_import` | 2 importers (one API, one script) beside somebody who adds users, 4 documents, 2 imports, 1 cut short, any default | what 201 means (`SuccessReplaces`), what a failure leaves (`FailureKeepsOld`), `DefaultSurvives`, `DuplicatesNeedARace`, `TypeOK` |
| `import_half_done` | the same, 1 importer with an API session, 2 imports, none cut short | expected violation of `FailureReplacesNothing` |
| `startup_import` | 2 directories, one of 21 kinds and one of 4, 3 networks, 2 starts, 2 changes, 1 crash | `ImportedIsWhole`, also of a network with a default scenario that is imported again, `OneNetworkPerCase`, `DrawnBranchesAreLocated`, `OnlyUnfinishedChange`, `FineDirectoryImported`, `TypeOK` |
| `refused_half_done` | 2 directories, 2 starts, no change, no crash | expected violation of `RefusedIsWhole` |
| `scenario_view` | 2 networks, 3 scenarios, 1 request, 3 clicks, the tab of the scenarios open or not, any address | at rest: the headroom and the selected requests are those of the details (`DetailsAreShown`), the details are the selected scenario's (`SelectedIsShown`) and nothing is selected but its requests and what was ticked (`NothingLeftSelected`), both unless answers are missing, crossed or failed, the address is that of the network (`AddressFollows`), the server knows the list (`SubscribedToList`); and it does come to rest (`ComesToRest`) |

Each expected violation is a finding of `PROJECT.json`, with the line of the
repository it contradicts. `calculation_history` stops at
states in which its one scenario is disturbed and both tasks are used, or two of
its saves have overlapped (the constraint `Explored`): what is claimed of it ends
there, but for `OneHeadroomUnlessRivals` beyond a second task, which the theorem
covers, as it does the other kinds of request. `remove` and `import` are left out of that
run, as all they can do to a scenario that is kept is to revoke its task, which
disturbs it: with the id of another network `remove_scenario` revokes the task
and keeps the row, an import revokes the task of the default scenario and keeps
its row (service_imports.py:86). The row then goes on saying PENDING; no line of
the repository says that it should not.

Bounds of `ScenarioCalculation`: the sets above and `MaxFaults`; `MaxRetries` is
the code's own value. Nothing else is bounded: `ready` counts only what was published, and a task can
be published once per attempt and once more per fault. Deadlock is not checked:
when the tasks of the instance are used up and all is acknowledged the system
rests.

Bounds of `ProgressFeed`: `MaxReports` states of a task (4 are a start, a retry,
a second start and an end) and `MaxAsked` subscriptions of one websocket (2: the
second one replaces a tasks map that may be in use). A browser may come back any
number of times. Deadlock is not checked for the same reason as above. Bound of
`ResponseCache`: `MaxClock` stamps; 2 give a tag that is replaced while a
request that has read it is under way, and by the theorem more add nothing.

Bounds of `ConnectionsImport`: `MaxImports` 2 (two at a time, or one after the
other) and `MaxCrashes`. The documents have at most two requests, one scenario
and two reference rows each: enough for a row flushed before a commit and one
after it, a duplicate, a request that finds no bus, one placed by distance, a
scenario that has the default's code. The tables begin with a request and a
scenario, which may be the default, the reference tables empty or with a user
twice; only users are added by others (`Shared`). Bounds of `StartupImport`: `MaxNetworks` 3 (one more than directories, so
that a second network of a case would be possible), `MaxStarts` 2, `MaxCrashes` 1,
`MaxChanges` 2, which counts both changes of files and PATCH requests: a second
import over a default scenario takes a PATCH that sets it and a change of the
files. A directory is changed to one of 4 kinds (`Rewritten`), and one of the two
is of these 4 at any time (the constraint `OneIsPlain`): every kind meets one that
is imported, one that fails half-way, one of another case_name and one of another
grid. The theorems do not depend on
the bounds. The files of a directory change only while no
start is under way, as they are part of the container's volume. Directories are
symmetric. Deadlock is not checked in either: the imports end.

Bounds of `ScenarioView`: `MaxClicks` 3 (a change of network, of scenario and one
way back, or the two selections whose answers cross and one more) and
`MaxRenders` 4, which is not a bound of the model but what `ComesToRest` claims;
3 are not enough when the address names no network. One scenario has a request
and two have none; one of the networks has a default scenario. Deadlock is not
checked: a user may stop.

Fairness of `ScenarioCalculation` (`FairSpec`): a request that was begun goes on (the event loop is fair
to its coroutines), a process of the pool takes its next step (`WorkerContinues`
does not contain `Progress`, so a calculation ends rather than reporting for
ever: the generator of `calc_headroom` is over a finite list of buses), and a
queued message is eventually delivered. No request and no revocation has to
come. Faults are not fair and bounded.

Fairness of `ProgressFeed`: the monitor polls while it lives and somebody listens
(`Publish`), and the event loop goes on with the coroutines and the handler of
every websocket. Calculations, browsers and `MonitorEnds` are not fair;
`SuccessIsHeard` is claimed of a browser that goes on watching while the monitor
lives.

## 4. Proofs

`ScenarioCalculationProofs` proves, for all values of the constants that meet
the named assumptions (ids are distinct from their null values, the pool is
finite, `Requests` are known kinds, `MaxFaults` is a number):

* `TypeCorrect`: `Spec => []TypeOK`
* `SuccessWasSavedAlways`: `Spec => []SuccessWasSaved`
* `NoTaskLostAlways`: `Spec => []NoTaskLost`

The argument. None of the properties is inductive alone.

1. `TypeOK` needs to know that whoever executes, revokes or holds a message of a
   task refers to one that was queued. `Wiring` says so of each holder of a
   reference (`MessagesWired`, `RevokesWired`, `SettledWired`, `WorkersWired`,
   `ClientsWired`, `RowsWired`), and `TypeOK /\ Wiring` is inductive.
2. `SuccessWasSaved`: a row's SUCCESS may come from a state that a worker or a
   request read some time ago from the backend. `SavedInv` follows the value
   back: rows, backend, and what workers (`WorkersSaved`) and requests
   (`ClientsSaved`) remember; a worker about to mark its task done has saved.
3. `NoTaskLost`: an acknowledgement drops a message, so `NoneLostByAck` says that
   from `storeRetry` on the task is settled or this is the first attempt and the
   second is outstanding. `LostRules` reduces each action to what it keeps
   outstanding (`Kept`).

`ResponseCacheProofs` proves, for any set of browsers and any `MaxClock` in Nat:

* `CacheTypeCorrect`: `Spec => []TypeOK`
* `FreshAlways`: `Spec => []Fresh`

The argument: every tag in use was given by the clock (`Given`) and what an
import is about to commit has one nobody has seen (`NewTag`), so a tag that stops
being current never is again. What there is under the current tag is of the
current version (`Current`), and what a request under way finds under its key is
not older than when it read it (`InFlight`): the moment the key is read precedes
the one the response is computed at. `Inv` is the conjunction; `Due` is what
both ways to respond have in common.

`ProgressFeedProofs` proves, for any number of scenarios, websockets, reports and
subscriptions and finitely many tasks:

* `FeedTypeCorrect`: `Spec => []TypeOK`

The argument. The messages a producer or a consumer holds are of tasks, and the
tasks map of a websocket says of a task its own scenario, or that it is unknown
or nobody's (`Sound`, in `FeedInv`), although an answer that is merged may belong
to a query made before the last subscription. Assumptions used: `TasksAssumption`
(the answers of redis make a finite sequence), `ScenarioOfAssumption`,
`NamesAssumption` and the bounds. That a task's end is heard is liveness and
left to TLC.

`StartupImportProofs` proves, for any directories and files, any number of
networks, starts, changes and crashes:

* `OneNetworkPerCaseAlways`: `Spec => []OneNetworkPerCase`
* `OnlyUnfinishedChangeAlways`: `Spec => OnlyUnfinishedChange`

The argument. The first needs only the records: networks are created in order,
those beyond `created` have no case_name, and a case_name once given is kept
(`CaseAfter`), whatever the directories are called by then. The second needs to
know what the shared session may hold: where `view` and `db` differ, a directory
of the network's case_name is under way or has failed in this start (`SessionInv`, together with what the place of the script
says of `net` and `outcome`), so whichever commit takes it along changes no
finished network. Every action that writes rows writes those of `net` only
(`NetStep`).

`StartupRowsProofs` proves of the rows, for the same constants and files of any
length:

* `TypeCorrect`: `Spec => []TypeOK`, with the foreign keys (`Closed`): a line ends
  at buses, a request is at a bus of its own network, at any commit;
* `DrawnBranchesAreLocatedAlways`: `Spec => []DrawnBranchesAreLocated`
* `ImportedIsWholeAlways`: `Spec => []ImportedIsWhole`
* `FineDirectoryImportedAlways`: `Spec => FineDirectoryImported`

The argument. `RowsInv` says of every network, in the tables and in the session,
that its rows are `Sound`: closed under their keys, and a branch that is drawn ends
at buses on the map. It has to speak of the session too, since an exception
leaves half of a part there and another directory's commit brings it to the
tables. It needs the records' invariants (`CasesInv`, `SessionInv`), and one fact
of the code: the DELETE of the buses takes every line and request along, so an
import begins with buses and nothing else (`OnlyBuses`). `StageInv` says what the
directory under way has at each place of the script (`Stage`: the buses of its
files, the kinds of line inserted so far, their ends, after the geodata the
positions, and the scenarios the DELETE has left); at the end of the last part that is `Whole`, and by
`OnlyUnfinishedChange` no later commit touches it. `FineInv` is about outcomes: a
directory that is done with was answered, or is not fine, or the session is
broken. That a number is found by `First` rests on the least element of a set of
numbers (`Least`, from the well-foundedness of Nat in the library).

`ConnectionsImportProofs` proves, for any documents, buses, tables and reference
rows at the start, any number of importers, imports and crashes:

* `FailureKeepsOldAlways`: `Spec => FailureKeepsOld`
* `DuplicatesNeedARaceAlways`: `Spec => DuplicatesNeedARace`
* `DefaultSurvivesAlways`: `Spec => DefaultSurvives`
* `TypeCorrect`: `Spec => []TypeOK`
* `SuccessReplacesAlways`: `Spec => SuccessReplaces`

The argument. A step of an importer leaves the tables alone (`Quiet`), or finds
that a reference row is missing (`Misses`), or commits (`Commits`): lemma
`Kinds`, one case per action. The first theorem says what an import may rely on
that was alone from its beginning, and rests on `AloneInv`: of two open imports
neither is alone, since `Begin` ends the loneliness of the others; so only its
own commits can have changed the tables under a lonely import, and it commits
early nowhere but where it adds a reference row. Hence its rows are those of its
beginning until then (`Unchanged`). The second rests on `RaceInv`: a row that
somebody has missed, and nobody else beside him, is missing still; whoever adds
one that is there has therefore had company. The third rests on
`DefaultInv`: what an import deletes, or has begun to delete, never has in it
the default it has read, so the default can only be lost to an import that has
read another one, and that is the case `DefaultSurvives` excludes.

`TypeCorrect` is `TypesInv`, with the place of each session in its document; the
foreign key of the default holds because a commit looks at it (`CommitTables`).
`SuccessReplacesAlways` rests on `ProgressInv`: if an import that is alone
committed now, the tables would hold the scenario it keeps and the rows of the
part of its document it has been through, each request at a bus it may have
(`RequestsAre`), each scenario linked to those of its names that there are
(`LinksFor`). A commit of `get_or_create` in the middle moves rows from the
session to the tables and changes nothing of that sum (`Mine`). `AloneInv` keeps
the others away; `FreshInv` says that no row is of an import that has not begun,
so what it inserts is not there already and its rows can be told from those of
before. At the end the sum is the tables, and `Replaces` is what the API shows of
it. Assumptions: `OldRefsAssumption`, and `OldRowsAssumption`, that the rows of the
beginning are requests and scenarios of no import of the model.

`CalculationHistoryProofs` proves of the calculation service, for the same
constants as `ScenarioCalculationProofs`:

* `ImplementsLedgerSafely`: `Spec => Ledger!Spec`
* `OneHeadroomUnlessRivalsAlways`: `HistorySpec => []OneHeadroomUnlessRivals`

The ledger: each action leaves the ledger alone, accepts a task, keeps results or
stores a state of a queued task, SUCCESS only of one whose scenario has results
(`LedgerKind`, one case per action). The last is where `SavedInv` is needed, and
that a success is not taken back rests on what celery stores (`Store`).

The headroom: `SavesAlone` says of a scenario without rivals that whoever is
between DELETE and commit, a process or a request, has seen all the rows there
are, and that there is one writer's at most. A commit by anybody else in between
would add rows it has not seen, and that is an overlap of two saves; so the
invariant `AloneInv` is kept by every step, through deletions, new buses, faults
and the end of a process in the middle of its save.

`ScenarioViewProofs` proves of the front end, for any networks, scenarios,
requests, pages, defaults and clicks:

* `TypeCorrect`, `DetailsShown`, `NothingLeft`, `AddressIsFollowed`, `SelectedShown`,
  `Subscribed`: `Spec => []P` for `TypeOK`, `DetailsAreShown`, `NothingLeftSelected`,
  `AddressFollows`, `SelectedIsShown`, `SubscribedToList`
* `RestsSoon`: `Spec => []ComesToRest`, if `MaxRenders >= 4`

The argument. The properties speak of the view at rest and say nothing in
between, so none is inductive. `Inv` says at every moment which effect is still due
to set right what is not right yet: the address, or the effect of the network or
of the address (`AddressInv`); the headroom, or the effect of the details
(`DetailsInv`); the selection, where the requests of the scenario before are still
in it while the effect of the current ones is due (`SelectionInv`; with the
details at rest those of the selected scenario, that is `NothingLeft`); the details, or
an answer or the effect of the scenario (`ShownInv`, with `HomeInv` for the network
a selected scenario is of); the subscription, or the effect of the list
(`SocketInv`). At rest nothing is due (`AtRest`). `RestsSoon` says what can still be
due after one, two and three renders (`RestInv`); a fourth is needed only before
the first effects, when the address and the network are exchanged for one
another, and after it nothing is due. Fewer than four would be wrong, TLC shows
that with 3.

Only model-checked: liveness, which is out of the prover's reach (the second half
of `ImplementsLedger`, that every task is settled at last; `SuccessIsHeard`;
`LeavesTheHub`), and of the safety properties `OneCalculationAtATime` and
`NewestResultShown`, whose inductive invariants would have to follow the status
of a row through every writer under faults. Every other property of a passing run
is a theorem. The expected violations are TLC's alone.

## 5. Not modelled

`solver_task_status_reason` (text for display), the values in a headroom, the
expiry of results after a day, authentication (keycloak decides), SQL filters, map
rendering, the generated API client, migrations, `wait_for_db`. `ProgressFeed`
leaves out the text and the counters of a message, `ResponseCache` the filters and
pages (one URL stands for each), and the empty response that is sent under the
tag of a full one when its serialisation fails (cache/dependencies.py:105-120). `ConnectionsImport` leaves out the attributes of
a request that no key or link depends on, and the export endpoints, which read
only, and scenarios that users create or remove in the network while it is
imported, which would count as interference like another import of it;
`ThreadSafeCacheable` never waits, as one import awaits one row at a time.
`ScenarioCalculation` leaves out the 409 for a solver backend that does not run
unattended (scenarios/views.py:196), which changes nothing.
`StartupImport` has only geodata features with at least one coordinate, as GeoJSON
asks of a LineString (`Coordinates`; the schemas would take an empty list). It
leaves out loads and generators, which are read and not stored, scenarios that
users create or remove between the starts, and the interleaving of its statements with an API's, which is
`ConnectionsImport`'s. The conversion of a sheet's other columns (units, phases,
administrative areas) is a table lookup per cell. `ScenarioView` leaves out what
only the map reads (GeoJSON sources, warnings, the picked element), pages, filters
and tables but for the rows that can be ticked, setters that nothing here reads
(the renders `ComesToRest` counts are those after a state that is modelled), and the tree that takes requests with warnings out of a selection.

Defects of single functions that reading the code shows and no sequence of steps
is needed for: a trafo with a feature of its own is drawn along the last branch
the loop before it has looked at (networks/service.py:307; `DrawLines` does the
same, and `FineDirectoryImported` leaves such directories out); the names of a
scenario's requests keep the spaces after their commas, and priorities are read
from a column `priotrity` (xlsx_importer.py:342, 373); `Trafo3w.to_dict` writes
all windings to one key (networks/models.py:253); a request is exported with the
id of its row and a scenario with project_ids (connections/schemas.py:92,
scenarios/schemas.py:48), so a document that is exported and imported again has
scenarios without requests.

## 6. Plan

What is left, in this order:

1. `ScenarioView` composed with `ProgressFeed` (what a page shows of a
   calculation).
2. Stamps in `ConnectionsImport`, so that `ResponseCache` can be composed with
   imports that overlap.
3. Proofs: `OneCalculationAtATime` and `NewestResultShown` of `CalculationHistory`,
   and the safety that `SuccessIsHeard` rests on.

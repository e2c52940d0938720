------------------------- MODULE ConnectionsImport -------------------------
(***************************************************************************)
(* import_unified of datadump/service_imports.py: the connection requests  *)
(* and scenarios of one network are replaced by those of a document, by    *)
(* several importers (the PUT endpoint, the start-up script) at a time.    *)
(*                                                                         *)
(* A session is a READ COMMITTED transaction: a statement sees the rows    *)
(* committed when it starts, waits for a row, or for a unique key, that    *)
(* another session has changed, and get_or_create commits the session      *)
(* whenever it adds a row of reference data.  The sessions of the API      *)
(* expire their objects at a commit (dependencies.py passes the default    *)
(* expire_on_commit), and an expired attribute cannot be read outside of a *)
(* database call: the import raises there.                                 *)
(***************************************************************************)
EXTENDS Integers, Sequences

CONSTANTS
  Importers,    (* callers of import_unified                                *)
  Api,          (* those of them whose session expires its objects          *)
  Payloads,     (* documents, see Payload                                   *)
  Refs,         (* rows of reference data: organisations, users, geo        *)
  Shared,       (* those of them that others than these importers add too   *)
  BusAt,        (* [numbers of the network's buses -> coordinate]           *)
  NoNode,       (* no connectivityNode.id in a request                      *)
  OldRows,      (* rows of the network's tables at the start                *)
  OldRefs,      (* and what the reference tables may hold                   *)
  Abroad,       (* requests of other networks                               *)
  NoScenario,   (* no default scenario                                      *)
  MaxImports,   (* bound on the imports                                     *)
  MaxCrashes    (* bound on the imports cut short from outside              *)

ASSUME ImportersAssumption == Api \subseteq Importers
ASSUME SharedAssumption == Shared \subseteq Refs
ASSUME BoundsAssumption == MaxImports \in Nat /\ MaxCrashes \in Nat
ASSUME NoNodeAssumption == NoNode \notin DOMAIN BusAt
ASSUME OldRefsAssumption == OldRefs \subseteq [Refs -> Nat]

(* Every row is a request's or a scenario's; from and ix make its id, from *)
(* is 0 in those that no import has brought, and in the ones they link to. *)
IsRow(r) ==
  /\ r = [kind |-> r.kind, key |-> r.key, from |-> r.from, ix |-> r.ix, links |-> r.links]
  /\ r.kind \in {"request", "scenario"}
  /\ r.from \in Nat
ASSUME OldRowsAssumption ==
  \A r \in OldRows : IsRow(r) /\ r.from = 0 /\ \A q \in r.links : q.from = 0

(* A coordinate stands for a position; 0 is none.                          *)
Buses == DOMAIN BusAt
Located == {b \in Buses : BusAt[b] # 0}

(* A row of connection_requests or of scenarios.  key is what the table    *)
(* declares unique; links are the requests of a scenario: a deleted        *)
(* request takes its rows of scenario_requests_m2m along, so the present   *)
(* ones count.                                                             *)
RequestRow(project, bus, from, ix) ==
  [kind |-> "request", key |-> <<project, bus>>, from |-> from, ix |-> ix,
   links |-> {}]
ScenarioRow(code, from, ix, links) ==
  [kind |-> "scenario", key |-> <<code>>, from |-> from, ix |-> ix,
   links |-> links]

VARIABLES
  rows,       (* committed rows of the network's requests and scenarios     *)
  refs,       (* [Refs -> Nat]: committed rows of reference data            *)
  default,    (* the network's default scenario                             *)
  imports,    (* imports begun                                              *)
  crashes,
  session,    (* [Importers -> SessionState]                                *)
  elsewhere,  (* rows of reference data another get_or_create has missed    *)
  raced       (* history: rows of reference data two have missed at a time  *)

tables == <<rows, refs, default>>
vars == <<rows, refs, default, imports, crashes, session, elsewhere, raced>>

Requests(set) == {r \in set : r.kind = "request"}
Scenarios(set) == {r \in set : r.kind = "scenario"}

(* What an import has in its hands: default is the default scenario as it  *)
(* has read the network, snap the rows its DELETE has started with, ix and *)
(* ref the request or scenario and the reference row it is at, known the   *)
(* reference rows it keeps (get_or_create_cached), stale the buses whose   *)
(* objects are expired.  before, alone and made are history: the rows at   *)
(* its beginning, whether no other import was open since, whether it has   *)
(* committed a reference row.                                              *)
Idle == [pc |-> "idle", payload |-> NoNode, number |-> 0, default |-> NoScenario,
         snap |-> {}, dropped |-> {}, added |-> {}, flushed |-> {},
         ix |-> 1, ref |-> 1, links |-> {}, known |-> {}, stale |-> {},
         before |-> {}, alone |-> TRUE, made |-> FALSE]

Open(i) == session[i].pc \notin {"idle", "done", "failed"}

Init ==
  /\ rows = OldRows
  /\ refs \in OldRefs
  /\ default \in Scenarios(OldRows) \cup {NoScenario}
  /\ imports = 0
  /\ crashes = 0
  /\ session = [i \in Importers |-> Idle]
  /\ elsewhere = {}
  /\ raced = {}

-----------------------------------------------------------------------------
(* The session of importer i as a transaction.                             *)

Visible(i) == (rows \ session[i].dropped) \cup session[i].flushed

(* The rows and keys another open session holds. *)
Held(i) ==
  UNION {session[j].dropped \cup session[j].flushed : j \in {k \in Importers \ {i} : Open(k)}}

(* flush() of what was added: it waits for a key that is held, and raises  *)
(* IntegrityError when the key is there.                                   *)
MustWait(i) ==
  \E r \in session[i].added, q \in Held(i) : r.kind = q.kind /\ r.key = q.key
KeyTaken(i) ==
  \E r \in session[i].added :
    \E q \in (Visible(i) \cup session[i].added) \ {r} : r.kind = q.kind /\ r.key = q.key
CanFlush(i) == ~MustWait(i) /\ ~KeyTaken(i)

(* A flushed request loads its bus again, if that is expired. *)
Flushed(i) ==
  [session[i] EXCEPT
     !.flushed = @ \cup session[i].added, !.added = {},
     !.stale = @ \ {r.key[2] : r \in Requests(session[i].added)}]

(* The same, wrong on purpose: the network keeps the scenario's id. *)
CommitDangling(s) ==
  /\ rows' = (rows \ s.dropped) \cup s.flushed
  /\ default' = default

(* Everything the session has changed, s being what it is after a flush;   *)
(* scenarios.id is ON DELETE SET NULL in networks.                         *)
CommitTables(s) ==
  /\ rows' = (rows \ s.dropped) \cup s.flushed
  /\ default' = IF default \in s.dropped THEN NoScenario ELSE default

Committed(i, s) ==
  [s EXCEPT !.dropped = {}, !.flushed = {},
            !.stale = IF i \in Api THEN Buses ELSE {}]

(* The reference row asked for next: of a request, or a scenario's author. *)
Item(i) == session[i].payload.requests[session[i].ix]
Scenario(i) == session[i].payload.scenarios[session[i].ix]
RefsOf(i) ==
  IF session[i].pc \in {"author", "createAuthor"} THEN <<Scenario(i).author>> ELSE Item(i).refs
NextRef(i) == RefsOf(i)[session[i].ref]

(* A row is missing to somebody from the SELECT of a get_or_create to its  *)
(* commit (helpers.py:8-13); it is raced for when to two at a time, until  *)
(* the last of them has committed.                                         *)
HasMissed(i, r) == session[i].pc \in {"createRef", "createAuthor"} /\ NextRef(i) = r
Missed(r) == r \in elsewhere \/ \E i \in Importers : HasMissed(i, r)
MissedTwice(r) ==
  \/ r \in elsewhere /\ \E i \in Importers : HasMissed(i, r)
  \/ \E i, j \in Importers : i # j /\ HasMissed(i, r) /\ HasMissed(j, r)
Races == raced' = {r \in Refs : Missed(r)' /\ (r \in raced \/ MissedTwice(r)')}

(* The rest of the importer's session becomes s. *)
Becomes(i, s) ==
  /\ session' = [session EXCEPT ![i] = s]
  /\ UNCHANGED elsewhere
  /\ Races
Local == UNCHANGED <<rows, refs, default, imports, crashes>>

(* An exception leaves import_unified: the session is closed, what it has  *)
(* not committed is lost.                                                  *)
Fail(i) == Becomes(i, [session[i] EXCEPT !.pc = "failed"]) /\ Local

-----------------------------------------------------------------------------
(* Step 1: the purge.                                                      *)

(* The buses must span an area, _get_h3_resolution divides it in clusters; *)
(* an import of another network raises here and changes nothing.           *)
SpansArea == \E b, c \in Located : BusAt[b] # BusAt[c]

Begin(i) ==
  /\ ~Open(i)
  /\ imports < MaxImports
  /\ SpansArea
  /\ imports' = imports + 1
  /\ LET others == {j \in Importers \ {i} : Open(j)} IN
     \E p \in {q \in Payloads : i \in Api \/ q.distance = 0} :
       session' = [j \in Importers |->
         IF j = i THEN [Idle EXCEPT !.pc = "purge", !.payload = p,
                          !.number = imports + 1, !.default = default,
                          !.before = rows, !.alone = (others = {})]
         ELSE [session[j] EXCEPT !.alone = @ /\ ~Open(j)]]
  /\ UNCHANGED <<rows, refs, default, crashes, elsewhere>>
  /\ Races

(* The same, wrong on purpose: of all scenarios. *)
PurgeAllScenarios(i) ==
  /\ session[i].pc = "purge"
  /\ Becomes(i, [session[i] EXCEPT !.pc = "dropScenarios", !.snap = Scenarios(rows)])
  /\ Local

(* The DELETE of the scenarios starts: all but the default as it was read. *)
PurgeScenarios(i) ==
  /\ session[i].pc = "purge"
  /\ Becomes(i, [session[i] EXCEPT !.pc = "dropScenarios",
                   !.snap = Scenarios(rows) \ {session[i].default}])
  /\ Local

(* A DELETE ends when no other session holds one of its rows; those that   *)
(* are gone by then are passed over, new ones are not in its snapshot.     *)
Dropped(i) ==
  [session[i] EXCEPT !.dropped = @ \cup (session[i].snap \cap rows), !.snap = {}]

(* The DELETE of the requests, wrong on purpose: of none. *)
PurgeNoRequests(i) ==
  /\ session[i].pc = "dropScenarios"
  /\ session[i].snap \cap Held(i) = {}
  /\ Becomes(i, [Dropped(i) EXCEPT !.pc = "dropRequests"])
  /\ Local

PurgeRequests(i) ==
  /\ session[i].pc = "dropScenarios"
  /\ session[i].snap \cap Held(i) = {}
  /\ Becomes(i, [Dropped(i) EXCEPT !.pc = "dropRequests", !.snap = Requests(rows)])
  /\ Local

(* The end of the purge, wrong on purpose: commit() in place of flush(). *)
PurgeCommits(i) ==
  /\ session[i].pc = "dropRequests"
  /\ session[i].snap \cap Held(i) = {}
  /\ CommitTables(Dropped(i))
  /\ Becomes(i, [Committed(i, Dropped(i)) EXCEPT !.pc = "request"])
  /\ UNCHANGED <<refs, imports, crashes>>

Purged(i) ==
  /\ session[i].pc = "dropRequests"
  /\ session[i].snap \cap Held(i) = {}
  /\ Becomes(i, [Dropped(i) EXCEPT !.pc = "request"])
  /\ Local

-----------------------------------------------------------------------------
(* Step 2: the requests, one after the other.                              *)

RequestsLeft(i) == session[i].ix <= Len(session[i].payload.requests)

Distance(b, x) == IF BusAt[b] >= x.at THEN BusAt[b] - x.at ELSE x.at - BusAt[b]

(* The nearest ones of the buses with a position, when there is no number  *)
(* and the caller has given a distance.                                    *)
Nearest(x, maxDistance) ==
  {b \in Located : /\ x.node = NoNode /\ x.at # 0 /\ maxDistance # 0
                   /\ \A c \in Located : Distance(b, x) <= Distance(c, x)}
TooFar(x, maxDistance) == {b \in Nearest(x, maxDistance) : Distance(b, x) > maxDistance}

(* The bus by its number, or the nearest one if it is not too far.         *)
BusesFor(x, maxDistance) ==
  IF x.node # NoNode THEN {x.node} \cap Buses
  ELSE Nearest(x, maxDistance) \ TooFar(x, maxDistance)

(* The buses that are read on the way: next(b for b in buses if b.number   *)
(* == ...) reads those of a SELECT without ORDER BY as far as the one it   *)
(* looks for, min() takes one of the nearest and the warning names it.     *)
Readable(i, x) ==
  LET tooFar == TooFar(x, session[i].payload.distance) IN
  \/ session[i].stale = {}
  \/ x.node # NoNode /\ x.node \in Buses \ session[i].stale
  \/ x.node = NoNode /\ (tooFar = {} \/ tooFar \ session[i].stale # {})

Locate(i) ==
  /\ session[i].pc = "request"
  /\ RequestsLeft(i)
  /\ Readable(i, Item(i))
  /\ IF BusesFor(Item(i), session[i].payload.distance) = {}
     THEN Becomes(i, [session[i] EXCEPT !.ix = @ + 1])
     ELSE Becomes(i, [session[i] EXCEPT !.pc = "refs", !.ref = 1])
  /\ Local

LocateRaises(i) ==
  /\ session[i].pc = "request"
  /\ RequestsLeft(i)
  /\ session[i].stale # {}
  /\ \/ Item(i).node # NoNode
     \/ TooFar(Item(i), session[i].payload.distance) \cap session[i].stale # {}
  /\ Fail(i)

AsksForRef(i) ==
  /\ session[i].pc \in {"refs", "author"}
  /\ session[i].ref <= Len(RefsOf(i))

(* get_or_create_cached: once per import and row. *)
RefKnown(i) ==
  /\ AsksForRef(i)
  /\ NextRef(i) \in session[i].known
  /\ Becomes(i, [session[i] EXCEPT !.ref = @ + 1])
  /\ Local

(* get_or_create, wrong on purpose: the row that is there is not found. *)
RefSelectBlind(i) ==
  /\ AsksForRef(i)
  /\ NextRef(i) \notin session[i].known
  /\ CanFlush(i)
  /\ Becomes(i, [Flushed(i) EXCEPT !.pc = IF @ = "refs" THEN "createRef" ELSE "createAuthor"])
  /\ Local

(* The SELECT of get_or_create flushes first.  It finds the one row, or    *)
(* none, or scalar_one raises MultipleResultsFound.                        *)
RefSelect(i) ==
  /\ AsksForRef(i)
  /\ NextRef(i) \notin session[i].known
  /\ CanFlush(i)
  /\ \/ /\ refs[NextRef(i)] = 0
        /\ Becomes(i, [Flushed(i) EXCEPT !.pc = IF @ = "refs" THEN "createRef" ELSE "createAuthor"])
     \/ /\ refs[NextRef(i)] = 1
        /\ Becomes(i, [Flushed(i) EXCEPT !.known = @ \cup {NextRef(i)}, !.ref = @ + 1])
     \/ /\ refs[NextRef(i)] > 1
        /\ Becomes(i, [session[i] EXCEPT !.pc = "failed"])
  /\ Local

(* The row is added, and the whole session committed. *)
RefCreate(i) ==
  /\ session[i].pc \in {"createRef", "createAuthor"}
  /\ refs' = [refs EXCEPT ![NextRef(i)] = @ + 1]
  /\ CommitTables(session[i])
  /\ Becomes(i, [Committed(i, session[i]) EXCEPT
                   !.pc = IF @ = "createRef" THEN "refs" ELSE "author",
                   !.known = @ \cup {NextRef(i)}, !.ref = @ + 1, !.made = TRUE])
  /\ UNCHANGED <<imports, crashes>>

AddRequest(i) ==
  /\ session[i].pc = "refs"
  /\ session[i].ref > Len(Item(i).refs)
  /\ ~Item(i).blank
  /\ \E b \in BusesFor(Item(i), session[i].payload.distance) :
       Becomes(i, [session[i] EXCEPT !.pc = "request", !.ix = @ + 1,
                     !.added = @ \cup {RequestRow(Item(i).project, b, session[i].number,
                                                  session[i].ix)}])
  /\ Local

(* geo_to_h3 has no position to take. *)
AddRaises(i) ==
  /\ session[i].pc = "refs"
  /\ session[i].ref > Len(Item(i).refs)
  /\ Item(i).blank
  /\ Fail(i)

FlushRequests(i) ==
  /\ session[i].pc = "request"
  /\ ~RequestsLeft(i)
  /\ CanFlush(i)
  /\ Becomes(i, [Flushed(i) EXCEPT !.pc = "scenario", !.ix = 1])
  /\ Local

-----------------------------------------------------------------------------
(* Step 3: the scenarios.                                                  *)

ScenariosLeft(i) == session[i].ix <= Len(session[i].payload.scenarios)

(* The object of the network comes back with the first bus that is loaded  *)
(* again, so net.id is unreadable while all buses are expired.             *)
NetUnreadable(i) == session[i].stale = Buses

(* The requests are looked up by their names among those of all networks.  *)
Link(i) ==
  /\ session[i].pc = "scenario"
  /\ ScenariosLeft(i)
  /\ CanFlush(i)
  /\ LET named == {r \in Requests(Flushed(i).flushed \cup (rows \ session[i].dropped)) \cup Abroad :
                     r.key[1] \in Scenario(i).names}
     IN Becomes(i, [Flushed(i) EXCEPT !.links = named, !.ref = 1,
                      !.pc = IF NetUnreadable(i) THEN "failed" ELSE "author"])
  /\ Local

AddScenario(i) ==
  /\ session[i].pc = "author"
  /\ session[i].ref > 1
  /\ Becomes(i, [session[i] EXCEPT !.pc = "scenario", !.ix = @ + 1, !.links = {},
                   !.added = @ \cup {ScenarioRow(Scenario(i).code, session[i].number,
                                                 session[i].ix, session[i].links)}])
  /\ Local

(* Step 4. *)
Finish(i) ==
  /\ session[i].pc = "scenario"
  /\ ~ScenariosLeft(i)
  /\ CanFlush(i)
  /\ CommitTables(Flushed(i))
  /\ Becomes(i, [Committed(i, Flushed(i)) EXCEPT !.pc = "done"])
  /\ UNCHANGED <<refs, imports, crashes>>

(* Any statement that flushes, when the key is there. *)
FlushRaises(i) ==
  /\ \/ AsksForRef(i) /\ NextRef(i) \notin session[i].known
     \/ session[i].pc = "request" /\ ~RequestsLeft(i)
     \/ session[i].pc = "scenario"
  /\ KeyTaken(i)
  /\ ~MustWait(i)
  /\ Fail(i)

(* The connection, or the process, is lost, or the database ends a         *)
(* deadlock between two imports.                                           *)
Crash(i) ==
  /\ Open(i)
  /\ crashes < MaxCrashes
  /\ crashes' = crashes + 1
  /\ Becomes(i, [session[i] EXCEPT !.pc = "failed"])
  /\ UNCHANGED <<rows, refs, default, imports>>

(* update_network, PATCH of the network's default scenario: its foreign    *)
(* key waits for a row that is being deleted, and is refused then.         *)
SetDefault ==
  /\ \E s \in Scenarios(rows) :
       /\ \A i \in Importers : Open(i) => s \notin session[i].dropped
       /\ default' = s
  /\ UNCHANGED <<rows, refs, imports, crashes, session, elsewhere, raced>>

(* get_or_create elsewhere: of the user who creates a scenario             *)
(* (scenarios/views.py:88), or by an import of another network; one at a   *)
(* time for each row.                                                      *)
OtherSelects(r) ==
  /\ refs[r] = 0
  /\ r \notin elsewhere
  /\ elsewhere' = elsewhere \cup {r}
  /\ UNCHANGED <<rows, refs, default, imports, crashes, session>>
  /\ Races
OtherCreates(r) ==
  /\ r \in elsewhere
  /\ refs' = [refs EXCEPT ![r] = @ + 1]
  /\ elsewhere' = elsewhere \ {r}
  /\ UNCHANGED <<rows, default, imports, crashes, session>>
  /\ Races

Step(i) ==
  \/ PurgeScenarios(i) \/ PurgeRequests(i) \/ Purged(i)
  \/ Locate(i) \/ LocateRaises(i)
  \/ RefKnown(i) \/ RefSelect(i) \/ RefCreate(i)
  \/ AddRequest(i) \/ AddRaises(i) \/ FlushRequests(i) \/ Link(i) \/ AddScenario(i)
  \/ Finish(i) \/ FlushRaises(i)

Next ==
  \/ SetDefault
  \/ \E r \in Shared : OtherSelects(r) \/ OtherCreates(r)
  \/ \E i \in Importers : Begin(i) \/ Step(i) \/ Crash(i)

Spec == Init /\ [][Next]_vars

-----------------------------------------------------------------------------
(* Documents.  distance is max_bus_distance, which only the endpoint has   *)
(* (0: no limit given, nearest buses are not looked for); blank is a       *)
(* request whose extra has no coordinates.                                 *)
RequestItem == [project: STRING, node: STRING \cup {NoNode}, at: Int, refs: Seq(Refs),
                blank: BOOLEAN]
ScenarioItem == [code: STRING, names: SUBSET STRING, author: Refs]
Payload == [requests: Seq(RequestItem), scenarios: Seq(ScenarioItem), distance: Nat]

ASSUME PayloadsAssumption == Payloads \subseteq Payload

States == {"idle", "purge", "dropScenarios", "dropRequests", "request", "refs",
           "createRef", "scenario", "author", "createAuthor", "done", "failed"}

TypeOK ==
  /\ \A r \in rows : IsRow(r)
  /\ refs \in [Refs -> Nat]
  /\ default \in Scenarios(rows) \cup {NoScenario}
  /\ imports \in 0..MaxImports
  /\ crashes \in 0..MaxCrashes
  /\ elsewhere \subseteq Shared
  /\ raced \subseteq Refs
  /\ \A i \in Importers :
       /\ DOMAIN session[i] = DOMAIN Idle
       /\ session[i].pc \in States
       /\ session[i].stale \subseteq Buses
       /\ session[i].known \subseteq Refs

-----------------------------------------------------------------------------
(* What the API shows of the tables: a request by its project_id and its   *)
(* bus, a scenario by its code and the project_ids of its requests.        *)
ShownRequests(set) == {r.key : r \in Requests(set)}
ShownScenarios(set) ==
  {[code |-> s.key[1], names |-> {r.key[1] : r \in s.links \cap (set \cup Abroad)}]
     : s \in Scenarios(set)}

Ends(i, pc) == Open(i) /\ session'[i].pc = pc

(* An answer 201 to an import nobody interfered with means what the        *)
(* endpoint says, "Replaces existing entities in database"                 *)
(* (datadump/views.py:73), whatever was there.  Each request that has a    *)
(* bus is there, once, at a bus it may have; each scenario is, with those  *)
(* of its names that are; and nothing else but the scenario that was the   *)
(* default.                                                                *)
Replaces ==
  \A i \in Importers :
    Ends(i, "done") /\ session[i].alone =>
      LET p == session[i].payload
          placed == {n \in DOMAIN p.requests : BusesFor(p.requests[n], p.distance) # {}}
          kept == {s \in Scenarios(session[i].before) : s = session[i].default}
          wanted == {[code |-> x.code,
                      names |-> x.names \cap ({p.requests[n].project : n \in placed}
                                             \cup {r.key[1] : r \in Abroad})]
                       : x \in {p.scenarios[n] : n \in DOMAIN p.scenarios}}
      IN \E bus \in [placed -> Buses] :
           /\ \A n \in placed : bus[n] \in BusesFor(p.requests[n], p.distance)
           /\ ShownRequests(rows') = {<<p.requests[n].project, bus[n]>> : n \in placed}
           /\ ShownScenarios(rows') = wanted \cup ShownScenarios(kept)
SuccessReplaces == [][Replaces]_vars

(* An import that fails takes nothing away: not when it fails at a key     *)
(* that exists, not when its connection is lost, as long as it has not had *)
(* to add a reference row (database/helpers.py:13 commits then).           *)
KeepsOld ==
  \A i \in Importers :
    Ends(i, "failed") /\ session[i].alone /\ ~session[i].made => rows' = session[i].before
FailureKeepsOld == [][KeepsOld]_vars

(* The same, of every import that fails.                                   *)
FailureReplacesNothing ==
  [][\A i \in Importers :
       Ends(i, "failed") /\ session[i].alone => rows' = session[i].before]_vars

(* The scenario that is the network's default stays through any imports    *)
(* that have read it as such, whatever else they or their rivals delete.   *)
KeepsDefault ==
  /\ default \in Scenarios(rows)
  /\ \A i \in Importers : Open(i) => session[i].default = default
  => default \in rows'
DefaultSurvives == [][KeepsDefault]_vars

(* A reference row that is there is added again, which makes scalar_one    *)
(* raise for every import from then on, only out of a race: whoever adds   *)
(* it has missed it while somebody else, here or elsewhere, had missed it  *)
(* and not committed yet.  No import doubles a row by itself, however      *)
(* often its document names it and whatever it has committed meanwhile.    *)
AddsRaced == \A r \in Refs : refs'[r] > refs[r] /\ refs[r] > 0 => r \in raced
DuplicatesNeedARace == [][AddsRaced]_vars
=============================================================================

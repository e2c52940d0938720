--------------------------- MODULE StartupImport ---------------------------
(***************************************************************************)
(* datadump/cli.py: when the application starts, the script takes the      *)
(* directories of NET_DATA_ROOT one after the other; each describes one    *)
(* network, which it creates or, when the files are newer, imports again:  *)
(* buses, branches, trafos, 3-winding trafos, their geodata, connection    *)
(* requests and scenarios.  Every part ends with a commit of its own, and all *)
(* directories share one session, which is never rolled back: what an      *)
(* exception leaves in it goes into the next directory's commit, unless    *)
(* the exception came from a flush, which leaves the session unusable.     *)
(***************************************************************************)
EXTENDS Integers, Sequences, FiniteSets

CONSTANTS
  Dirs,          (* directories of NET_DATA_ROOT                            *)
  Contents,      (* what a directory may hold, see Content                  *)
  Rewritten,     (* what it may be changed to (a bound on the cases looked  *)
                 (* at: any of Contents)                                    *)
  CaseNames,     (* what the configuration of a directory calls its case    *)
  Numbers,       (* numbers of buses                                        *)
  Codes,         (* codes of scenarios                                      *)
  NoNumber,      (* what no bus is called: "nan", "12.0"                    *)
  NoCase,        (* case_name of a network that does not exist              *)
  MaxNetworks,   (* bound on the networks                                   *)
  MaxStarts,     (* bound on the starts                                     *)
  MaxChanges,    (* bound on what users change, files or networks           *)
  MaxCrashes     (* bound on the starts cut short                           *)

Ids == 1..MaxNetworks

Cases == Dirs \X CaseNames

ASSUME NoCaseAssumption == NoCase \notin Dirs \cup Cases
ASSUME NoNumberAssumption == NoNumber \notin Numbers
ASSUME BoundsAssumption ==
  /\ MaxNetworks \in Nat
  /\ MaxStarts \in Nat
  /\ MaxChanges \in Nat
  /\ MaxCrashes \in Nat

(* A file is there, or not, or does not fit its schema.                    *)
FileStates == {"ok", "missing", "invalid"}

(* What a file says of lines: the numbers of the buses at their ends; a    *)
(* winding number that is written as an integer is not converted to text   *)
(* (integers: which of trafo3w have one).  A feature of the geodata has    *)
(* one position or a list of two or more, and the type its geometry gives  *)
(* itself.  requests and scenarios are rows of the sheet: which bus the    *)
(* cell of a request names, whether a row fits the schema (its words are   *)
(* in the tables, its dates, author and requests are filled in).  With     *)
(* fake, coordinates are drawn around a bus (fake_coords_distance).        *)
Line == Numbers \X Numbers
Coordinates == Seq(Int) \ {<<>>}
GeometryTypes == {"Point", "LineString", "other"}
Feature == [typ: {"bus"}, ends: {<<n>> : n \in Numbers},
            type: GeometryTypes, at: Coordinates]
             \cup [typ: {"branch", "trafo"}, ends: Line,
                   type: GeometryTypes, at: Coordinates]
Subsystems == [is: FileStates, buses: Seq(Numbers), branch: Seq(Line),
               trafo: Seq(Line), trafo3w: Seq(Numbers \X Numbers \X Numbers),
               integers: SUBSET Nat]
Geodata == [is: FileStates, features: Seq(Feature)]
Cell == [is: {"number", "text", "blank"}, of: Numbers]
Sheet == [is: FileStates, fake: BOOLEAN,
          requests: Seq([project: STRING, node: Cell, fits: BOOLEAN]),
          scenarios: Seq([code: Codes, fits: BOOLEAN])]
Content == [metadata: FileStates, overwrite: BOOLEAN, case: CaseNames,
            subsystems: Subsystems, geodata: Geodata, sheet: Sheet]

Kinds == {"branch", "trafo", "trafo3w"}

VARIABLES
  files,     (* [Dirs -> Contents]                                          *)
  newer,     (* networks whose files have changed since they were created   *)
  case,      (* [Ids -> Cases \cup {NoCase}]: case_name in gridcapacity_cfg *)
  default,   (* [Ids -> the last default scenario, or none]; one that is    *)
             (* deleted is none (ON DELETE SET NULL)                        *)
  created,   (* networks created                                            *)
  db,        (* [Ids -> rows of the network]: what is committed             *)
  view,      (* the same as the script's session has it                     *)
  broken,    (* the session refuses every call                              *)
  pc, dir, net, left,   (* where the script is, directories left            *)
  had,       (* default scenarios of net since its import began             *)
  outcome,   (* [Dirs -> what became of it in this start]                   *)
  starts, changes, crashes

networks == <<case, default, created>>
place == <<dir, net, left, had>>
bounds == <<starts, changes, crashes>>
vars == <<files, newer, networks, db, view, broken, pc, place, outcome, bounds>>

(* Rows: a bus is known by its number and the start that inserted it, the  *)
(* ends of a line and the bus of a request are such keys; so is a scenario *)
(* by its code and the start.                                              *)
Empty == [buses |-> {}, lines |-> {}, requests |-> {}, scenarios |-> {}]
Keys == Codes \X Nat
NoScenario == <<>>
BusRow(number, geom) == [key |-> <<number, starts>>, geom |-> geom]
NoGeom == <<>>

Init ==
  /\ files \in [Dirs -> Contents]
  /\ newer = {}
  /\ case = [n \in Ids |-> NoCase]
  /\ default = [n \in Ids |-> NoScenario]
  /\ created = 0
  /\ db = [n \in Ids |-> Empty]
  /\ view = db
  /\ broken = FALSE
  /\ pc = "off"
  /\ dir = NoCase
  /\ net = 0
  /\ left = {}
  /\ had = {}
  /\ outcome = [d \in Dirs |-> "none"]
  /\ starts = 0
  /\ changes = 0
  /\ crashes = 0

-----------------------------------------------------------------------------
(* process(): one directory after the other, in the order of the disk.     *)

Start ==
  /\ pc = "off"
  /\ starts < MaxStarts
  /\ pc' = "next"
  /\ left' = Dirs
  /\ broken' = FALSE
  /\ view' = db
  /\ outcome' = [d \in Dirs |-> "none"]
  /\ starts' = starts + 1
  /\ UNCHANGED <<files, newer, networks, db, dir, net, had, changes, crashes>>

(* The end of a directory, wrong on purpose: a failure ends the loop. *)
EndsAll(result) ==
  /\ pc' = "next"
  /\ outcome' = [outcome EXCEPT ![dir] = result]
  /\ left' = IF result = "failed" THEN {} ELSE left
  /\ UNCHANGED <<dir, net, had>>

(* A directory is done with: imported, or left by an exception.            *)
(* FileNotFoundError is passed over in silence ("skipped"), RuntimeWarning *)
(* ("refused") and all others ("failed") are logged.                       *)
Ends(result) ==
  /\ pc' = "next"
  /\ outcome' = [outcome EXCEPT ![dir] = result]
  /\ UNCHANGED place

Untouched == UNCHANGED <<files, newer, networks, bounds>>

(* Opening a part's file, or reading it, raises. *)
Unreadable(part) ==
  /\ part.is # "ok"
  /\ Ends(IF part.is = "missing" THEN "skipped" ELSE "failed")
  /\ UNCHANGED <<db, view, broken>>

(* An exception outside of a flush: v is what the session keeps of the     *)
(* part, uncommitted.                                                      *)
Raises(v) == Ends("failed") /\ view' = v /\ UNCHANGED <<db, broken>>

(* An exception in a flush: the transaction is gone. *)
Breaks == Ends("failed") /\ view' = db /\ broken' = TRUE /\ UNCHANGED db

(* The end of a part. *)
Commits(v, next) ==
  /\ view' = v
  /\ db' = v
  /\ pc' = next
  /\ UNCHANGED <<broken, outcome, place>>

LoadMetadata ==
  /\ pc = "next"
  /\ \E d \in left :
       /\ left' = left \ {d}
       /\ dir' = d
       /\ \/ /\ files[d].metadata = "ok"
             /\ pc' = "network"
             /\ UNCHANGED outcome
          \/ /\ files[d].metadata # "ok"
             /\ pc' = "next"
             /\ outcome' = [outcome EXCEPT ![d] =
                  IF files[d].metadata = "missing" THEN "skipped" ELSE "failed"]
  /\ UNCHANGED <<net, had, db, view, broken>>
  /\ Untouched

(* The process ends, and its session. *)
Gone ==
  /\ pc' = "off"
  /\ view' = db
  /\ dir' = NoCase
  /\ net' = 0
  /\ left' = {}
  /\ had' = {}

Stop ==
  /\ pc = "next"
  /\ left = {}
  /\ Gone
  /\ UNCHANGED <<db, broken, outcome>>
  /\ Untouched

-----------------------------------------------------------------------------
(* import_network_data.                                                    *)

(* basename of the directory / case_name of its configuration. *)
CaseOf(d) == <<d, files[d].case>>

Existing == {n \in Ids : case[n] = CaseOf(dir)}

(* mtime > created_at, and metadata.overwrite_if_modified. *)
ShouldImport(n) == n \in newer /\ files[dir].overwrite

(* The first query of a directory, when an earlier one broke the session. *)
SessionBroken ==
  /\ pc = "network"
  /\ broken
  /\ Ends("failed")
  /\ UNCHANGED <<db, view, broken>>
  /\ Untouched

FindNetwork ==
  LET missing == "missing" \in {files[dir].subsystems.is, files[dir].geodata.is} IN
  /\ pc = "network"
  /\ ~broken
  /\ \E n \in Existing :
       \/ /\ missing
          /\ Ends("skipped")
       \/ /\ ~missing
          /\ ~ShouldImport(n)
          /\ Ends("refused")
       \/ /\ ~missing
          /\ ShouldImport(n)
          /\ pc' = "buses"
          /\ net' = n
          /\ had' = {default[n]}
          /\ UNCHANGED <<outcome, dir, left>>
  /\ UNCHANGED <<db, view, broken>>
  /\ Untouched

(* create_network commits, all that the session holds. *)
CreateNetwork ==
  /\ pc = "network"
  /\ ~broken
  /\ Existing = {}
  /\ created < MaxNetworks
  /\ created' = created + 1
  /\ case' = [case EXCEPT ![created + 1] = CaseOf(dir)]
  /\ db' = view
  /\ pc' = "buses"
  /\ net' = created + 1
  /\ had' = {NoScenario}
  /\ UNCHANGED <<files, newer, default, view, broken, dir, left, outcome, bounds>>

(* DELETE of buses, wrong on purpose: without the cascade, and without the *)
(* condition on the network.                                               *)
WithoutCascade(v, n) == [v EXCEPT ![n].buses = {}]
WithoutAnyBuses(v, n) == [m \in Ids |-> Empty]

(* DELETE of the network's buses; lines and requests go with them. *)
WithoutBuses(v, n) ==
  LET gone == {b.key : b \in v[n].buses}
  IN [v EXCEPT ![n] =
        [buses |-> {},
         scenarios |-> v[n].scenarios,
         lines |-> {l \in v[n].lines : \A k \in DOMAIN l.ends : l.ends[k] \notin gone},
         requests |-> {r \in v[n].requests : r.bus \notin gone}]]

InsertBuses ==
  LET numbers == files[dir].subsystems.buses IN
  /\ pc = "buses"
  /\ \/ Unreadable(files[dir].subsystems)
     \/ /\ files[dir].subsystems.is = "ok"
        /\ IF \E j, k \in DOMAIN numbers : j # k /\ numbers[j] = numbers[k]
           THEN Breaks
           ELSE Commits([WithoutBuses(view, net) EXCEPT ![net].buses =
                           {BusRow(numbers[k], NoGeom) : k \in DOMAIN numbers}],
                        "branch")
  /\ Untouched

(* find_bus: scalar_one raises NoResultFound. *)
KnownBus(number) == \E b \in view[net].buses : b.key[1] = number
BusOf(number) == CHOOSE b \in view[net].buses : b.key[1] = number

LineRow(kind, k, numbers) ==
  [kind |-> kind, ix |-> k, geom |-> NoGeom,
   ends |-> [e \in DOMAIN numbers |-> BusOf(numbers[e]).key]]

(* The query for an integer raises. *)
Lookup(kind, k, number) ==
  KnownBus(number) /\ ~(kind = "trafo3w" /\ k \in files[dir].subsystems.integers)

(* Branches, trafos and 3-winding trafos, each with a commit at the end.   *)
(* Those before one whose bus is not found stay in the session.            *)
InsertLines(kind, next) ==
  LET lines == files[dir].subsystems[kind]
      known(k) == \A e \in DOMAIN lines[k] : Lookup(kind, k, lines[k][e])
      inserted == {k \in DOMAIN lines : \A j \in 1..k : known(j)}
      after == [view EXCEPT ![net].lines = @ \cup {LineRow(kind, k, lines[k]) : k \in inserted}]
  IN
  /\ pc = kind
  /\ IF inserted = DOMAIN lines THEN Commits(after, next) ELSE Raises(after)
  /\ Untouched

-----------------------------------------------------------------------------
(* import_subsystem_geodata.                                               *)

NoFeature == [typ |-> "none"]
First(features, fitting) ==
  IF fitting = {} THEN NoFeature
  ELSE features[CHOOSE k \in fitting : \A j \in fitting : k <= j]
OfBus(features, number) ==
  {k \in DOMAIN features : features[k].typ = "bus" /\ features[k].ends[1] = number}
OfBranch(features, number) ==
  {k \in DOMAIN features : /\ features[k].typ = "branch"
                           /\ number \in {features[k].ends[1], features[k].ends[2]}}

(* Wrong on purpose: branch features are not looked at. *)
BusGeomOwn(number, features) ==
  LET own == First(features, OfBus(features, number))
  IN IF own = NoFeature THEN NoGeom ELSE own.at

(* A bus is where its feature is, or at the end of the first branch        *)
(* feature that names it.                                                  *)
BusGeom(number, features) ==
  LET own == First(features, OfBus(features, number))
      branch == First(features, OfBranch(features, number))
  IN IF own # NoFeature THEN own.at
     ELSE IF branch = NoFeature THEN NoGeom
     ELSE <<branch.at[IF number = branch.ends[1] THEN 1 ELSE Len(branch.at)]>>

Mapped(b, features) ==
  LET geom == BusGeom(b.key[1], features)
  IN [key |-> b.key, geom |-> IF geom = NoGeom THEN b.geom ELSE geom]
BusesOnMap(g, features) == {Mapped(b, features) : b \in g.buses}

(* What the columns of buses and of lines take. *)
FitsBus(f) == f.type = "Point" /\ Len(f.at) = 1
FitsLine(f) == f.type = "LineString" /\ Len(f.at) > 1

(* Buses whose own feature the column does not take, and those for which   *)
(* an end is taken of a feature with one position.                         *)
Misfits(g, features) ==
  {b \in g.buses : LET own == First(features, OfBus(features, b.key[1]))
                   IN own # NoFeature /\ ~FitsBus(own)}
Endless(g, features) ==
  {b \in g.buses : LET branch == First(features, OfBranch(features, b.key[1]))
                   IN /\ OfBus(features, b.key[1]) = {}
                      /\ branch # NoFeature
                      /\ Len(branch.at) = 1}

Located(buses) == {b.key : b \in {c \in buses : c.geom # NoGeom}}
Position(buses, key) == (CHOOSE b \in buses : b.key = key).geom

(* Wrong on purpose: whether or not they have. *)
StraightAnyway(buses, l) ==
  Position(buses, l.ends[1]) \o Position(buses, l.ends[2])

(* auto-trace: a straight line, if both buses have a position. *)
Straight(buses, l) ==
  IF {l.ends[1], l.ends[2]} \subseteq Located(buses)
  THEN Position(buses, l.ends[1]) \o Position(buses, l.ends[2])
  ELSE l.geom

BranchFeature(l, features) ==
  First(features, {k \in DOMAIN features :
                     /\ features[k].typ = "branch"
                     /\ features[k].ends = <<l.ends[1][1], l.ends[2][1]>>})
HasTrafoFeature(l, features) ==
  \E k \in DOMAIN features :
    /\ features[k].typ = "trafo"
    /\ features[k].ends[1] = l.ends[1][1] \/ features[k].ends[2] = l.ends[2][1]

Lines(g, kind) == {l \in g.lines : l.kind = kind}
MisfitLines(g, features) ==
  {l \in Lines(g, "branch") : LET f == BranchFeature(l, features)
                              IN f # NoFeature /\ ~FitsLine(f)}
Draw(l, geom) == [kind |-> l.kind, ix |-> l.ix, ends |-> l.ends, geom |-> geom]

DrawnBranch(l, buses, features) ==
  LET f == BranchFeature(l, features)
  IN Draw(l, IF f = NoFeature THEN Straight(buses, l) ELSE f.at)
Traced(buses, lines) == {Draw(l, Straight(buses, l)) : l \in lines}

Redrawn(g, features, trafos) ==
  LET buses == BusesOnMap(g, features)
  IN [buses |-> buses, requests |-> g.requests, scenarios |-> g.scenarios,
      lines |-> {DrawnBranch(l, buses, features) : l \in Lines(g, "branch")}
                  \cup trafos \cup Lines(g, "trafo3w")]

(* The loop over the buses raises, after some of them, at one for which an *)
(* end cannot be taken; what it set before is flushed with the next        *)
(* directory's first query, if there is anything to refuse in it.          *)
LocateSome ==
  LET g == view[net]
      features == files[dir].geodata.features
      endless == Endless(g, features)
  IN
  /\ endless # {}
  /\ \E some \in SUBSET (g.buses \ endless) :
       IF some \cap Misfits(g, features) # {}
       THEN Breaks
       ELSE Raises([view EXCEPT ![net].buses =
                      {IF b \in some THEN Mapped(b, features) ELSE b : b \in @}])

(* The geometry of a trafo with a feature is read from br_f, what the loop *)
(* over the branches found for the last one, in whatever order they come;  *)
(* it raises when that is nothing, after some of the other trafos.         *)
DrawLines ==
  LET g == view[net]
      features == files[dir].geodata.features
      buses == BusesOnMap(g, features)
      featured == {l \in Lines(g, "trafo") : HasTrafoFeature(l, features)}
      plain == Lines(g, "trafo") \ featured
      after(trafos) == [view EXCEPT ![net] = Redrawn(g, features, trafos)]
      br_f == IF Lines(g, "branch") = {} THEN {NoFeature}
              ELSE {BranchFeature(l, features) : l \in Lines(g, "branch")}
  IN
  /\ pc = "geodata"
  /\ \/ Unreadable(files[dir].geodata)
     \/ /\ files[dir].geodata.is = "ok"
        /\ g.buses = {}
        /\ Raises(view)
     \/ /\ files[dir].geodata.is = "ok"
        /\ LocateSome
     \/ /\ files[dir].geodata.is = "ok"
        /\ Endless(g, features) = {}
        /\ Misfits(g, features) \cup MisfitLines(g, features) # {}
        /\ Breaks
     \/ /\ files[dir].geodata.is = "ok"
        /\ g.buses # {}
        /\ Endless(g, features) \cup Misfits(g, features) \cup MisfitLines(g, features) = {}
        /\ \E f \in br_f :
             IF featured # {} /\ f = NoFeature
             THEN \E some \in SUBSET plain :
                    Raises(after(Traced(buses, some) \cup (plain \ some) \cup featured))
             ELSE Commits(after(Traced(buses, plain) \cup {Draw(l, f.at) : l \in featured}),
                          "requests")
  /\ Untouched

-----------------------------------------------------------------------------
(* import_connection_requests: the sheet is read and converted             *)
(* (ConnectionRequestsImporter.run), then import_unified replaces the      *)
(* requests and scenarios of the network; ConnectionsImport has the interleavings of its *)
(* statements, here is what it leaves.                                     *)

(* A column of numbers with a blank cell in it is read as floating point   *)
(* numbers, and written out as such: "12.0".                               *)
AsFloats(rows) ==
  /\ \A k \in DOMAIN rows : rows[k].node.is # "text"
  /\ \E k \in DOMAIN rows : rows[k].node.is = "blank"
NodeId(rows, k) ==
  IF rows[k].node.is = "blank" \/ AsFloats(rows) THEN NoNumber ELSE rows[k].node.of

(* One row that does not fit (the NaN of a blank cell has no split() and   *)
(* is no JSON) raises for the whole sheet.                                 *)
Converts(sheet) ==
  /\ \A k \in DOMAIN sheet.requests : sheet.requests[k].fits
  /\ \A k \in DOMAIN sheet.scenarios : sheet.scenarios[k].fits
Document(rows) ==
  [k \in DOMAIN rows |-> [project |-> rows[k].project, node |-> NodeId(rows, k)]]

SpansArea(g) ==
  \E b, c \in g.buses : {b.key, c.key} \subseteq Located(g.buses) /\ b.geom # c.geom

(* The first k rows that name a bus, the first j scenarios, and what the   *)
(* session has after so many rows, requests first; kept is what the DELETE *)
(* of the scenarios takes for the default.                                 *)
Placed(asked, k) ==
  {r \in {[project |-> asked[j].project, node |-> asked[j].node] : j \in (1..k) \cap DOMAIN asked} :
     KnownBus(r.node)}
Planned(scenarios, j) == {<<scenarios[i].code, starts>> : i \in (1..j) \cap DOMAIN scenarios}

Kept(kept) == view[net].scenarios \cap {kept}

WithRows(kept, asked, scenarios, k) ==
  [view EXCEPT ![net] =
     [buses |-> @.buses, lines |-> @.lines,
      requests |-> {[project |-> r.project, bus |-> BusOf(r.node).key] : r \in Placed(asked, k)},
      scenarios |-> Kept(kept) \cup Planned(scenarios, k - Len(asked))]]

(* A project twice at a bus, a code twice in the network.                  *)
Clashes(kept, asked, scenarios) ==
  {k \in DOMAIN asked : /\ KnownBus(asked[k].node)
                        /\ [project |-> asked[k].project, node |-> asked[k].node] \in Placed(asked, k - 1)}
  \cup
  {Len(asked) + j : j \in {i \in DOMAIN scenarios :
     scenarios[i].code \in {s[1] : s \in Kept(kept) \cup Planned(scenarios, i - 1)}}}

ImportRequests ==
  LET g == view[net]
      sheet == files[dir].sheet
      asked == Document(sheet.requests)
      scenarios == sheet.scenarios
      (* mock_connection_coords draws other buses when the request's own   *)
      (* has no position, and may find none that has; a request without    *)
      (* coordinates is not indexed, geo_to_h3 raises.                     *)
      risky == {k \in DOMAIN asked : /\ sheet.fake
                                     /\ KnownBus(asked[k].node)
                                     /\ BusOf(asked[k].node).geom = NoGeom}
      earlier(k, set) == \A j \in set : k <= j
  IN
  /\ pc = "requests"
  /\ \/ Unreadable(sheet)
     \/ /\ sheet.is = "ok"
        /\ ~Converts(sheet) \/ ~SpansArea(g)
        /\ Raises(view)
     \/ /\ sheet.is = "ok"
        /\ Converts(sheet)
        /\ SpansArea(g)
        /\ \E lost \in SUBSET risky, kept \in had :
             LET clashes == Clashes(kept, asked, scenarios)
                 before(k) == WithRows(kept, asked, scenarios, k - 1)
                 (* get_or_create may have committed what was there        *)
                 (* before row k.                                          *)
                 committed(k) == {db} \cup {before(j) : j \in 1..k}
             IN
             \/ /\ lost \cup clashes = {}
                /\ db' = WithRows(kept, asked, scenarios, Len(asked) + Len(scenarios))
                /\ view' = db'
                /\ Ends("imported")
                /\ UNCHANGED broken
             \/ \E k \in lost :
                  /\ earlier(k, lost \cup clashes)
                  /\ db' \in committed(k)
                  /\ view' = before(k)
                  /\ Ends("failed")
                  /\ UNCHANGED broken
             \/ \E k \in clashes :
                  /\ earlier(k, lost \cup clashes)
                  /\ db' \in committed(k)
                  /\ view' = db'
                  /\ broken' = TRUE
                  /\ Ends("failed")
  /\ Untouched

-----------------------------------------------------------------------------
(* What happens around the script.                                         *)

(* The container is stopped. *)
Crash ==
  /\ pc # "off"
  /\ crashes < MaxCrashes
  /\ crashes' = crashes + 1
  /\ Gone
  /\ UNCHANGED <<files, newer, networks, db, broken, outcome, starts, changes>>

(* The files of a directory are written anew, between two starts; the      *)
(* times of the subsystems and the geodata count, those of the others do   *)
(* not.                                                                    *)
Modify ==
  /\ pc = "off"
  /\ starts > 0
  /\ changes < MaxChanges
  /\ changes' = changes + 1
  /\ \E d \in Dirs, c \in Rewritten :
       /\ files' = [files EXCEPT ![d] = c]
       /\ \/ newer' = newer \cup {n \in Ids : case[n] \in {<<d, name>> : name \in CaseNames}}
          \/ /\ c.subsystems = files[d].subsystems
             /\ c.geodata = files[d].geodata
             /\ newer' = newer
  /\ outcome' = [d \in Dirs |-> "none"]
  /\ UNCHANGED <<networks, db, view, broken, pc, place, starts, crashes>>

(* Wrong on purpose: the user's case_name is taken. *)
CaseReplaced(old, new) == new

(* update_network: a configuration that comes with a case_name does not    *)
(* replace the one the network has.                                        *)
CaseAfter(old, new) == IF old # NoCase THEN old ELSE new

(* A scenario that a session has deleted and not committed cannot be made  *)
(* the default.                                                            *)
UpdateNetwork ==
  /\ changes < MaxChanges
  /\ changes' = changes + 1
  /\ \E n \in Ids, new \in Cases :
       /\ case[n] # NoCase
       /\ case' = [case EXCEPT ![n] = CaseAfter(@, new)]
       /\ \E s \in (db[n].scenarios \cap view[n].scenarios) \cup {default[n]} :
            /\ default' = [default EXCEPT ![n] = s]
            /\ had' = IF n = net THEN had \cup {s} ELSE had
  /\ UNCHANGED <<files, newer, created, db, view, broken, pc, dir, net, left, outcome,
                 starts, crashes>>

ImportSubsystems ==
  \/ InsertBuses
  \/ InsertLines("branch", "trafo")
  \/ InsertLines("trafo", "trafo3w")
  \/ InsertLines("trafo3w", "geodata")

Next ==
  \/ Start \/ LoadMetadata \/ Stop
  \/ SessionBroken \/ FindNetwork \/ CreateNetwork
  \/ ImportSubsystems
  \/ DrawLines
  \/ ImportRequests
  \/ Crash \/ Modify \/ UpdateNetwork

Spec == Init /\ [][Next]_vars

-----------------------------------------------------------------------------
ASSUME ContentsAssumption == Contents \subseteq Content /\ Rewritten \subseteq Contents

Places == {"off", "next", "network", "buses", "geodata", "requests"} \cup Kinds
Outcomes == {"none", "skipped", "refused", "failed", "imported"}

(* The foreign keys of a network's rows, and the unique bus numbers. *)
Closed(g) ==
  LET keys == {b.key : b \in g.buses} IN
  /\ \A b, c \in g.buses : b.key[1] = c.key[1] => b = c
  /\ \A l \in g.lines : \A k \in DOMAIN l.ends : l.ends[k] \in keys
  /\ \A r \in g.requests : r.bus \in keys

TypeOK ==
  /\ files \in [Dirs -> Contents]
  /\ newer \subseteq Ids
  /\ created \in 0..MaxNetworks
  /\ case \in [Ids -> Cases \cup {NoCase}]
  /\ \A n \in Ids : case[n] # NoCase <=> n <= created
  /\ default \in [Ids -> Keys \cup {NoScenario}]
  /\ \A n \in Ids : Closed(db[n]) /\ Closed(view[n])
  /\ broken \in BOOLEAN
  /\ pc \in Places
  /\ dir \in Dirs \cup {NoCase}
  /\ net \in Ids \cup {0}
  /\ left \subseteq Dirs
  /\ outcome \in [Dirs -> Outcomes]

-----------------------------------------------------------------------------
(* Start-up never makes two networks with one case_name, through crashes   *)
(* between the creation and the end of an import, changes of a directory's *)
(* case_name and back, and whatever configurations users send: cli.py      *)
(* finds a network by the case_name that update_network keeps              *)
(* (networks/service.py:133).                                              *)
OneNetworkPerCase ==
  \A m, n \in Ids : case[m] = case[n] /\ case[m] # NoCase => m = n

(* What the files say of a network is there, and is shown: all buses and   *)
(* lines, every bus a feature names at a position, every line between two  *)
(* such buses drawn (find_branches_geojson and find_trafos_geojson leave   *)
(* out what has no geometry), a request for each row that names a bus, if  *)
(* numbers are not read as floating point (then there are none), each      *)
(* scenario once, and of those there were at most one, the default.        *)
Named(c) ==
  UNION {{f.ends[k] : k \in DOMAIN f.ends} :
           f \in {c.geodata.features[k] : k \in {j \in DOMAIN c.geodata.features :
                                           c.geodata.features[j].typ \in {"bus", "branch"}}}}
Whole(g, c) ==
  LET numbers == {c.subsystems.buses[k] : k \in DOMAIN c.subsystems.buses}
      lineAt(kind, k) == {l \in g.lines : l.kind = kind /\ l.ix = k}
      rows == c.sheet.requests
      filled == {k \in DOMAIN rows : rows[k].node.is # "blank"}
      asked == {<<rows[k].project, rows[k].node.of>> : k \in filled}
      codes == {c.sheet.scenarios[k].code : k \in DOMAIN c.sheet.scenarios}
  IN
  /\ {b.key[1] : b \in g.buses} = numbers
  /\ {key[1] : key \in Located(g.buses)} = numbers \cap Named(c)
  /\ \A kind \in Kinds : \A k \in DOMAIN c.subsystems[kind] :
       /\ Cardinality(lineAt(kind, k)) = 1
       /\ \A l \in lineAt(kind, k) :
            /\ [e \in DOMAIN l.ends |-> l.ends[e][1]] = c.subsystems[kind][k]
            /\ kind # "trafo3w" /\ {l.ends[1][1], l.ends[2][1]} \subseteq Named(c)
               => l.geom # NoGeom
  /\ ~AsFloats(rows) =>
       {<<r.project, r.bus[1]>> : r \in g.requests} = {q \in asked : q[2] \in numbers}
  /\ codes \subseteq {s[1] : s \in g.scenarios}
  /\ \A s, t \in g.scenarios : s[1] = t[1] \/ {s[1], t[1]} \cap codes = {} => s = t

(* "... is complete" in the log (cli.py:133) means that the network is     *)
(* whole, to the end of the start, whatever the directories before it left *)
(* in the session and those after it commit or roll back.                  *)
ImportedIsWhole ==
  \A d \in Dirs : outcome[d] = "imported" =>
    \E n \in Ids : case[n] = CaseOf(d) /\ Whole(db[n], files[d])

(* A directory that is answered "been imported already" (cli.py:65) has    *)
(* been imported: its network, if the files are the same as then, is whole.*)
RefusedIsWhole ==
  \A d \in Dirs : outcome[d] = "refused" =>
    \E n \in Ids : case[n] = CaseOf(d) /\ (n \in newer \/ Whole(db[n], files[d]))

(* What is committed of a network changes only while a directory that has  *)
(* its case_name is under way, or has failed in this start: a commit of    *)
(* one directory never takes along anything of a network that was          *)
(* imported, refused, not there, or that no directory is of any more,      *)
(* although all share one session.                                         *)
OnlyUnfinished ==
  \A n \in Ids : db'[n] # db[n] =>
    \E d \in Dirs : case[n] = CaseOf(d) /\ outcome[d] \in {"none", "failed"}
OnlyUnfinishedChange == [][OnlyUnfinished]_vars

(* The files of a directory can be imported whatever the others hold: the  *)
(* schemas take them, and so do the columns and the queries (geometries of *)
(* the kind their feature needs, winding numbers in quotes).               *)
Fine(c) ==
  LET s == c.subsystems
      numbers == {s.buses[k] : k \in DOMAIN s.buses}
      known == numbers \cap Named(c)
      asked == Document(c.sheet.requests)
      scenarios == c.sheet.scenarios
  IN
  /\ {c.metadata, s.is, c.geodata.is, c.sheet.is} = {"ok"}
  /\ Cardinality(numbers) = Len(s.buses)
  /\ \A kind \in Kinds : \A k \in DOMAIN s[kind] : \A e \in DOMAIN s[kind][k] :
       s[kind][k][e] \in numbers
  /\ s.integers = {}
  /\ \A k \in DOMAIN c.geodata.features :
       LET f == c.geodata.features[k]
       IN f.typ # "trafo" /\ (IF f.typ = "bus" THEN FitsBus(f) ELSE FitsLine(f))
  /\ \E a, b \in known : BusGeom(a, c.geodata.features) # BusGeom(b, c.geodata.features)
  /\ Converts(c.sheet)
  /\ Cardinality({asked[k] : k \in DOMAIN asked}) = Len(asked)
  /\ Cardinality({scenarios[k].code : k \in DOMAIN scenarios}) = Len(scenarios)
  /\ \A k \in DOMAIN asked : asked[k].node \notin numbers \ known

(* At the end of a start such a directory has been imported or is refused  *)
(* as imported already, unless a flush failed in this start, for another   *)
(* directory or for the code of its own default scenario: no other         *)
(* exception (process() goes on after it) keeps it out.                    *)
FineDirectoryImported ==
  [][pc = "next" /\ pc' = "off" /\ left = {} /\ ~broken =>
       \A d \in Dirs : Fine(files[d]) => outcome[d] \in {"imported", "refused"}]_vars

(* A branch that is on the map (find_branches_geojson) ends at two buses   *)
(* that are on it too (find_buses_geojson), at any commit, also when an    *)
(* import of geodata failed and its buses were committed by another's.     *)
DrawnBranchesAreLocated ==
  \A n \in Ids : \A l \in Lines(db[n], "branch") :
    l.geom # NoGeom => {l.ends[1], l.ends[2]} \subseteq Located(db[n].buses)
=============================================================================

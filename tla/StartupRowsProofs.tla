------------------------- MODULE StartupRowsProofs -------------------------
(***************************************************************************)
(* Proofs about the rows StartupImport leaves: their foreign keys, the     *)
(* positions of what is on the map, and that what is logged as complete is *)
(* whole.  For any directories, files of any length, and any number of     *)
(* networks, starts, crashes and changes.                                  *)
(***************************************************************************)
EXTENDS StartupImportProofs, FiniteSetTheorems, WellFoundedInduction

(* The first of what fits. *)
LEMMA Least ==
  ASSUME NEW S, S \subseteq Nat, S # {}
  PROVE  \E k \in S : \A j \in S : k <= j
<1>1. PICK k \in S : \A j \in S : <<j, k>> \notin OpToRel(<, Nat)
  BY NatLessThanWellFounded, WFMin
<1>2. \A j \in S : ~(j < k)
  BY <1>1 DEF OpToRel
<1> QED BY <1>2

LEMMA FirstOf ==
  ASSUME NEW features \in Seq(Feature), NEW fitting \in SUBSET DOMAIN features
  PROVE  /\ fitting = {} => First(features, fitting) = NoFeature
         /\ fitting # {} => /\ First(features, fitting) \in {features[k] : k \in fitting}
                            /\ First(features, fitting) \in Feature
                            /\ First(features, fitting) # NoFeature
<1>1. \A k \in DOMAIN features : features[k] \in Feature
  OBVIOUS
<1>2. \A f \in Feature : f # NoFeature
  BY DEF Feature, NoFeature
<1>3. CASE fitting = {}
  BY <1>3 DEF First
<1>4. CASE fitting # {}
  <2> DEFINE first == CHOOSE k \in fitting : \A j \in fitting : k <= j
  <2>1. fitting \subseteq Nat
    OBVIOUS
  <2>2. first \in fitting
    BY <1>4, <2>1, Least
  <2>3. First(features, fitting) = features[first]
    BY <1>4 DEF First
  <2> QED BY <1>1, <1>2, <1>4, <2>2, <2>3
<1> QED BY <1>3, <1>4

(* A bus has a position when the geodata names it, and only then. *)
LEMMA BusGeomIs ==
  ASSUME NEW c \in Content, NEW number
  PROVE  /\ BusGeom(number, c.geodata.features) \in Seq(Int)
         /\ BusGeom(number, c.geodata.features) # NoGeom <=> number \in Named(c)
<1> DEFINE F == c.geodata.features
           touching == OfBranch(F, number)
           own == First(F, OfBus(F, number))
           branch == First(F, touching)
<1>1. F \in Seq(Feature) /\ \A k \in DOMAIN F : F[k] \in Feature
  BY DEF Content, Geodata
<1>2. \A k \in DOMAIN F :
        /\ F[k].typ = "bus" => \E n \in Numbers : F[k].ends = <<n>>
        /\ F[k].typ = "branch" => F[k].ends \in Numbers \X Numbers
        /\ F[k].at \in Seq(Int) /\ F[k].at # <<>>
  BY <1>1 DEF Feature, Line, Coordinates
<1>3. number \in Named(c) <=>
        \E k \in DOMAIN F : F[k].typ \in {"bus", "branch"}
                            /\ \E e \in DOMAIN F[k].ends : F[k].ends[e] = number
  BY DEF Named
<1>4. number \in Named(c) <=> OfBus(F, number) # {} \/ touching # {}
  <2>1. ASSUME NEW k \in DOMAIN F, F[k].typ = "bus"
        PROVE  (\E e \in DOMAIN F[k].ends : F[k].ends[e] = number) <=> F[k].ends[1] = number
    BY <1>2, <2>1
  <2>2. ASSUME NEW k \in DOMAIN F, F[k].typ = "branch"
        PROVE  (\E e \in DOMAIN F[k].ends : F[k].ends[e] = number)
                 <=> number \in {F[k].ends[1], F[k].ends[2]}
    BY <1>2, <2>2
  <2> QED BY <1>3, <2>1, <2>2 DEF OfBus, OfBranch
<1>5. OfBus(F, number) \in SUBSET DOMAIN F /\ touching \in SUBSET DOMAIN F
  BY DEF OfBus, OfBranch
<1>6. /\ OfBus(F, number) = {} => own = NoFeature
      /\ OfBus(F, number) # {} => own \in Feature /\ own # NoFeature
  BY <1>1, <1>5, FirstOf
<1>7. /\ touching = {} => branch = NoFeature
      /\ touching # {} => branch \in Feature /\ branch # NoFeature
  BY <1>1, <1>5, FirstOf
<1>8. BusGeom(number, F) =
        IF own # NoFeature THEN own.at
        ELSE IF branch = NoFeature THEN NoGeom
        ELSE <<branch.at[IF number = branch.ends[1] THEN 1 ELSE Len(branch.at)]>>
  BY DEF BusGeom
<1> HIDE DEF F, own, branch, touching
<1>9. CASE own # NoFeature
  <2>1. own.at \in Seq(Int) /\ own.at # <<>>
    BY <1>6, <1>9 DEF Feature, Coordinates
  <2> QED BY <1>4, <1>6, <1>8, <1>9, <2>1 DEF NoGeom, F
<1>10. CASE own = NoFeature /\ branch # NoFeature
  <2> DEFINE at == branch.at[IF number = branch.ends[1] THEN 1 ELSE Len(branch.at)]
  <2>1. branch.at \in Seq(Int) /\ branch.at # <<>>
    BY <1>7, <1>10 DEF Feature, Coordinates
  <2>2. at \in Int
    BY <2>1
  <2>3. BusGeom(number, F) = <<at>>
    BY <1>8, <1>10
  <2> HIDE DEF at
  <2> QED BY <1>4, <1>7, <1>10, <2>2, <2>3 DEF NoGeom, F
<1>11. CASE own = NoFeature /\ branch = NoFeature
  BY <1>4, <1>6, <1>7, <1>8, <1>11 DEF NoGeom, F
<1> QED BY <1>9, <1>10, <1>11

-----------------------------------------------------------------------------
(* The rows of a network at any moment, committed or not. *)
LocatedInv(g) ==
  \A l \in Lines(g, "branch") :
    l.geom # NoGeom => {l.ends[1], l.ends[2]} \subseteq Located(g.buses)

(* What there is of a network. *)
NetworkRows(buses, lines, requests, scenarios) ==
  [buses |-> buses, lines |-> lines, requests |-> requests, scenarios |-> scenarios]

Sound(g) ==
  /\ g = NetworkRows(g.buses, g.lines, g.requests, g.scenarios)
  /\ g.scenarios \subseteq Keys
  /\ Closed(g)
  /\ \A b \in g.buses : b.geom \in Seq(Int)
  /\ \A l \in g.lines : 1 \in DOMAIN l.ends /\ (l.kind = "branch" => 2 \in DOMAIN l.ends)
  /\ LocatedInv(g)

AllSound(v) == \A n \in Ids : Sound(v[n])
RowsInv == AllSound(db) /\ AllSound(view)

LEMMA Replaced ==
  ASSUME NEW g, g = NetworkRows(g.buses, g.lines, g.requests, g.scenarios), NEW new
  PROVE  /\ [g EXCEPT !.buses = new] = NetworkRows(new, g.lines, g.requests, g.scenarios)
         /\ [g EXCEPT !.lines = new] = NetworkRows(g.buses, new, g.requests, g.scenarios)
BY DEF NetworkRows

LEMMA EmptySound == Sound(Empty)
BY DEF Sound, Closed, LocatedInv, Lines, Empty, NetworkRows

LEMMA SetSound ==
  ASSUME SessionInv, RowsInv, NEW g, Sound(g)
  PROVE  AllSound(NetSet(view, g))
BY DEF SessionInv, RowsInv, AllSound, NetSet

LEMMA BusOfIs ==
  ASSUME NEW number, KnownBus(number)
  PROVE  BusOf(number) \in view[net].buses /\ BusOf(number).key[1] = number
BY DEF KnownBus, BusOf

(* The types of what the other invariants say nothing of. *)
TypesInv ==
  /\ files \in [Dirs -> Contents]
  /\ newer \subseteq Ids
  /\ default \in [Ids -> Keys \cup {NoScenario}]
  /\ starts \in Nat
  /\ broken \in BOOLEAN
  /\ dir \in Dirs \cup {NoCase}
  /\ net \in Ids \cup {0}
  /\ outcome \in [Dirs -> Outcomes]

AtWork == pc \in Working \ {"network"}

LEMMA Here ==
  ASSUME TypesInv, SessionInv, AtWork
  PROVE  files[dir] \in Content /\ net \in Ids
BY ContentsAssumption DEF TypesInv, SessionInv, AtWork, Working, Places

LEMMA LineType ==
  ASSUME NEW c \in Content, NEW kind \in Kinds, NEW k \in DOMAIN c.subsystems[kind]
  PROVE  /\ DOMAIN c.subsystems[kind] \subseteq Nat
         /\ \A j \in 1..k : j \in DOMAIN c.subsystems[kind]
         /\ k \in 1..k
         /\ 1 \in DOMAIN c.subsystems[kind][k] /\ 2 \in DOMAIN c.subsystems[kind][k]
<1>1. c.subsystems \in Subsystems
  BY DEF Content
<1>2. CASE kind = "branch"
  <2>1. c.subsystems[kind] \in Seq(Numbers \X Numbers)
    BY <1>1, <1>2 DEF Subsystems, Line
  <2> QED BY <2>1
<1>3. CASE kind = "trafo"
  <2>1. c.subsystems[kind] \in Seq(Numbers \X Numbers)
    BY <1>1, <1>3 DEF Subsystems, Line
  <2> QED BY <2>1
<1>4. CASE kind = "trafo3w"
  <2>1. c.subsystems[kind] \in Seq(Numbers \X Numbers \X Numbers)
    BY <1>1, <1>4 DEF Subsystems
  <2> QED BY <2>1
<1> QED BY <1>2, <1>3, <1>4 DEF Kinds

-----------------------------------------------------------------------------
(* The deletion of the buses leaves the scenarios of a network, as every   *)
(* line and request is of one of them.                                     *)
NewBuses ==
  LET numbers == files[dir].subsystems.buses
  IN {BusRow(numbers[k], NoGeom) : k \in DOMAIN numbers}
NoRows == NetworkRows({}, {}, {}, view[net].scenarios)
OnlyBuses == NetworkRows(NewBuses, {}, {}, view[net].scenarios)

LEMMA OnlyBusesSound == ASSUME RowsInv, net \in Ids PROVE Sound(OnlyBuses)
<1>1. Closed(OnlyBuses)
  BY DEF Closed, OnlyBuses, NewBuses, BusRow, NetworkRows
<1>2. NoGeom \in Seq(Int)
  BY DEF NoGeom
<1>3. \A b \in OnlyBuses.buses : b.geom \in Seq(Int)
  BY <1>2 DEF OnlyBuses, NewBuses, BusRow, NetworkRows
<1>4. view[net].scenarios \subseteq Keys
  BY DEF RowsInv, AllSound, Sound
<1> QED BY <1>1, <1>3, <1>4 DEF Sound, LocatedInv, Lines, OnlyBuses, NetworkRows

LEMMA InsertBusesRows ==
  ASSUME TypesInv, SessionInv, RowsInv, InsertBuses
  PROVE  /\ net \in Ids
         /\ \/ Unreadable(files[dir].subsystems) \/ Breaks
            \/ files[dir].subsystems.is = "ok" /\ Commits(NetSet(view, OnlyBuses), "branch")
<1>1. AtWork /\ net \in Ids
  BY Here DEF AtWork, InsertBuses, Working, Places
<1>2. Sound(view[net])
  BY <1>1 DEF RowsInv, AllSound
<1>3. WithoutBuses(view, net) = NetSet(view, NoRows)
  <2> DEFINE gone == {b.key : b \in view[net].buses}
  <2>1. {l \in view[net].lines : \A k \in DOMAIN l.ends : l.ends[k] \notin gone} = {}
    BY <1>2 DEF Sound, Closed
  <2>2. {r \in view[net].requests : r.bus \notin gone} = {}
    BY <1>2 DEF Sound, Closed
  <2>3. NoRows = [buses |-> {}, scenarios |-> view[net].scenarios, lines |-> {}, requests |-> {}]
    BY DEF NoRows, NetworkRows
  <2> QED BY <2>1, <2>2, <2>3 DEF WithoutBuses, NetSet
<1>4. [NetSet(view, NoRows) EXCEPT ![net].buses = NewBuses] = NetSet(view, OnlyBuses)
  <2>1. DOMAIN view = Ids
    BY DEF SessionInv
  <2>2. NetSet(view, NoRows)[net] = NoRows
    BY <1>1, <2>1 DEF NetSet
  <2>3. [NoRows EXCEPT !.buses = NewBuses] = OnlyBuses
    BY DEF NoRows, OnlyBuses, NetworkRows
  <2>4. [NetSet(view, NoRows) EXCEPT ![net].buses = NewBuses] = [NetSet(view, NoRows) EXCEPT ![net] = OnlyBuses]
    BY <2>2, <2>3
  <2> QED BY <2>4 DEF NetSet
<1> QED BY <1>1, <1>3, <1>4 DEF InsertBuses, NewBuses

LEMMA LinesSound ==
  ASSUME TypesInv, SessionInv, RowsInv, AtWork, NEW kind \in Kinds,
         NEW K \in SUBSET DOMAIN files[dir].subsystems[kind],
         \A k \in K : \A e \in DOMAIN files[dir].subsystems[kind][k] :
           KnownBus(files[dir].subsystems[kind][k][e])
  PROVE  Sound([view[net] EXCEPT !.lines =
                  @ \cup {LineRow(kind, k, files[dir].subsystems[kind][k]) : k \in K}])
<1> DEFINE g == view[net]
           rows == {LineRow(kind, k, files[dir].subsystems[kind][k]) : k \in K}
           h == [g EXCEPT !.lines = @ \cup rows]
<1>1. Sound(g)
  BY Here DEF RowsInv, AllSound
<1>2. h = NetworkRows(g.buses, g.lines \cup rows, g.requests, g.scenarios)
  <2> HIDE DEF g, rows
  <2> QED BY <1>1, Replaced DEF Sound
<1> USE DEF NetworkRows
<1>3. ASSUME NEW l \in rows
      PROVE  /\ l.kind = kind /\ l.geom = NoGeom /\ {1, 2} \subseteq DOMAIN l.ends
             /\ \A e \in DOMAIN l.ends : l.ends[e] \in {b.key : b \in g.buses}
  <2>1. PICK k \in K : l = LineRow(kind, k, files[dir].subsystems[kind][k])
    OBVIOUS
  <2>2. {1, 2} \subseteq DOMAIN files[dir].subsystems[kind][k]
    BY Here, LineType
  <2>3. \A e \in DOMAIN files[dir].subsystems[kind][k] :
          BusOf(files[dir].subsystems[kind][k][e]) \in g.buses
    BY BusOfIs
  <2> QED BY <2>1, <2>2, <2>3 DEF LineRow
<1> HIDE DEF g, rows
<1>4. Closed(h)
  BY <1>1, <1>2, <1>3 DEF Sound, Closed
<1>5. LocatedInv(h)
  BY <1>1, <1>2, <1>3 DEF Sound, LocatedInv, Lines
<1>6. \A l \in h.lines : 1 \in DOMAIN l.ends /\ (l.kind = "branch" => 2 \in DOMAIN l.ends)
  BY <1>1, <1>2, <1>3 DEF Sound
<1>7. Sound(h)
  BY <1>1, <1>2, <1>4, <1>5, <1>6 DEF Sound
<1> QED BY <1>7 DEF g, rows

(* Rows are inserted up to the first that names an unknown bus, or by an   *)
(* integer.                                                                *)
LEMMA InsertLinesRows ==
  ASSUME TypesInv, SessionInv, RowsInv, NEW kind \in Kinds, NEW next, InsertLines(kind, next)
  PROVE  \E K \in SUBSET DOMAIN files[dir].subsystems[kind] :
           LET lines == files[dir].subsystems[kind]
               g == [view[net] EXCEPT !.lines = @ \cup {LineRow(kind, k, lines[k]) : k \in K}]
           IN /\ Sound(g)
              /\ \/ K = DOMAIN lines /\ Commits(NetSet(view, g), next)
                 \/ /\ Raises(NetSet(view, g))
                    /\ \E k \in DOMAIN lines : \E e \in DOMAIN lines[k] : ~Lookup(kind, k, lines[k][e])
              /\ \A k \in K : \A e \in DOMAIN lines[k] : KnownBus(lines[k][e])
<1> DEFINE lines == files[dir].subsystems[kind]
           known(k) == \A e \in DOMAIN lines[k] : Lookup(kind, k, lines[k][e])
           K == {k \in DOMAIN lines : \A j \in 1..k : known(j)}
           g == [view[net] EXCEPT !.lines = @ \cup {LineRow(kind, k, lines[k]) : k \in K}]
<1>1. AtWork
  BY DEF AtWork, InsertLines, Working, Places, Kinds
<1>2. files[dir] \in Content
  BY <1>1, Here
<1>3. \A k \in K : known(k)
  BY <1>2, LineType
<1>4. Sound(g)
  BY <1>1, <1>3, LinesSound DEF Lookup
<1>5. IF K = DOMAIN lines THEN Commits(NetSet(view, g), next) ELSE Raises(NetSet(view, g))
  BY DEF InsertLines, NetSet
<1>6. K # DOMAIN lines => \E k \in DOMAIN lines : ~known(k)
  BY <1>2, LineType
<1> HIDE DEF g
<1>7. \A k \in K : \A e \in DOMAIN lines[k] : KnownBus(lines[k][e])
  BY <1>3 DEF Lookup
<1> QED BY <1>4, <1>5, <1>6, <1>7 DEF g

-----------------------------------------------------------------------------
(* What the geodata makes of the buses: the same buses, none of them       *)
(* without the position it had, and those that are named with one.         *)
LEMMA MapIs ==
  ASSUME NEW c \in Content, NEW g, \A b \in g.buses : b.geom \in Seq(Int)
  PROVE  LET F == c.geodata.features
             buses == BusesOnMap(g, F)
         IN /\ buses = {Mapped(b, F) : b \in g.buses}
            /\ {b.key : b \in buses} = {b.key : b \in g.buses}
            /\ \A b \in buses : b.geom \in Seq(Int)
            /\ \A b \in g.buses :
                 b.geom # NoGeom \/ b.key[1] \in Named(c) => b.key \in Located(buses)
<1> DEFINE F == c.geodata.features
           buses == BusesOnMap(g, F)
<1>1. buses = {Mapped(b, F) : b \in g.buses}
  BY DEF BusesOnMap
<1>2. ASSUME NEW b \in g.buses
      PROVE  /\ Mapped(b, F).key = b.key
             /\ Mapped(b, F).geom \in Seq(Int)
             /\ b.geom # NoGeom \/ b.key[1] \in Named(c) => Mapped(b, F).geom # NoGeom
  BY BusGeomIs DEF Mapped
<1> HIDE DEF buses
<1>3. {b.key : b \in buses} = {b.key : b \in g.buses}
  BY <1>1, <1>2
<1>4. \A b \in buses : b.geom \in Seq(Int)
  BY <1>1, <1>2
<1>5. ASSUME NEW b \in g.buses, b.geom # NoGeom \/ b.key[1] \in Named(c)
      PROVE  b.key \in Located(buses)
  BY <1>1, <1>2, <1>5 DEF Located
<1> QED BY <1>1, <1>3, <1>4, <1>5 DEF buses

(* Some of the buses mapped, when the loop raises.                         *)
LEMMA SomeMapped ==
  ASSUME NEW c \in Content, NEW g, Sound(g), NEW some
  PROVE  Sound([g EXCEPT !.buses = {IF b \in some THEN Mapped(b, c.geodata.features) ELSE b : b \in @}])
<1> DEFINE F == c.geodata.features
           moved(b) == IF b \in some THEN Mapped(b, F) ELSE b
           buses == {moved(b) : b \in g.buses}
           h == [g EXCEPT !.buses = buses]
<1>1. ASSUME NEW b \in g.buses
      PROVE  /\ moved(b).key = b.key
             /\ moved(b).geom \in Seq(Int)
             /\ b.geom # NoGeom => moved(b).geom # NoGeom
  BY BusGeomIs DEF Mapped, Sound
<1> HIDE DEF moved
<1>2. h = NetworkRows(buses, g.lines, g.requests, g.scenarios)
  BY Replaced DEF Sound
<1>3. {b.key : b \in buses} = {b.key : b \in g.buses} /\ \A b \in buses : b.geom \in Seq(Int)
  BY <1>1
<1>4. \A key \in Located(g.buses) : key \in Located(buses)
  BY <1>1 DEF Located
<1>5. \A a, b \in buses : a.key[1] = b.key[1] => a = b
  BY <1>1 DEF Sound, Closed
<1> HIDE DEF buses, h
<1>6. Closed(h)
  BY <1>2, <1>3, <1>5 DEF Sound, Closed, NetworkRows
<1>7. LocatedInv(h)
  <2>1. Lines(h, "branch") = Lines(g, "branch") /\ h.buses = buses
    BY <1>2 DEF Lines, NetworkRows
  <2> QED BY <1>4, <2>1 DEF Sound, LocatedInv
<1>8. Sound(h)
  BY <1>2, <1>3, <1>6, <1>7 DEF Sound, NetworkRows
<1> QED BY <1>8 DEF h, buses, moved

(* A branch that has a feature ends at buses the geodata names. *)
LEMMA BranchFeatureIs ==
  ASSUME NEW c \in Content, NEW l, BranchFeature(l, c.geodata.features) # NoFeature
  PROVE  /\ l.ends[1][1] \in Named(c) /\ l.ends[2][1] \in Named(c)
         /\ BranchFeature(l, c.geodata.features).at # NoGeom
<1> DEFINE F == c.geodata.features
           fitting == {k \in DOMAIN F : /\ F[k].typ = "branch"
                                        /\ F[k].ends = <<l.ends[1][1], l.ends[2][1]>>}
<1>1. F \in Seq(Feature)
  BY DEF Content, Geodata
<1>2. BranchFeature(l, F) = First(F, fitting)
  BY DEF BranchFeature
<1>3. fitting \in SUBSET DOMAIN F
  OBVIOUS
<1>4. First(F, fitting) \in Feature /\ fitting # {}
  BY <1>1, <1>2, <1>3, FirstOf
<1>5. PICK k \in DOMAIN F : F[k].typ = "branch" /\ F[k].ends = <<l.ends[1][1], l.ends[2][1]>>
  BY <1>4
<1>6. F[k].ends[1] = l.ends[1][1] /\ F[k].ends[2] = l.ends[2][1] /\ DOMAIN F[k].ends = 1..2
  BY <1>5
<1>7. {F[k].ends[1], F[k].ends[2]} \subseteq Named(c)
  BY <1>5, <1>6 DEF Named
<1> QED BY <1>2, <1>4, <1>6, <1>7 DEF Feature, Coordinates, NoGeom

(* Lines drawn, or left as they are: what a trafo row may become. *)
SameLines(new, old) ==
  \A l \in new : \E m \in old : l.kind = m.kind /\ l.ix = m.ix /\ l.ends = m.ends

LEMMA RedrawnSound ==
  ASSUME NEW g, Sound(g), NEW c \in Content, NEW trafos, SameLines(trafos, Lines(g, "trafo"))
  PROVE  Sound(Redrawn(g, c.geodata.features, trafos))
<1> DEFINE F == c.geodata.features
           buses == BusesOnMap(g, F)
           branches == {DrawnBranch(l, buses, F) : l \in Lines(g, "branch")}
           lines == branches \cup trafos \cup Lines(g, "trafo3w")
           h == Redrawn(g, F, trafos)
<1>1. h = NetworkRows(buses, lines, g.requests, g.scenarios)
  BY DEF Redrawn, NetworkRows
<1>2. /\ buses = {Mapped(b, F) : b \in g.buses}
      /\ {b.key : b \in buses} = {b.key : b \in g.buses}
      /\ \A b \in buses : b.geom \in Seq(Int)
      /\ \A b \in g.buses :
           b.geom # NoGeom \/ b.key[1] \in Named(c) => b.key \in Located(buses)
  BY MapIs DEF Sound
<1>3. \A l \in Lines(g, "branch") :
        /\ DrawnBranch(l, buses, F).kind = "branch"
        /\ DrawnBranch(l, buses, F).ix = l.ix
        /\ DrawnBranch(l, buses, F).ends = l.ends
        /\ DrawnBranch(l, buses, F).geom =
             IF BranchFeature(l, F) = NoFeature THEN Straight(buses, l) ELSE BranchFeature(l, F).at
  BY DEF DrawnBranch, Draw, Lines
<1> HIDE DEF h, buses, branches
<1> USE DEF NetworkRows
<1>4. \A l \in lines : \E m \in g.lines : l.kind = m.kind /\ l.ends = m.ends
  BY <1>3 DEF branches, SameLines, Lines
<1>5. Closed(h)
  <2>1. \A a, b \in buses : a.key[1] = b.key[1] => a = b
    <3> SUFFICES ASSUME NEW a \in g.buses, NEW b \in g.buses,
                        Mapped(a, F).key[1] = Mapped(b, F).key[1]
                 PROVE  a = b
      BY <1>2
    <3> QED BY DEF Mapped, Sound, Closed
  <2>2. \A l \in lines : \A k \in DOMAIN l.ends : l.ends[k] \in {b.key : b \in buses}
    BY <1>2, <1>4 DEF Sound, Closed
  <2> QED BY <1>1, <1>2, <2>1, <2>2 DEF Sound, Closed
<1>6. ASSUME NEW l \in Lines(g, "branch"), DrawnBranch(l, buses, F).geom # NoGeom
      PROVE  {l.ends[1], l.ends[2]} \subseteq Located(buses)
  <2>1. l \in g.lines /\ {1, 2} \subseteq DOMAIN l.ends
    BY DEF Lines, Sound
  <2>2. PICK a \in g.buses, b \in g.buses : a.key = l.ends[1] /\ b.key = l.ends[2]
    BY <2>1 DEF Sound, Closed
  <2>3. CASE BranchFeature(l, F) # NoFeature
    <3>1. a.key[1] \in Named(c) /\ b.key[1] \in Named(c)
      BY <2>2, <2>3, BranchFeatureIs
    <3> QED BY <1>2, <2>2, <3>1
  <2>4. CASE BranchFeature(l, F) = NoFeature /\ {l.ends[1], l.ends[2]} \subseteq Located(buses)
    BY <2>4
  <2>5. CASE BranchFeature(l, F) = NoFeature /\ ~({l.ends[1], l.ends[2]} \subseteq Located(buses))
    <3>1. l.geom # NoGeom
      BY <1>3, <1>6, <2>5 DEF Straight
    <3>2. {l.ends[1], l.ends[2]} \subseteq Located(g.buses)
      BY <3>1 DEF Sound, LocatedInv
    <3>3. \A key \in Located(g.buses) : key \in Located(buses)
      BY <1>2 DEF Located
    <3> QED BY <3>2, <3>3
  <2> QED BY <2>3, <2>4, <2>5
<1>7. LocatedInv(h)
  <2>1. \A l \in trafos \cup Lines(g, "trafo3w") : l.kind # "branch"
    BY DEF SameLines, Lines
  <2> QED BY <1>1, <1>3, <1>6, <2>1 DEF LocatedInv, Lines, branches
<1>8. \A l \in h.lines : 1 \in DOMAIN l.ends /\ (l.kind = "branch" => 2 \in DOMAIN l.ends)
  BY <1>1, <1>4 DEF Sound
<1>9. Sound(h)
  BY <1>1, <1>2, <1>5, <1>7, <1>8 DEF Sound
<1> QED BY <1>9 DEF h

(* The trafos after the geodata: those with a feature have the geometry f  *)
(* of a branch, the others a straight line.                                *)
DrawnTrafo(l, g, features, f) ==
  Draw(l, IF HasTrafoFeature(l, features) THEN f.at ELSE Straight(BusesOnMap(g, features), l))
DrawnTrafos(g, features, f) == {DrawnTrafo(l, g, features, f) : l \in Lines(g, "trafo")}

LEMMA DrawLinesRows ==
  ASSUME TypesInv, SessionInv, RowsInv, DrawLines
  PROVE  LET g == view[net]
             F == files[dir].geodata.features
         IN \/ Unreadable(files[dir].geodata) \/ Breaks
            \/ g.buses = {} /\ Raises(view)
            \/ \E h : Sound(h) /\ Endless(g, F) # {} /\ Raises(NetSet(view, h))
            \/ \E trafos : /\ Sound(Redrawn(g, F, trafos))
                           /\ \E l \in Lines(g, "trafo") : HasTrafoFeature(l, F)
                           /\ Raises(NetSet(view, Redrawn(g, F, trafos)))
            \/ \E f : LET h == Redrawn(g, F, DrawnTrafos(g, F, f)) IN
                 /\ Sound(h)
                 /\ (\E l \in Lines(g, "trafo") : HasTrafoFeature(l, F)) => f \in Feature
                 /\ Commits(NetSet(view, h), "requests")
<1> DEFINE g == view[net]
           F == files[dir].geodata.features
           buses == BusesOnMap(g, F)
           featured == {l \in Lines(g, "trafo") : HasTrafoFeature(l, F)}
           plain == Lines(g, "trafo") \ featured
           br_f == IF Lines(g, "branch") = {} THEN {NoFeature}
                   ELSE {BranchFeature(l, F) : l \in Lines(g, "branch")}
<1>1. AtWork
  BY DEF AtWork, DrawLines, Working, Places, Kinds
<1>2. files[dir] \in Content /\ Sound(g)
  BY <1>1, Here DEF RowsInv, AllSound
<1>3. \A l, x : Draw(l, x).kind = l.kind /\ Draw(l, x).ix = l.ix /\ Draw(l, x).ends = l.ends
  BY DEF Draw
<1>4. ASSUME NEW some \in SUBSET plain
      PROVE  SameLines(Traced(buses, some) \cup (plain \ some) \cup featured, Lines(g, "trafo"))
  BY <1>3 DEF SameLines, Traced
<1>5. ASSUME NEW f
      PROVE  /\ SameLines(DrawnTrafos(g, F, f), Lines(g, "trafo"))
             /\ Traced(buses, plain) \cup {Draw(l, f.at) : l \in featured} = DrawnTrafos(g, F, f)
  <2>1. SameLines(DrawnTrafos(g, F, f), Lines(g, "trafo"))
    BY <1>3 DEF SameLines, DrawnTrafos, DrawnTrafo
  <2>2. \A l \in plain : Draw(l, Straight(buses, l)) = DrawnTrafo(l, g, F, f)
    BY DEF DrawnTrafo
  <2>3. \A l \in featured : Draw(l, f.at) = DrawnTrafo(l, g, F, f)
    BY DEF DrawnTrafo
  <2> QED BY <2>1, <2>2, <2>3 DEF DrawnTrafos, Traced
<1>6. \A f \in br_f : f # NoFeature => f \in Feature
  <2> SUFFICES ASSUME NEW l, BranchFeature(l, F) # NoFeature
               PROVE  BranchFeature(l, F) \in Feature
    OBVIOUS
  <2> DEFINE fitting == {k \in DOMAIN F : /\ F[k].typ = "branch"
                                          /\ F[k].ends = <<l.ends[1][1], l.ends[2][1]>>}
  <2>1. F \in Seq(Feature) /\ BranchFeature(l, F) = First(F, fitting)
    BY <1>2 DEF Content, Geodata, BranchFeature
  <2>2. fitting \in SUBSET DOMAIN F
    OBVIOUS
  <2> HIDE DEF F, fitting
  <2> QED BY <2>1, <2>2, FirstOf
<1>7. \/ Unreadable(files[dir].geodata) \/ Breaks
      \/ g.buses = {} /\ Raises(view)
      \/ LocateSome
      \/ \E some \in SUBSET plain :
           /\ featured # {}
           /\ Raises(NetSet(view, Redrawn(g, F, Traced(buses, some) \cup (plain \ some) \cup featured)))
      \/ \E f \in br_f :
           /\ featured # {} => f # NoFeature
           /\ Commits(NetSet(view, Redrawn(g, F,
                Traced(buses, plain) \cup {Draw(l, f.at) : l \in featured})), "requests")
  BY DEF DrawLines, NetSet
<1>10. ASSUME LocateSome
       PROVE  Breaks \/ \E h : Sound(h) /\ Endless(g, F) # {} /\ Raises(NetSet(view, h))
  <2>1. PICK some : \/ Breaks
                    \/ Raises([view EXCEPT ![net].buses =
                                 {IF b \in some THEN Mapped(b, F) ELSE b : b \in @}])
    BY <1>10 DEF LocateSome
  <2> DEFINE h == [g EXCEPT !.buses = {IF b \in some THEN Mapped(b, F) ELSE b : b \in @}]
  <2>2. [view EXCEPT ![net].buses = {IF b \in some THEN Mapped(b, F) ELSE b : b \in @}] = NetSet(view, h)
    BY DEF NetSet
  <2>3. Sound(h)
    BY <1>2, SomeMapped
  <2>4. Endless(g, F) # {}
    BY <1>10 DEF LocateSome
  <2> HIDE DEF h, F, g
  <2> QED BY <2>1, <2>2, <2>3, <2>4
<1> HIDE DEF g, F, buses, plain, br_f
<1>8. ASSUME NEW some \in SUBSET plain, featured # {},
             Raises(NetSet(view, Redrawn(g, F, Traced(buses, some) \cup (plain \ some) \cup featured)))
      PROVE  \E trafos : /\ Sound(Redrawn(g, F, trafos))
                        /\ \E l \in Lines(g, "trafo") : HasTrafoFeature(l, F)
                        /\ Raises(NetSet(view, Redrawn(g, F, trafos)))
  <2> DEFINE trafos == Traced(buses, some) \cup (plain \ some) \cup featured
  <2>1. Sound(Redrawn(g, F, trafos))
    BY <1>2, <1>4, RedrawnSound DEF F
  <2> QED BY <1>8, <2>1
<1>9. ASSUME NEW f \in br_f, featured # {} => f # NoFeature,
             Commits(NetSet(view, Redrawn(g, F,
               Traced(buses, plain) \cup {Draw(l, f.at) : l \in featured})), "requests")
      PROVE  LET h == Redrawn(g, F, DrawnTrafos(g, F, f)) IN
               /\ Sound(h)
               /\ (\E l \in Lines(g, "trafo") : HasTrafoFeature(l, F)) => f \in Feature
               /\ Commits(NetSet(view, h), "requests")
  <2>1. Sound(Redrawn(g, F, DrawnTrafos(g, F, f)))
    BY <1>2, <1>5, RedrawnSound DEF F
  <2>2. Commits(NetSet(view, Redrawn(g, F, DrawnTrafos(g, F, f))), "requests")
    BY <1>5, <1>9
  <2> QED BY <1>6, <1>9, <2>1, <2>2
<1> QED BY <1>7, <1>8, <1>9, <1>10 DEF g, F

(* Requests are of buses that are found. *)
LEMMA RequestsSound ==
  ASSUME TypesInv, SessionInv, RowsInv, AtWork, NEW kept, NEW asked, NEW k
  PROVE  AllSound(WithRows(kept, asked, files[dir].sheet.scenarios, k))
<1> DEFINE g == view[net]
           scenarios == files[dir].sheet.scenarios
           rows == {[project |-> r.project, bus |-> BusOf(r.node).key] : r \in Placed(asked, k)}
           codes == Kept(kept) \cup Planned(scenarios, k - Len(asked))
           h == NetworkRows(g.buses, g.lines, rows, codes)
<1>1. Sound(g) /\ files[dir] \in Content
  BY Here DEF RowsInv, AllSound
<1>2. \A r \in rows : r.bus \in {b.key : b \in g.buses}
  <2> SUFFICES ASSUME NEW q \in Placed(asked, k)
               PROVE  BusOf(q.node).key \in {b.key : b \in g.buses}
    OBVIOUS
  <2>1. KnownBus(q.node)
    BY DEF Placed
  <2> QED BY <2>1, BusOfIs
<1>3. codes \subseteq Keys
  <2>1. \A i \in DOMAIN scenarios : scenarios[i].code \in Codes
    <3> DEFINE Row == [code: Codes, fits: BOOLEAN]
    <3>1. scenarios \in Seq(Row) /\ \A r \in Row : r.code \in Codes
      BY <1>1 DEF Content, Sheet
    <3> HIDE DEF scenarios, Row
    <3> QED BY <3>1
  <2>2. Planned(scenarios, k - Len(asked)) \subseteq Keys
    BY <2>1 DEF Planned, Keys, TypesInv
  <2> QED BY <1>1, <2>2 DEF Kept, Sound
<1>4. WithRows(kept, asked, scenarios, k) = NetSet(view, h)
  BY DEF WithRows, NetSet, NetworkRows
<1> HIDE DEF g, rows, codes
<1>5. Sound(h)
  BY <1>1, <1>2, <1>3 DEF Sound, Closed, LocatedInv, Lines, NetworkRows
<1> QED BY <1>4, <1>5, SetSound

-----------------------------------------------------------------------------
(* What a step of an import may leave: sound rows, committed or not.       *)
LEMMA PartSound ==
  ASSUME RowsInv, NEW part, NEW v, NEW next, AllSound(v),
         \/ Unreadable(part) \/ Breaks \/ Raises(view) \/ Raises(v) \/ Commits(v, next)
  PROVE  RowsInv'
<1> USE DEF RowsInv, AllSound
<1>1. CASE Unreadable(part)
  BY <1>1 DEF Unreadable
<1>2. CASE Breaks
  BY <1>2 DEF Breaks
<1>3. CASE Raises(view) \/ Raises(v) \/ Commits(v, next)
  BY <1>3 DEF Raises, Commits
<1> QED BY <1>1, <1>2, <1>3

LEMMA InsertBusesSound == TypesInv /\ SessionInv /\ RowsInv /\ InsertBuses => RowsInv'
BY InsertBusesRows, OnlyBusesSound, SetSound, PartSound

LEMMA InsertLinesSound ==
  ASSUME TypesInv, SessionInv, RowsInv, NEW kind \in Kinds, NEW next, InsertLines(kind, next)
  PROVE  RowsInv'
<1>1. PICK g : Sound(g) /\ (Commits(NetSet(view, g), next) \/ Raises(NetSet(view, g)))
  BY InsertLinesRows
<1> QED BY <1>1, SetSound, PartSound

LEMMA DrawLinesSound == TypesInv /\ SessionInv /\ RowsInv /\ DrawLines => RowsInv'
<1> SUFFICES ASSUME TypesInv, SessionInv, RowsInv, DrawLines PROVE RowsInv' OBVIOUS
<1>1. \/ Unreadable(files[dir].geodata) \/ Raises(view) \/ Breaks
      \/ \E g : Sound(g) /\ (Commits(NetSet(view, g), "requests") \/ Raises(NetSet(view, g)))
  BY DrawLinesRows
<1>2. ASSUME NEW g, Sound(g), Commits(NetSet(view, g), "requests") \/ Raises(NetSet(view, g))
      PROVE  RowsInv'
  BY <1>2, SetSound, PartSound
<1>3. CASE Unreadable(files[dir].geodata) \/ Raises(view) \/ Breaks
  BY <1>3 DEF Unreadable, Raises, Breaks, RowsInv, AllSound
<1> QED BY <1>1, <1>2, <1>3

LEMMA ImportRequestsSound == TypesInv /\ SessionInv /\ RowsInv /\ ImportRequests => RowsInv'
<1> SUFFICES ASSUME TypesInv, SessionInv, RowsInv, ImportRequests PROVE RowsInv' OBVIOUS
<1>1. AtWork
  BY DEF AtWork, ImportRequests, Working, Places, Kinds
<1>2. \/ Unreadable(files[dir].sheet) \/ Raises(view)
      \/ \E v : AllSound(v) /\ db' = v /\ view' = db'
      \/ \E v, w : AllSound(v) /\ AllSound(w) /\ db' \in {db, v} /\ view' \in {w, db'}
  <2> DEFINE asked == Document(files[dir].sheet.requests)
             scenarios == files[dir].sheet.scenarios
             before(kept, k) == WithRows(kept, asked, scenarios, k - 1)
             committed(kept, k) == {db} \cup {before(kept, j) : j \in 1..k}
             all(kept) == WithRows(kept, asked, scenarios, Len(asked) + Len(scenarios))
  <2>1. \A kept, k : AllSound(before(kept, k)) /\ AllSound(all(kept))
    BY <1>1, RequestsSound
  <2>2. \/ Unreadable(files[dir].sheet) \/ Raises(view)
        \/ \E kept : db' = all(kept) /\ view' = db'
        \/ \E kept, k : db' \in committed(kept, k) /\ view' \in {before(kept, k), db'}
    BY DEF ImportRequests
  <2> HIDE DEF before, all
  <2>3. ASSUME NEW kept, NEW k, db' \in committed(kept, k), view' \in {before(kept, k), db'}
        PROVE  \E v, w : AllSound(v) /\ AllSound(w) /\ db' \in {db, v} /\ view' \in {w, db'}
    BY <2>1, <2>3
  <2> QED BY <2>1, <2>2, <2>3
<1>3. CASE Unreadable(files[dir].sheet) \/ Raises(view)
  BY <1>3 DEF Unreadable, Raises, RowsInv, AllSound
<1> QED BY <1>2, <1>3 DEF RowsInv, AllSound

LEMMA RowsInit == Init => RowsInv
<1> SUFFICES ASSUME Init, NEW n \in Ids PROVE Sound(db[n]) /\ Sound(view[n])
  BY DEF RowsInv, AllSound
<1>1. db[n] = Empty /\ view[n] = Empty
  BY DEF Init
<1> QED BY <1>1, EmptySound

LEMMA RowsStep == TypesInv /\ SessionInv /\ RowsInv /\ [Next]_vars => RowsInv'
<1> SUFFICES ASSUME TypesInv, SessionInv, RowsInv, [Next]_vars PROVE RowsInv' OBVIOUS
<1>1. ASSUME db' \in {db, view}, view' \in {db, view} PROVE RowsInv'
  BY <1>1 DEF RowsInv, AllSound
<1>2. CASE Start \/ LoadMetadata \/ Stop \/ SessionBroken \/ FindNetwork \/ CreateNetwork
  BY <1>1, <1>2 DEF Start, LoadMetadata, Stop, Gone, SessionBroken, FindNetwork, CreateNetwork
<1>3. CASE InsertBuses
  BY <1>3, InsertBusesSound
<1>4. CASE \/ InsertLines("branch", "trafo") \/ InsertLines("trafo", "trafo3w")
           \/ InsertLines("trafo3w", "geodata")
  BY <1>4, InsertLinesSound DEF Kinds
<1>5. CASE DrawLines
  BY <1>5, DrawLinesSound
<1>6. CASE ImportRequests
  BY <1>6, ImportRequestsSound
<1>7. CASE Crash \/ Modify \/ UpdateNetwork \/ UNCHANGED vars
  BY <1>1, <1>7 DEF Crash, Gone, Modify, UpdateNetwork, vars
<1> QED BY <1>2, <1>3, <1>4, <1>5, <1>6, <1>7 DEF Next, ImportSubsystems

-----------------------------------------------------------------------------
LEMMA OutcomeType ==
  ASSUME TypesInv, NEW d \in Dirs, NEW r \in Outcomes, outcome' = [outcome EXCEPT ![d] = r]
  PROVE  outcome' \in [Dirs -> Outcomes]
BY DEF TypesInv

LEMMA PartTypes ==
  ASSUME TypesInv, SessionInv, AtWork, Untouched, NEW part, NEW v, NEW next,
         \/ Unreadable(part) \/ Breaks \/ Raises(v) \/ Commits(v, next)
         \/ \E r \in {"imported", "failed"} : Ends(r) /\ broken' \in BOOLEAN
  PROVE  TypesInv'
<1>1. UNCHANGED <<files, newer, default, starts, dir, net>>
  BY DEF Untouched, networks, bounds, place, Unreadable, Breaks, Raises, Commits, Ends
<1>2. broken' \in BOOLEAN
  BY DEF TypesInv, Unreadable, Breaks, Raises, Commits
<1>3. dir \in Dirs
  BY DEF AtWork, SessionInv
<1>4. \/ \E r \in Outcomes : outcome' = [outcome EXCEPT ![dir] = r]
      \/ outcome' = outcome
  BY DEF Unreadable, Breaks, Raises, Commits, Ends, Outcomes
<1>5. outcome' \in [Dirs -> Outcomes]
  BY <1>3, <1>4, OutcomeType DEF TypesInv
<1> QED BY <1>1, <1>2, <1>5 DEF TypesInv

LEMMA ImportTypes ==
  ASSUME TypesInv, SessionInv, ImportSubsystems \/ DrawLines \/ ImportRequests
  PROVE  TypesInv'
<1>1. AtWork /\ Untouched
  BY DEF AtWork, ImportSubsystems, InsertBuses, InsertLines, DrawLines, ImportRequests, Working,
         Places, Kinds
<1>2. CASE InsertBuses
  BY <1>1, <1>2, PartTypes DEF InsertBuses
<1>3. ASSUME NEW kind, NEW next, InsertLines(kind, next) PROVE TypesInv'
  <2>1. \E v : Commits(v, next) \/ Raises(v)
    BY <1>3 DEF InsertLines
  <2> QED BY <1>1, <2>1, PartTypes
<1>4. CASE DrawLines
  <2>1. Unreadable(files[dir].geodata) \/ Breaks \/ \E v : Raises(v) \/ Commits(v, "requests")
    BY <1>4 DEF DrawLines, LocateSome
  <2> QED BY <1>1, <2>1, PartTypes
<1>5. CASE ImportRequests
  <2>1. \/ Unreadable(files[dir].sheet) \/ Raises(view)
        \/ Ends("imported") /\ broken' = broken
        \/ Ends("failed") /\ broken' \in {broken, TRUE}
    BY <1>5 DEF ImportRequests
  <2> QED BY <1>1, <2>1, PartTypes DEF TypesInv
<1> QED BY <1>2, <1>3, <1>4, <1>5 DEF ImportSubsystems

LEMMA TypesInit == Init => TypesInv
<1> SUFFICES ASSUME Init PROVE TypesInv OBVIOUS
<1>1. starts \in Nat /\ default \in [Ids -> Keys \cup {NoScenario}]
  BY DEF Init
<1>2. outcome \in [Dirs -> Outcomes]
  BY DEF Init, Outcomes
<1> QED BY <1>1, <1>2 DEF Init, TypesInv

LEMMA TypesStep == CasesInv /\ SessionInv /\ TypesInv /\ RowsInv /\ [Next]_vars => TypesInv'
<1> SUFFICES ASSUME CasesInv, SessionInv, TypesInv, RowsInv, [Next]_vars PROVE TypesInv' OBVIOUS
<1> USE DEF networks, place, bounds
<1>1. CASE Start \/ Stop \/ Crash
  <2>1. UNCHANGED <<files, newer, default>> /\ starts' \in Nat
    BY <1>1 DEF Start, Stop, Crash, Untouched, TypesInv
  <2>2. outcome' \in [Dirs -> Outcomes] /\ broken' \in BOOLEAN
    BY <1>1 DEF Start, Stop, Crash, TypesInv, Outcomes
  <2>3. dir' \in Dirs \cup {NoCase} /\ net' \in Ids \cup {0}
    BY <1>1 DEF Start, Stop, Crash, Gone, TypesInv
  <2> QED BY <2>1, <2>2, <2>3 DEF TypesInv
<1>2. CASE LoadMetadata
  <2>1. PICK d \in left :
          /\ dir' = d
          /\ \/ outcome' = outcome
             \/ \E r \in {"skipped", "failed"} : outcome' = [outcome EXCEPT ![d] = r]
    BY <1>2 DEF LoadMetadata
  <2>2. d \in Dirs
    BY DEF CasesInv
  <2>3. outcome' \in [Dirs -> Outcomes]
    BY <2>1, <2>2, OutcomeType DEF TypesInv, Outcomes
  <2> QED BY <1>2, <2>1, <2>2, <2>3 DEF LoadMetadata, Untouched, TypesInv
<1>3. CASE SessionBroken \/ FindNetwork
  <2>1. dir \in Dirs
    BY <1>3 DEF SessionBroken, FindNetwork, CasesInv
  <2>2. outcome' = outcome \/ \E r \in Outcomes : outcome' = [outcome EXCEPT ![dir] = r]
    BY <1>3 DEF SessionBroken, FindNetwork, Ends, Outcomes
  <2>3. outcome' \in [Dirs -> Outcomes]
    BY <2>1, <2>2, OutcomeType DEF TypesInv
  <2>4. dir' = dir /\ net' \in Ids \cup {0} /\ UNCHANGED <<files, newer, default, starts, broken>>
    BY <1>3 DEF SessionBroken, FindNetwork, Ends, Untouched, Existing, TypesInv
  <2> QED BY <2>3, <2>4 DEF TypesInv
<1>4. CASE CreateNetwork
  <2>1. created + 1 \in Ids
    BY <1>4, BoundsAssumption DEF CreateNetwork, CasesInv, Ids
  <2> QED BY <1>4, <2>1 DEF CreateNetwork, TypesInv
<1>5. CASE ImportSubsystems \/ DrawLines \/ ImportRequests
  BY <1>5, ImportTypes
<1>6. CASE Modify
  BY <1>6, ContentsAssumption DEF Modify, TypesInv, Outcomes
<1>7. CASE UpdateNetwork
  <2>1. PICK n \in Ids : \E s \in (db[n].scenarios \cap view[n].scenarios) \cup {default[n]} :
          default' = [default EXCEPT ![n] = s]
    BY <1>7 DEF UpdateNetwork
  <2>2. (db[n].scenarios \cap view[n].scenarios) \cup {default[n]} \subseteq Keys \cup {NoScenario}
    BY DEF RowsInv, AllSound, Sound, TypesInv
  <2>3. default' \in [Ids -> Keys \cup {NoScenario}]
    BY <2>1, <2>2 DEF TypesInv
  <2> QED BY <1>7, <2>3 DEF UpdateNetwork, TypesInv
<1>8. CASE UNCHANGED vars
  BY <1>8 DEF vars, TypesInv
<1> QED BY <1>1, <1>2, <1>3, <1>4, <1>5, <1>6, <1>7, <1>8 DEF Next

LEMMA RowsAlways == Spec => [](CasesInv /\ SessionInv /\ TypesInv /\ RowsInv)
<1>1. Init => CasesInv /\ SessionInv /\ TypesInv /\ RowsInv
  BY CasesInit, SessionInit, TypesInit, RowsInit
<1>2. CasesInv /\ SessionInv /\ TypesInv /\ RowsInv /\ [Next]_vars
        => (CasesInv /\ SessionInv /\ TypesInv /\ RowsInv)'
  BY CasesStep, SessionStep, TypesStep, RowsStep
<1> QED BY <1>1, <1>2, PTL DEF Spec

(* The foreign keys hold and a bus number is that of one bus at any        *)
(* commit, whatever the files say: every number is looked up among the     *)
(* buses of the network (find_bus), and what is of a bus goes with it.     *)
THEOREM TypeCorrect == Spec => []TypeOK
<1>1. CasesInv /\ SessionInv /\ TypesInv /\ RowsInv => TypeOK
  BY DEF CasesInv, SessionInv, TypesInv, RowsInv, AllSound, Sound, TypeOK
<1> QED BY <1>1, RowsAlways, PTL

(* A branch that is on the map ends at two buses that are on it, whichever *)
(* of the imports before failed, and where.                                *)
THEOREM DrawnBranchesAreLocatedAlways == Spec => []DrawnBranchesAreLocated
<1>1. RowsInv => DrawnBranchesAreLocated
  BY DEF RowsInv, AllSound, Sound, LocatedInv, DrawnBranchesAreLocated
<1> QED BY <1>1, RowsAlways, PTL

-----------------------------------------------------------------------------
(* How far an import has come: the rows of the network that is under way   *)
(* are those of the files, as far as they have been read.                  *)
BusNumbers(c) == {c.subsystems.buses[k] : k \in DOMAIN c.subsystems.buses}

HasBuses(g, c) == {b.key[1] : b \in g.buses} = BusNumbers(c)

HasLines(g, kind, lines) ==
  /\ \A l \in Lines(g, kind) :
       l.ix \in DOMAIN lines /\ [e \in DOMAIN l.ends |-> l.ends[e][1]] = lines[l.ix]
  /\ \A k \in DOMAIN lines : \E l \in Lines(g, kind) : l.ix = k
  /\ \A l, m \in Lines(g, kind) : l.ix = m.ix => l = m

InsertedAt(p) ==
  IF p = "branch" THEN {}
  ELSE IF p = "trafo" THEN {"branch"}
  ELSE IF p = "trafo3w" THEN {"branch", "trafo"}
  ELSE Kinds

LinesUpTo(g, c, kinds) ==
  \A kind \in Kinds : IF kind \in kinds THEN HasLines(g, kind, c.subsystems[kind])
                      ELSE Lines(g, kind) = {}

IsDrawn(g, c) ==
  /\ \A b \in g.buses : b.geom = BusGeom(b.key[1], c.geodata.features)
  /\ \A l \in g.lines : l.kind # "trafo3w" /\ {l.ends[1][1], l.ends[2][1]} \subseteq Named(c)
                           => l.geom # NoGeom

Stage(g, c, p) ==
  /\ HasBuses(g, c)
  /\ LinesUpTo(g, c, InsertedAt(p))
  /\ IF p = "requests" THEN IsDrawn(g, c) ELSE \A b \in g.buses : b.geom = NoGeom

StageInv == pc \in Working \ {"network", "buses"} => Stage(view[net], files[dir], pc)

LEMMA BusesStage == ASSUME AtWork PROVE Stage(OnlyBuses, files[dir], "branch")
<1>1. \A number : BusRow(number, NoGeom).key[1] = number
  BY DEF BusRow
<1>2. HasBuses(OnlyBuses, files[dir])
  <2> DEFINE numbers == files[dir].subsystems.buses
  <2>1. OnlyBuses.buses = {BusRow(numbers[k], NoGeom) : k \in DOMAIN numbers}
    BY DEF OnlyBuses, NewBuses, NetworkRows
  <2>2. BusNumbers(files[dir]) = {numbers[k] : k \in DOMAIN numbers}
    BY DEF BusNumbers
  <2> HIDE DEF numbers
  <2> QED BY <1>1, <2>1, <2>2 DEF HasBuses
<1> QED BY <1>2 DEF Stage, LinesUpTo, InsertedAt, Lines, OnlyBuses, NewBuses, BusRow, NetworkRows

LEMMA LineIsFunction ==
  ASSUME NEW c \in Content, NEW kind \in Kinds, NEW k \in DOMAIN c.subsystems[kind]
  PROVE  c.subsystems[kind][k] = [e \in DOMAIN c.subsystems[kind][k] |-> c.subsystems[kind][k][e]]
<1>1. c.subsystems \in Subsystems
  BY DEF Content
<1>2. CASE kind = "branch"
  <2>1. c.subsystems[kind] \in Seq(Numbers \X Numbers)
    BY <1>1, <1>2 DEF Subsystems, Line
  <2> QED BY <2>1
<1>3. CASE kind = "trafo"
  <2>1. c.subsystems[kind] \in Seq(Numbers \X Numbers)
    BY <1>1, <1>3 DEF Subsystems, Line
  <2> QED BY <2>1
<1>4. CASE kind = "trafo3w"
  <2>1. c.subsystems[kind] \in Seq(Numbers \X Numbers \X Numbers)
    BY <1>1, <1>4 DEF Subsystems
  <2> QED BY <2>1
<1> QED BY <1>2, <1>3, <1>4 DEF Kinds

(* With the last of its rows, a kind of lines is there. *)
LEMMA LinesStage ==
  ASSUME TypesInv, SessionInv, RowsInv, AtWork, NEW kind \in Kinds,
         Lines(view[net], kind) = {},
         \A k \in DOMAIN files[dir].subsystems[kind] :
           \A e \in DOMAIN files[dir].subsystems[kind][k] :
             KnownBus(files[dir].subsystems[kind][k][e])
  PROVE  LET lines == files[dir].subsystems[kind]
             g == view[net]
             h == [g EXCEPT !.lines = @ \cup {LineRow(kind, k, lines[k]) : k \in DOMAIN lines}]
         IN /\ h.buses = g.buses
            /\ HasLines(h, kind, lines)
            /\ \A other \in Kinds \ {kind} : Lines(h, other) = Lines(g, other)
<1> DEFINE lines == files[dir].subsystems[kind]
           g == view[net]
           rows == {LineRow(kind, k, lines[k]) : k \in DOMAIN lines}
           h == [g EXCEPT !.lines = @ \cup rows]
<1>1. Sound(g) /\ files[dir] \in Content
  BY Here DEF RowsInv, AllSound
<1>2. h = NetworkRows(g.buses, g.lines \cup rows, g.requests, g.scenarios)
  <2> HIDE DEF g, rows
  <2> QED BY <1>1, Replaced DEF Sound
<1>3. \A l \in rows : l.kind = kind
  BY DEF LineRow
<1>4. Lines(h, kind) = rows /\ \A other \in Kinds \ {kind} : Lines(h, other) = Lines(g, other)
  <2> HIDE DEF rows
  <2> QED BY <1>2, <1>3 DEF Lines, NetworkRows
<1>5. ASSUME NEW k \in DOMAIN lines
      PROVE  /\ LineRow(kind, k, lines[k]).ix = k
             /\ LET l == LineRow(kind, k, lines[k])
                IN [e \in DOMAIN l.ends |-> l.ends[e][1]] = lines[k]
  <2> DEFINE l == LineRow(kind, k, lines[k])
  <2>1. l.ix = k /\ DOMAIN l.ends = DOMAIN lines[k]
    BY DEF LineRow
  <2>2. \A e \in DOMAIN lines[k] : l.ends[e][1] = lines[k][e]
    BY BusOfIs DEF LineRow
  <2>3. lines[k] = [e \in DOMAIN lines[k] |-> lines[k][e]]
    BY <1>1, LineIsFunction
  <2> HIDE DEF l, lines
  <2>4. [e \in DOMAIN l.ends |-> l.ends[e][1]] = lines[k]
    BY <2>1, <2>2, <2>3
  <2> QED BY <2>1, <2>4 DEF l
<1>6. \A l \in rows : l.ix \in DOMAIN lines /\ l = LineRow(kind, l.ix, lines[l.ix])
  BY <1>5
<1>7. HasLines(h, kind, lines)
  <2> HIDE DEF h, lines
  <2>1. \A l \in rows : l.ix \in DOMAIN lines /\ [e \in DOMAIN l.ends |-> l.ends[e][1]] = lines[l.ix]
    BY <1>5, <1>6
  <2>2. \A k \in DOMAIN lines : \E l \in rows : l.ix = k
    BY <1>5
  <2>3. \A l, m \in rows : l.ix = m.ix => l = m
    BY <1>6
  <2> QED BY <1>4, <2>1, <2>2, <2>3 DEF HasLines
<1> QED BY <1>2, <1>4, <1>7 DEF NetworkRows

(* A line between two buses with a position gets one. *)
LEMMA StraightIs ==
  ASSUME NEW buses, \A a, b \in buses : a.key = b.key => a = b,
         \A b \in buses : b.geom \in Seq(Int),
         NEW l, {l.ends[1], l.ends[2]} \subseteq Located(buses)
  PROVE  Straight(buses, l) # NoGeom
<1>1. \A key \in Located(buses) : Position(buses, key) \in Seq(Int) /\ Position(buses, key) # <<>>
  <2> SUFFICES ASSUME NEW b \in buses, b.geom # NoGeom
               PROVE  Position(buses, b.key) = b.geom
    BY DEF Located, NoGeom
  <2>1. (CHOOSE a \in buses : a.key = b.key) = b
    OBVIOUS
  <2> QED BY <2>1 DEF Position
<1>2. \A s, t \in Seq(Int) : s # <<>> => s \o t # <<>>
  <2> SUFFICES ASSUME NEW s \in Seq(Int), NEW t \in Seq(Int), s # <<>>
               PROVE  s \o t # <<>>
    OBVIOUS
  <2>1. Len(s \o t) = Len(s) + Len(t) /\ Len(s) \in Nat /\ Len(t) \in Nat /\ Len(s) # 0
    OBVIOUS
  <2> QED BY <2>1
<1> QED BY <1>1, <1>2 DEF Straight, NoGeom

LEMMA MappedGeom ==
  ASSUME NEW c \in Content, NEW g, Sound(g), \A b \in g.buses : b.geom = NoGeom
  PROVE  LET buses == BusesOnMap(g, c.geodata.features)
         IN /\ {b.key[1] : b \in buses} = {b.key[1] : b \in g.buses}
            /\ \A a, b \in buses : a.key[1] = b.key[1] => a = b
            /\ \A b \in buses : b.geom = BusGeom(b.key[1], c.geodata.features)
<1> DEFINE F == c.geodata.features
           buses == BusesOnMap(g, F)
<1>1. buses = {Mapped(b, F) : b \in g.buses}
  BY MapIs DEF Sound
<1>2. \A b \in g.buses : /\ Mapped(b, F).key = b.key
                         /\ Mapped(b, F).geom = BusGeom(b.key[1], F)
  BY DEF Mapped
<1>3. \A a, b \in g.buses : a.key[1] = b.key[1] => a = b
  BY DEF Sound, Closed
<1> HIDE DEF buses, F
<1>4. {b.key[1] : b \in buses} = {b.key[1] : b \in g.buses}
  BY <1>1, <1>2
<1>5. \A a, b \in buses : a.key[1] = b.key[1] => a = b
  BY <1>1, <1>2, <1>3
<1>6. \A b \in buses : b.geom = BusGeom(b.key[1], F)
  BY <1>1, <1>2
<1> QED BY <1>4, <1>5, <1>6 DEF buses, F

(* Drawing does not change which lines there are. *)
LEMMA DrawnLinesStay ==
  ASSUME NEW g, NEW kind, NEW lines, HasLines(g, kind, lines), NEW h, NEW drawn,
         Lines(h, kind) = {drawn[l] : l \in Lines(g, kind)},
         \A l \in Lines(g, kind) : drawn[l].ix = l.ix /\ drawn[l].ends = l.ends
  PROVE  HasLines(h, kind, lines)
<1>1. \A l \in Lines(h, kind) :
        \E m \in Lines(g, kind) : l.ix = m.ix /\ l.ends = m.ends /\ l = drawn[m]
  OBVIOUS
<1>2. ASSUME NEW l \in Lines(h, kind)
      PROVE  l.ix \in DOMAIN lines /\ [e \in DOMAIN l.ends |-> l.ends[e][1]] = lines[l.ix]
  <2>1. PICK m \in Lines(g, kind) : l.ix = m.ix /\ l.ends = m.ends
    BY <1>1
  <2>2. m.ix \in DOMAIN lines /\ [e \in DOMAIN m.ends |-> m.ends[e][1]] = lines[m.ix]
    BY DEF HasLines
  <2> QED BY <2>1, <2>2
<1>3. \A k \in DOMAIN lines : \E l \in Lines(h, kind) : l.ix = k
  BY DEF HasLines
<1>4. \A l, m \in Lines(h, kind) : l.ix = m.ix => l = m
  BY <1>1 DEF HasLines
<1> QED BY <1>2, <1>3, <1>4 DEF HasLines

(* The geodata draw every bus they name, and every line between two such.  *)
LEMMA RedrawnStage ==
  ASSUME NEW c \in Content, NEW g, Sound(g), Stage(g, c, "geodata"), NEW f,
         (\E l \in Lines(g, "trafo") : HasTrafoFeature(l, c.geodata.features)) => f \in Feature
  PROVE  LET F == c.geodata.features IN
         Stage(Redrawn(g, F, DrawnTrafos(g, F, f)), c, "requests")
<1> DEFINE F == c.geodata.features
           buses == BusesOnMap(g, F)
           branch == [l \in Lines(g, "branch") |-> DrawnBranch(l, buses, F)]
           trafo == [l \in Lines(g, "trafo") |-> DrawnTrafo(l, g, F, f)]
           lines == {branch[l] : l \in Lines(g, "branch")}
                      \cup {trafo[l] : l \in Lines(g, "trafo")} \cup Lines(g, "trafo3w")
           h == Redrawn(g, F, DrawnTrafos(g, F, f))
<1>1. h.buses = buses /\ h.lines = lines
  BY DEF Redrawn, DrawnTrafos
<1>2. \A l \in Lines(g, "branch") :
        /\ branch[l].kind = "branch" /\ branch[l].ix = l.ix /\ branch[l].ends = l.ends
        /\ branch[l].geom = IF BranchFeature(l, F) = NoFeature THEN Straight(buses, l)
                            ELSE BranchFeature(l, F).at
  BY DEF DrawnBranch, Draw, Lines
<1>3. \A l \in Lines(g, "trafo") :
        /\ trafo[l].kind = "trafo" /\ trafo[l].ix = l.ix /\ trafo[l].ends = l.ends
        /\ trafo[l].geom = IF HasTrafoFeature(l, F) THEN f.at ELSE Straight(buses, l)
  BY DEF DrawnTrafo, Draw, Lines
<1>4. /\ {b.key[1] : b \in buses} = {b.key[1] : b \in g.buses}
      /\ \A a, b \in buses : a.key[1] = b.key[1] => a = b
      /\ \A b \in buses : b.geom = BusGeom(b.key[1], F)
  BY MappedGeom DEF Stage
<1>5. /\ \A b \in buses : b.geom \in Seq(Int)
      /\ \A b \in g.buses : b.key[1] \in Named(c) => b.key \in Located(buses)
  BY MapIs DEF Sound
<1>6. \A l \in Lines(g, "trafo3w") : l.kind = "trafo3w"
  BY DEF Lines
<1>7. \A kind \in Kinds : HasLines(g, kind, c.subsystems[kind])
  BY DEF Stage, LinesUpTo, InsertedAt
<1> HIDE DEF buses, branch, trafo, h
<1>8. /\ Lines(h, "branch") = {branch[l] : l \in Lines(g, "branch")}
      /\ Lines(h, "trafo") = {trafo[l] : l \in Lines(g, "trafo")}
      /\ Lines(h, "trafo3w") = Lines(g, "trafo3w")
  <2> DEFINE M == {branch[l] : l \in Lines(g, "branch")}
             N == {trafo[l] : l \in Lines(g, "trafo")}
  <2>1. (\A l \in M : l.kind = "branch") /\ (\A l \in N : l.kind = "trafo")
    BY <1>2, <1>3
  <2>2. h.lines = M \cup N \cup Lines(g, "trafo3w")
    BY <1>1
  <2> HIDE DEF M, N
  <2>3. /\ {l \in h.lines : l.kind = "branch"} = M
        /\ {l \in h.lines : l.kind = "trafo"} = N
        /\ {l \in h.lines : l.kind = "trafo3w"} = Lines(g, "trafo3w")
    BY <1>6, <2>1, <2>2
  <2> QED BY <2>3 DEF Lines, M, N
<1>9. HasLines(h, "branch", c.subsystems["branch"])
  BY <1>2, <1>7, <1>8, DrawnLinesStay DEF Kinds
<1>10. HasLines(h, "trafo", c.subsystems["trafo"])
  BY <1>3, <1>7, <1>8, DrawnLinesStay DEF Kinds
<1>11. HasLines(h, "trafo3w", c.subsystems["trafo3w"])
  BY <1>7, <1>8 DEF HasLines, Kinds
<1>12. LinesUpTo(h, c, Kinds)
  BY <1>9, <1>10, <1>11 DEF LinesUpTo, Kinds
<1>13. HasBuses(h, c)
  BY <1>1, <1>4 DEF Stage, HasBuses
<1>14. ASSUME NEW l \in g.lines, {1, 2} \subseteq DOMAIN l.ends,
              {l.ends[1][1], l.ends[2][1]} \subseteq Named(c)
       PROVE  Straight(buses, l) # NoGeom
  <2>1. PICK a \in g.buses, b \in g.buses : a.key = l.ends[1] /\ b.key = l.ends[2]
    BY <1>14 DEF Sound, Closed
  <2>2. {l.ends[1], l.ends[2]} \subseteq Located(buses)
    BY <1>5, <1>14, <2>1
  <2> QED BY <1>4, <1>5, <2>2, StraightIs
<1>15. ASSUME NEW kind \in {"branch", "trafo"}, NEW l \in Lines(g, kind)
       PROVE  l \in g.lines /\ {1, 2} \subseteq DOMAIN l.ends
  <2>1. l \in g.lines /\ l.ix \in DOMAIN c.subsystems[kind]
        /\ [e \in DOMAIN l.ends |-> l.ends[e][1]] = c.subsystems[kind][l.ix]
    <3>1. kind \in Kinds /\ l \in g.lines
      BY DEF Kinds, Lines
    <3>2. HasLines(g, kind, c.subsystems[kind])
      BY <1>7, <3>1
    <3> QED BY <3>1, <3>2 DEF HasLines
  <2>2. {1, 2} \subseteq DOMAIN c.subsystems[kind][l.ix]
    BY <2>1, LineType DEF Kinds
  <2> QED BY <2>1, <2>2
<1>16. ASSUME NEW l \in Lines(g, "branch"), {l.ends[1][1], l.ends[2][1]} \subseteq Named(c)
       PROVE  branch[l].geom # NoGeom
  <2>1. Straight(buses, l) # NoGeom
    BY <1>14, <1>15, <1>16
  <2> QED BY <1>2, <2>1, BranchFeatureIs
<1>17. ASSUME NEW l \in Lines(g, "trafo"), {l.ends[1][1], l.ends[2][1]} \subseteq Named(c)
       PROVE  trafo[l].geom # NoGeom
  <2>1. Straight(buses, l) # NoGeom
    BY <1>14, <1>15, <1>17
  <2>2. HasTrafoFeature(l, F) => f.at # NoGeom
    BY DEF Feature, Coordinates, NoGeom
  <2> QED BY <1>3, <2>1, <2>2
<1>18. \A l \in h.lines : l.kind # "trafo3w" /\ {l.ends[1][1], l.ends[2][1]} \subseteq Named(c)
                            => l.geom # NoGeom
  BY <1>1, <1>2, <1>3, <1>6, <1>16, <1>17
<1>19. IsDrawn(h, c)
  BY <1>1, <1>4, <1>18 DEF IsDrawn
<1> QED BY <1>12, <1>13, <1>19 DEF Stage, InsertedAt, h

(* What is inserted and drawn, with its requests, is whole.                *)
HasRequests(g, c) ==
  LET rows == c.sheet.requests
      filled == {k \in DOMAIN rows : rows[k].node.is # "blank"}
      asked == {<<rows[k].project, rows[k].node.of>> : k \in filled}
  IN ~AsFloats(rows) =>
       {<<r.project, r.bus[1]>> : r \in g.requests} = {q \in asked : q[2] \in BusNumbers(c)}

HasScenarios(g, c) ==
  LET codes == {c.sheet.scenarios[k].code : k \in DOMAIN c.sheet.scenarios}
  IN /\ codes \subseteq {s[1] : s \in g.scenarios}
     /\ \A s, t \in g.scenarios : s[1] = t[1] \/ {s[1], t[1]} \cap codes = {} => s = t

LEMMA LineAtIs ==
  ASSUME NEW g, NEW kind, NEW lines, HasLines(g, kind, lines), NEW k \in DOMAIN lines
  PROVE  \E l \in Lines(g, kind) : {m \in g.lines : m.kind = kind /\ m.ix = k} = {l}
<1>1. PICK l \in Lines(g, kind) : l.ix = k
  BY DEF HasLines
<1>2. \A m \in Lines(g, kind) : m.ix = k => m = l
  BY <1>1 DEF HasLines
<1> QED BY <1>1, <1>2 DEF Lines

LEMMA DoneIsWhole ==
  ASSUME NEW c \in Content, NEW g, Sound(g), Stage(g, c, "requests"), HasRequests(g, c),
         HasScenarios(g, c)
  PROVE  Whole(g, c)
<1>1. HasBuses(g, c) /\ IsDrawn(g, c) /\ \A kind \in Kinds : HasLines(g, kind, c.subsystems[kind])
  BY DEF Stage, LinesUpTo, InsertedAt
<1>2. \A b \in g.buses : b.geom # NoGeom <=> b.key[1] \in Named(c)
  BY <1>1, BusGeomIs DEF IsDrawn
<1>3. {key[1] : key \in Located(g.buses)} = BusNumbers(c) \cap Named(c)
  BY <1>1, <1>2 DEF Located, HasBuses
<1>4. ASSUME NEW kind \in Kinds, NEW k \in DOMAIN c.subsystems[kind]
      PROVE  LET here == {l \in g.lines : l.kind = kind /\ l.ix = k} IN
             /\ Cardinality(here) = 1
             /\ \A l \in here :
                  /\ [e \in DOMAIN l.ends |-> l.ends[e][1]] = c.subsystems[kind][k]
                  /\ kind # "trafo3w" /\ {l.ends[1][1], l.ends[2][1]} \subseteq Named(c)
                       => l.geom # NoGeom
  <2>1. HasLines(g, kind, c.subsystems[kind])
    BY <1>1
  <2>2. PICK l \in Lines(g, kind) : {m \in g.lines : m.kind = kind /\ m.ix = k} = {l}
    BY <2>1, LineAtIs
  <2>3. l \in g.lines /\ l.kind = kind /\ l.ix = k
    BY <2>2
  <2>4. [e \in DOMAIN l.ends |-> l.ends[e][1]] = c.subsystems[kind][k]
    BY <2>1, <2>3 DEF HasLines
  <2>5. kind # "trafo3w" /\ {l.ends[1][1], l.ends[2][1]} \subseteq Named(c) => l.geom # NoGeom
    BY <1>1, <2>3 DEF IsDrawn
  <2>6. Cardinality({l}) = 1
    BY FS_Singleton
  <2> QED BY <2>2, <2>4, <2>5, <2>6
<1> QED BY <1>1, <1>3, <1>4 DEF Whole, HasBuses, BusNumbers, HasRequests, HasScenarios

(* Each scenario of the sheet is there once, besides what the import took  *)
(* for the default one, if no code is refused.                             *)
LEMMA ScenariosDone ==
  ASSUME NEW kept, NEW asked, NEW c \in Content, NEW g,
         Clashes(kept, asked, c.sheet.scenarios) = {},
         g.scenarios = Kept(kept) \cup Planned(c.sheet.scenarios, Len(c.sheet.scenarios))
  PROVE  HasScenarios(g, c)
<1> DEFINE scenarios == c.sheet.scenarios
           codes == {scenarios[k].code : k \in DOMAIN scenarios}
           planned == {<<scenarios[k].code, starts>> : k \in DOMAIN scenarios}
<1>1. DOMAIN scenarios = 1..Len(scenarios) /\ Len(scenarios) \in Nat
  <2>1. scenarios \in Seq([code: Codes, fits: BOOLEAN])
    BY DEF Content, Sheet
  <2> HIDE DEF scenarios
  <2> QED BY <2>1
<1>2. g.scenarios = Kept(kept) \cup planned
  BY <1>1 DEF Planned
<1>3. \A i \in DOMAIN scenarios :
        scenarios[i].code \notin {s[1] : s \in Kept(kept) \cup Planned(scenarios, i - 1)}
  BY DEF Clashes
<1> HIDE DEF scenarios
<1>4. \A s \in Kept(kept) : s[1] \notin codes
  BY <1>3
<1>5. \A s, t \in Kept(kept) : s = t
  BY DEF Kept
<1>6. \A s \in planned : s = <<s[1], starts>> /\ s[1] \in codes
  <2> SUFFICES ASSUME NEW k \in DOMAIN scenarios
               PROVE  <<scenarios[k].code, starts>>[1] \in codes
    OBVIOUS
  <2> QED OBVIOUS
<1>7. codes \subseteq {s[1] : s \in planned}
  <2> SUFFICES ASSUME NEW k \in DOMAIN scenarios
               PROVE  \E s \in planned : s[1] = scenarios[k].code
    OBVIOUS
  <2> DEFINE s == <<scenarios[k].code, starts>>
  <2>1. s \in planned /\ s[1] = scenarios[k].code
    OBVIOUS
  <2> QED BY <2>1
<1> HIDE DEF codes, planned
<1>8. \A s, t \in g.scenarios : s[1] = t[1] \/ {s[1], t[1]} \cap codes = {} => s = t
  BY <1>2, <1>4, <1>5, <1>6
<1> QED BY <1>2, <1>7, <1>8 DEF HasScenarios, codes, scenarios

(* A request that names a bus is inserted, unless its column was read as   *)
(* floating point numbers.                                                 *)
LEMMA RequestsDone ==
  ASSUME TypesInv, SessionInv, RowsInv, AtWork, Stage(view[net], files[dir], "requests"), NEW kept,
         Clashes(kept, Document(files[dir].sheet.requests), files[dir].sheet.scenarios) = {}
  PROVE  LET asked == Document(files[dir].sheet.requests)
             scenarios == files[dir].sheet.scenarios
         IN Whole(WithRows(kept, asked, scenarios, Len(asked) + Len(scenarios))[net], files[dir])
<1> DEFINE c == files[dir]
           g == view[net]
           rows == c.sheet.requests
           scenarios == c.sheet.scenarios
           asked == Document(rows)
           all == Len(asked) + Len(scenarios)
           placed == Placed(asked, all)
           requests == {[project |-> r.project, bus |-> BusOf(r.node).key] : r \in placed}
           codes == Kept(kept) \cup Planned(scenarios, all - Len(asked))
           h == NetworkRows(g.buses, g.lines, requests, codes)
           filled == {k \in DOMAIN rows : rows[k].node.is # "blank"}
<1>1. c \in Content /\ net \in Ids /\ Sound(g)
  BY Here DEF RowsInv, AllSound
<1>2. /\ rows \in Seq([project: STRING, node: Cell, fits: BOOLEAN])
      /\ \A k \in DOMAIN rows : rows[k].node.of \in Numbers
  <2>1. rows \in Seq([project: STRING, node: Cell, fits: BOOLEAN])
    BY <1>1 DEF Content, Sheet
  <2> HIDE DEF rows
  <2>2. ASSUME NEW k \in DOMAIN rows PROVE rows[k].node \in Cell
    <3> DEFINE Row == [project: STRING, node: Cell, fits: BOOLEAN]
    <3>1. rows \in Seq(Row) /\ \A row \in Row : row.node \in Cell
      BY <2>1
    <3> HIDE DEF Row
    <3> QED BY <3>1
  <2> QED BY <2>1, <2>2 DEF Cell
<1>3. /\ DOMAIN asked = DOMAIN rows /\ 1..Len(asked) = DOMAIN rows /\ Len(asked) \in Nat
      /\ Len(scenarios) \in Nat
  <2>1. scenarios \in Seq([code: Codes, fits: BOOLEAN])
    BY <1>1 DEF Content, Sheet
  <2> HIDE DEF rows, scenarios
  <2> QED BY <1>2, <2>1 DEF Document
<1>4. \A k \in DOMAIN rows : asked[k].project = rows[k].project /\ asked[k].node = NodeId(rows, k)
  BY DEF Document
<1>5. \A number : KnownBus(number) <=> number \in BusNumbers(c)
  BY DEF Stage, HasBuses, KnownBus
<1>6. BusNumbers(c) \subseteq Numbers
  <2>1. c.subsystems.buses \in Seq(Numbers)
    BY <1>1 DEF Content, Subsystems
  <2> QED BY <2>1 DEF BusNumbers
<1>7. h.buses = g.buses /\ h.lines = g.lines /\ h.requests = requests /\ h.scenarios = codes
  BY DEF NetworkRows
<1>8. WithRows(kept, asked, scenarios, all) = NetSet(view, h) /\ NetSet(view, h)[net] = h
  <2>1. WithRows(kept, asked, scenarios, all) = NetSet(view, h)
    BY DEF WithRows, NetSet, NetworkRows
  <2> HIDE DEF h
  <2>2. NetSet(view, h)[net] = h
    BY <1>1 DEF NetSet, SessionInv
  <2> QED BY <2>1, <2>2
<1>9. \A r \in placed : KnownBus(r.node) /\ BusOf(r.node).key[1] = r.node
  BY BusOfIs DEF Placed
<1>10. {<<r.project, r.bus[1]>> : r \in requests} = {<<r.project, r.node>> : r \in placed}
  <2> DEFINE row(r) == [project |-> r.project, bus |-> BusOf(r.node).key]
  <2>1. \A r \in placed : row(r).project = r.project /\ row(r).bus[1] = r.node
    BY <1>9
  <2>2. requests = {row(r) : r \in placed}
    OBVIOUS
  <2> HIDE DEF placed, requests, row
  <2> QED BY <2>1, <2>2
<1>11. ASSUME ~AsFloats(rows)
       PROVE  {<<r.project, r.node>> : r \in placed} =
                {q \in {<<rows[k].project, rows[k].node.of>> : k \in filled} : q[2] \in BusNumbers(c)}
  <2>1. \A k \in DOMAIN rows :
          asked[k].node = IF k \in filled THEN rows[k].node.of ELSE NoNumber
    BY <1>4, <1>11 DEF NodeId
  <2>2. \A k \in DOMAIN rows : KnownBus(asked[k].node)
                                 <=> k \in filled /\ rows[k].node.of \in BusNumbers(c)
    BY <1>5, <1>6, <2>1, NoNumberAssumption
  <2>3. placed = {r \in {[project |-> asked[j].project, node |-> asked[j].node] : j \in DOMAIN rows} :
                    KnownBus(r.node)}
    <3>1. (1..all) \cap DOMAIN asked = DOMAIN rows
      <4>1. \A a, b \in Nat : (1..(a + b)) \cap (1..a) = 1..a
        OBVIOUS
      <4> HIDE DEF asked, rows, scenarios
      <4> QED BY <1>3, <4>1
    <3> HIDE DEF asked, all, rows
    <3> QED BY <3>1 DEF Placed
  <2> HIDE DEF placed, asked, c
  <2>4. ASSUME NEW r \in placed
        PROVE  \E k \in filled : /\ rows[k].node.of \in BusNumbers(c)
                                 /\ <<r.project, r.node>> = <<rows[k].project, rows[k].node.of>>
    BY <1>4, <2>1, <2>2, <2>3
  <2>5. ASSUME NEW k \in filled, rows[k].node.of \in BusNumbers(c)
        PROVE  \E r \in placed : <<r.project, r.node>> = <<rows[k].project, rows[k].node.of>>
    <3> DEFINE r == [project |-> asked[k].project, node |-> asked[k].node]
    <3>1. r \in placed
      BY <2>2, <2>3, <2>5
    <3>2. <<r.project, r.node>> = <<rows[k].project, rows[k].node.of>>
      BY <1>4, <2>1
    <3> QED BY <3>1, <3>2
  <2> QED BY <2>4, <2>5
<1>12. HasRequests(h, c)
  BY <1>7, <1>10, <1>11 DEF HasRequests
<1>15. HasScenarios(h, c)
  <2>1. all - Len(asked) = Len(scenarios)
    <3> HIDE DEF asked, scenarios
    <3> QED BY <1>3
  <2> HIDE DEF h
  <2> QED BY <1>1, <1>7, <2>1, ScenariosDone
<1> HIDE DEF h, requests, codes
<1>13. Stage(h, c, "requests")
  BY <1>7 DEF Stage, HasBuses, LinesUpTo, HasLines, Lines, IsDrawn
<1>14. Sound(h)
  BY <1>1, <1>8, RequestsSound DEF AllSound
<1> QED BY <1>1, <1>8, <1>12, <1>13, <1>14, <1>15, DoneIsWhole

LEMMA CommitStage ==
  ASSUME SessionInv, AtWork, NEW g, NEW next, Commits(NetSet(view, g), next), UNCHANGED files,
         Stage(g, files[dir], next)
  PROVE  StageInv'
<1>1. net \in Ids /\ NetSet(view, g)[net] = g
  BY DEF SessionInv, NetSet, AtWork
<1> QED BY <1>1 DEF Commits, StageInv, place

(* An exception ends the directory. *)
LEMMA EndStage ==
  ASSUME NEW part, NEW v, Unreadable(part) \/ Breaks \/ Raises(v) \/ \E r : Ends(r)
  PROVE  StageInv'
BY DEF Unreadable, Breaks, Raises, Ends, StageInv, Working

LEMMA InsertLinesStage ==
  ASSUME TypesInv, SessionInv, RowsInv, StageInv, NEW kind \in Kinds, NEW next,
         InsertLines(kind, next), InsertedAt(next) = InsertedAt(kind) \cup {kind},
         kind \notin InsertedAt(kind), next # "requests"
  PROVE  StageInv'
<1> DEFINE lines == files[dir].subsystems[kind]
           g(K) == [view[net] EXCEPT !.lines = @ \cup {LineRow(kind, k, lines[k]) : k \in K}]
<1>1. AtWork /\ pc = kind /\ kind \in Working \ {"network", "buses"} /\ UNCHANGED files
  BY DEF AtWork, InsertLines, Untouched, Working, Places, Kinds
<1>2. Stage(view[net], files[dir], kind) /\ kind # "requests"
  BY <1>1 DEF StageInv, Kinds
<1>3. PICK K \in SUBSET DOMAIN lines :
        /\ \/ K = DOMAIN lines /\ Commits(NetSet(view, g(K)), next)
           \/ Raises(NetSet(view, g(K)))
        /\ \A k \in K : \A e \in DOMAIN lines[k] : KnownBus(lines[k][e])
  BY InsertLinesRows
<1>4. CASE K = DOMAIN lines /\ Commits(NetSet(view, g(K)), next)
  <2>1. /\ g(K).buses = view[net].buses
        /\ HasLines(g(K), kind, lines)
        /\ \A other \in Kinds \ {kind} : Lines(g(K), other) = Lines(view[net], other)
    BY <1>1, <1>2, <1>3, <1>4, LinesStage DEF Stage, LinesUpTo
  <2> DEFINE h == g(K)
  <2> HIDE DEF h
  <2>2. ASSUME NEW other \in Kinds
        PROVE  IF other \in InsertedAt(next) THEN HasLines(h, other, files[dir].subsystems[other])
               ELSE Lines(h, other) = {}
    <3>1. CASE other = kind
      BY <2>1, <3>1 DEF h
    <3>2. CASE other # kind
      <4>1. Lines(h, other) = Lines(view[net], other)
        BY <2>1, <3>2 DEF h
      <4>2. IF other \in InsertedAt(next)
            THEN HasLines(view[net], other, files[dir].subsystems[other])
            ELSE Lines(view[net], other) = {}
        BY <1>2, <3>2 DEF Stage, LinesUpTo
      <4> QED BY <4>1, <4>2 DEF HasLines
    <3> QED BY <3>1, <3>2
  <2>3. Stage(h, files[dir], next)
    <3>1. h.buses = view[net].buses
      BY <2>1 DEF h
    <3> QED BY <1>2, <2>2, <3>1 DEF Stage, HasBuses, LinesUpTo
  <2>4. Commits(NetSet(view, h), next)
    BY <1>4 DEF h
  <2> QED BY <1>1, <2>3, <2>4, CommitStage
<1>5. CASE Raises(NetSet(view, g(K)))
  BY <1>5, EndStage
<1> QED BY <1>3, <1>4, <1>5

LEMMA DrawLinesStage == TypesInv /\ SessionInv /\ RowsInv /\ StageInv /\ DrawLines => StageInv'
<1> SUFFICES ASSUME TypesInv, SessionInv, RowsInv, StageInv, DrawLines PROVE StageInv' OBVIOUS
<1> DEFINE g == view[net]
           F == files[dir].geodata.features
<1>1. AtWork /\ pc = "geodata" /\ UNCHANGED files
  BY DEF AtWork, DrawLines, Untouched, Working, Places, Kinds
<1>2. files[dir] \in Content /\ Sound(g) /\ Stage(g, files[dir], "geodata")
  BY <1>1, Here DEF RowsInv, AllSound, StageInv, Working, Places
<1>3. \/ Unreadable(files[dir].geodata) \/ Breaks \/ (\E v : Raises(v))
      \/ \E f :
           /\ (\E l \in Lines(g, "trafo") : HasTrafoFeature(l, F)) => f \in Feature
           /\ Commits(NetSet(view, Redrawn(g, F, DrawnTrafos(g, F, f))), "requests")
  BY DrawLinesRows
<1>4. ASSUME NEW f, (\E l \in Lines(g, "trafo") : HasTrafoFeature(l, F)) => f \in Feature,
             Commits(NetSet(view, Redrawn(g, F, DrawnTrafos(g, F, f))), "requests")
      PROVE  StageInv'
  <2>1. Stage(Redrawn(g, F, DrawnTrafos(g, F, f)), files[dir], "requests")
    BY <1>2, <1>4, RedrawnStage
  <2> HIDE DEF g, F
  <2> QED BY <1>1, <1>4, <2>1, CommitStage
<1> QED BY <1>3, <1>4, EndStage

LEMMA StageStep ==
  ASSUME CasesInv, SessionInv, TypesInv, RowsInv, StageInv, [Next]_vars
  PROVE  StageInv'
<1>1. CASE Start \/ LoadMetadata \/ Stop \/ CreateNetwork \/ Crash \/ Modify
  <2>1. pc' \notin Working \ {"network", "buses"}
    BY <1>1 DEF Start, LoadMetadata, Stop, Gone, CreateNetwork, Crash, Modify, Working
  <2> QED BY <2>1 DEF StageInv
<1>2. CASE SessionBroken \/ FindNetwork
  <2>1. pc' \notin Working \ {"network", "buses"}
    BY <1>2 DEF SessionBroken, FindNetwork, Ends, Working
  <2> QED BY <2>1 DEF StageInv
<1>3. CASE InsertBuses
  <2>1. AtWork /\ UNCHANGED files
    BY <1>3 DEF AtWork, InsertBuses, Untouched, Working, Places
  <2> QED BY <1>3, <2>1, InsertBusesRows, BusesStage, CommitStage, EndStage
<1>4. CASE InsertLines("branch", "trafo")
  BY <1>4, InsertLinesStage DEF InsertedAt, Kinds
<1>5. CASE InsertLines("trafo", "trafo3w")
  BY <1>5, InsertLinesStage DEF InsertedAt, Kinds
<1>6. CASE InsertLines("trafo3w", "geodata")
  BY <1>6, InsertLinesStage DEF InsertedAt, Kinds
<1>7. CASE DrawLines
  BY <1>7, DrawLinesStage
<1>8. CASE ImportRequests
  <2>1. Unreadable(files[dir].sheet) \/ (\E v : Raises(v)) \/ \E r : Ends(r)
    BY <1>8 DEF ImportRequests
  <2> QED BY <2>1, EndStage
<1>9. CASE UpdateNetwork \/ UNCHANGED vars
  BY <1>9 DEF UpdateNetwork, vars, place, StageInv
<1> QED BY <1>1, <1>2, <1>3, <1>4, <1>5, <1>6, <1>7, <1>8, <1>9 DEF Next, ImportSubsystems

-----------------------------------------------------------------------------
(* A network that was imported stays as it is, whatever the directories    *)
(* after it do.                                                            *)
LEMMA WholeKept ==
  ASSUME CasesInv, ImportedIsWhole, OnlyUnfinished, UNCHANGED files,
         \A n \in Ids : case[n] # NoCase => case'[n] = case[n],
         \A d \in Dirs : outcome'[d] = "imported" => outcome[d] = "imported"
                           \/ \E n \in Ids : case'[n] = CaseOf(d) /\ Whole(db'[n], files[d])
  PROVE  ImportedIsWhole'
<1>1. \A d \in Dirs : CaseOf(d)' = CaseOf(d)
  BY DEF CaseOf
<1> SUFFICES ASSUME NEW d \in Dirs, outcome[d] = "imported"
             PROVE  \E n \in Ids : case'[n] = CaseOf(d) /\ Whole(db'[n], files[d])
  BY <1>1 DEF ImportedIsWhole
<1>2. PICK n \in Ids : case[n] = CaseOf(d) /\ Whole(db[n], files[d])
  BY DEF ImportedIsWhole
<1>3. \A e \in Dirs : case[n] = CaseOf(e) => e = d
  BY <1>2, CaseOfDir DEF CasesInv
<1>4. db'[n] = db[n]
  BY <1>2, <1>3 DEF OnlyUnfinished
<1>5. case'[n] = case[n]
  BY <1>2, CaseOfDir DEF CasesInv
<1> QED BY <1>2, <1>4, <1>5

LEMMA CasesStay ==
  ASSUME CasesInv, [Next]_vars, NEW n \in Ids, case[n] # NoCase
  PROVE  case'[n] = case[n]
<1>1. CASE CreateNetwork
  <2>1. ~(created + 1 <= created) /\ n <= created
    BY BoundsAssumption DEF CasesInv
  <2>2. n # created + 1
    BY <2>1
  <2> QED BY <1>1, <2>2 DEF CreateNetwork, CasesInv
<1>2. CASE UpdateNetwork
  <2>1. PICK m \in Ids, d \in Cases :
          case[m] # NoCase /\ case' = [case EXCEPT ![m] = CaseAfter(case[m], d)]
    BY <1>2 DEF UpdateNetwork
  <2> QED BY <2>1 DEF CaseAfter, CasesInv
<1>3. CASE UNCHANGED networks
  BY <1>3 DEF networks
<1>4. CASE ImportSubsystems \/ DrawLines \/ ImportRequests
  BY <1>3, <1>4 DEF ImportSubsystems, InsertBuses, InsertLines, DrawLines, ImportRequests,
     Untouched
<1>5. CASE \/ Start \/ LoadMetadata \/ Stop \/ SessionBroken \/ FindNetwork \/ Crash \/ Modify
           \/ UNCHANGED vars
  BY <1>3, <1>5 DEF Start, LoadMetadata, Stop, SessionBroken, FindNetwork, Crash, Modify, vars,
     Untouched
<1> QED BY <1>1, <1>2, <1>4, <1>5 DEF Next

(* Only the end of an import says that it is complete.                     *)
LEMMA FailedPart ==
  ASSUME SessionInv, NEW part, NEW v, NEW next, AtWork \/ pc = "network",
         \/ Unreadable(part) \/ Breaks \/ Raises(v) \/ Commits(v, next)
         \/ Ends("failed") \/ Ends("skipped") \/ Ends("refused")
  PROVE  \A d \in Dirs : outcome'[d] = "imported" => outcome[d] = "imported"
<1>1. dir \in Dirs
  BY DEF SessionInv, AtWork, Working, Places
<1>2. outcome' = outcome
      \/ \E r \in {"failed", "skipped", "refused"} : outcome' = [outcome EXCEPT ![dir] = r]
  BY DEF Unreadable, Breaks, Raises, Commits, Ends
<1>3. CASE outcome' = outcome
  BY <1>3
<1>4. ASSUME NEW r \in {"failed", "skipped", "refused"}, outcome' = [outcome EXCEPT ![dir] = r]
      PROVE  \A d \in Dirs : outcome'[d] = "imported" => outcome[d] = "imported"
  BY <1>1, <1>4, OutcomeOfOther
<1> QED BY <1>2, <1>3, <1>4

LEMMA ImportRequestsWhole ==
  ASSUME TypesInv, SessionInv, RowsInv, StageInv, ImportRequests
  PROVE  \A d \in Dirs : outcome'[d] = "imported" => outcome[d] = "imported"
                           \/ \E n \in Ids : case'[n] = CaseOf(d) /\ Whole(db'[n], files[d])
<1> DEFINE asked == Document(files[dir].sheet.requests)
           scenarios == files[dir].sheet.scenarios
           all(kept) == WithRows(kept, asked, scenarios, Len(asked) + Len(scenarios))
<1>1. AtWork /\ pc = "requests" /\ case' = case
  BY DEF AtWork, ImportRequests, Untouched, networks, Working, Places, Kinds
<1>2. \/ Unreadable(files[dir].sheet) \/ (\E v : Raises(v)) \/ Ends("failed")
      \/ \E kept : Clashes(kept, asked, scenarios) = {} /\ db' = all(kept) /\ Ends("imported")
  BY DEF ImportRequests
<1> HIDE DEF all
<1>3. CASE Unreadable(files[dir].sheet) \/ (\E v : Raises(v)) \/ Ends("failed")
  BY <1>1, <1>3, FailedPart
<1>4. ASSUME NEW kept, Clashes(kept, asked, scenarios) = {}, db' = all(kept), Ends("imported")
      PROVE  \A d \in Dirs : outcome'[d] = "imported" => outcome[d] = "imported"
                               \/ \E n \in Ids : case'[n] = CaseOf(d) /\ Whole(db'[n], files[d])
  <2>1. dir \in Dirs /\ net \in Ids /\ case[net] = CaseOf(dir)
    BY <1>1 DEF SessionInv, AtWork, Working
  <2>2. Stage(view[net], files[dir], "requests")
    BY <1>1 DEF StageInv, AtWork
  <2>3. Whole(db'[net], files[dir])
    BY <1>1, <1>4, <2>2, RequestsDone DEF all
  <2>4. \A d \in Dirs \ {dir} : outcome'[d] = outcome[d]
    BY <1>4, <2>1, OutcomeOfOther DEF Ends
  <2> QED BY <1>1, <2>1, <2>3, <2>4
<1> QED BY <1>2, <1>3, <1>4

LEMMA WholeStep ==
  ASSUME CasesInv, SessionInv, TypesInv, RowsInv, StageInv, ImportedIsWhole, [Next]_vars
  PROVE  ImportedIsWhole'
<1>1. CASE Start \/ Modify
  BY <1>1 DEF Start, Modify, ImportedIsWhole
<1>2. ASSUME UNCHANGED files,
             \A d \in Dirs : outcome'[d] = "imported" => outcome[d] = "imported"
                               \/ \E n \in Ids : case'[n] = CaseOf(d) /\ Whole(db'[n], files[d])
      PROVE  ImportedIsWhole'
  BY <1>2, SessionStep, CasesStay, WholeKept
<1>3. ASSUME UNCHANGED files,
             \A d \in Dirs : outcome'[d] = "imported" => outcome[d] = "imported"
      PROVE  ImportedIsWhole'
  BY <1>2, <1>3
<1>4. CASE Stop \/ CreateNetwork \/ Crash \/ UpdateNetwork \/ UNCHANGED vars
  BY <1>3, <1>4 DEF Stop, Gone, CreateNetwork, Crash, UpdateNetwork, vars, Untouched
<1>5. CASE LoadMetadata
  <2>1. PICK d \in left : outcome' = outcome
                          \/ \E r \in {"skipped", "failed"} : outcome' = [outcome EXCEPT ![d] = r]
    BY <1>5 DEF LoadMetadata
  <2>2. d \in Dirs /\ UNCHANGED files
    BY <1>5 DEF CasesInv, LoadMetadata, Untouched
  <2>3. \A e \in Dirs : outcome'[e] = "imported" => outcome[e] = "imported"
    BY <2>1, <2>2, OutcomeOfOther
  <2> QED BY <1>3, <2>2, <2>3
<1>6. CASE SessionBroken \/ FindNetwork
  <2>1. pc = "network" /\ UNCHANGED files
    BY <1>6 DEF SessionBroken, FindNetwork, Untouched
  <2>2. Ends("failed") \/ Ends("skipped") \/ Ends("refused") \/ UNCHANGED outcome
    BY <1>6 DEF SessionBroken, FindNetwork
  <2> QED BY <1>3, <2>1, <2>2, FailedPart
<1>7. CASE InsertBuses
  <2>1. AtWork /\ UNCHANGED files
    BY <1>7 DEF AtWork, InsertBuses, Untouched, Working, Places
  <2>2. Unreadable(files[dir].subsystems) \/ Breaks \/ \E v : Commits(v, "branch")
    BY <1>7 DEF InsertBuses
  <2> QED BY <1>3, <2>1, <2>2, FailedPart
<1>8. ASSUME NEW kind \in Kinds, NEW next, InsertLines(kind, next) PROVE ImportedIsWhole'
  <2>1. AtWork /\ UNCHANGED files
    BY <1>8 DEF AtWork, InsertLines, Untouched, Working, Places, Kinds
  <2>2. \E v : Commits(v, next) \/ Raises(v)
    BY <1>8 DEF InsertLines
  <2> QED BY <1>3, <2>1, <2>2, FailedPart
<1>9. CASE DrawLines
  <2>1. AtWork /\ UNCHANGED files
    BY <1>9 DEF AtWork, DrawLines, Untouched, Working, Places, Kinds
  <2>2. Unreadable(files[dir].geodata) \/ Breaks \/ \E v : Raises(v) \/ Commits(v, "requests")
    BY <1>9 DEF DrawLines, LocateSome
  <2> QED BY <1>3, <2>1, <2>2, FailedPart
<1>10. CASE ImportRequests
  BY <1>2, <1>10, ImportRequestsWhole DEF ImportRequests, Untouched
<1> QED BY <1>1, <1>4, <1>5, <1>6, <1>7, <1>8, <1>9, <1>10 DEF Next, ImportSubsystems, Kinds

LEMMA StagesAlways ==
  Spec => [](CasesInv /\ SessionInv /\ TypesInv /\ RowsInv /\ StageInv)
<1>1. Init => StageInv
  BY DEF Init, StageInv, Working
<1>2. CasesInv /\ SessionInv /\ TypesInv /\ RowsInv /\ StageInv /\ [Next]_vars => StageInv'
  BY StageStep
<1> QED BY <1>1, <1>2, RowsAlways, PTL DEF Spec

(* What is logged as complete is whole until the end of the start: the     *)
(* script inserts and draws all there is in the files before it says so,   *)
(* and no later commit touches that network.                               *)
THEOREM ImportedIsWholeAlways == Spec => []ImportedIsWhole
<1>1. Init => ImportedIsWhole
  BY DEF Init, ImportedIsWhole
<1>2. /\ CasesInv /\ SessionInv /\ TypesInv /\ RowsInv /\ StageInv
      /\ ImportedIsWhole /\ [Next]_vars
      => ImportedIsWhole'
  BY WholeStep
<1> QED BY <1>1, <1>2, StagesAlways, PTL DEF Spec

-----------------------------------------------------------------------------
(* A directory that can be imported is, unless a flush has failed before:  *)
(* no exception that leaves the session usable is for such a directory.    *)
Answered(d) == outcome[d] \in {"imported", "refused"}

FineInv ==
  pc # "off" => \A d \in Dirs \ left :
    \/ broken
    \/ pc \in Working /\ d = dir
    \/ Fine(files[d]) => Answered(d)

LEMMA EndFine ==
  ASSUME CasesInv, SessionInv, FineInv, NEW r, Ends(r), pc \in Working, UNCHANGED files,
         broken' \in {broken, TRUE},
         r \in {"imported", "refused"} \/ broken' \/ ~Fine(files[dir])
  PROVE  FineInv'
<1>1. pc' = "next" /\ left' = left /\ dir \in Dirs /\ outcome' = [outcome EXCEPT ![dir] = r]
  BY DEF Ends, SessionInv, place
<1>2. outcome'[dir] = r /\ \A d \in Dirs \ {dir} : outcome'[d] = outcome[d]
  BY <1>1, OutcomeOfOther
<1>3. pc # "off"
  BY DEF Working
<1> SUFFICES ASSUME NEW d \in Dirs \ left, ~broken', Fine(files[d])
             PROVE  outcome'[d] \in {"imported", "refused"}
  BY <1>1 DEF FineInv, Answered
<1>4. CASE d = dir
  BY <1>2, <1>4
<1>5. CASE d # dir
  <2>1. ~broken
    OBVIOUS
  <2>2. Answered(d)
    BY <1>3, <1>5, <2>1 DEF FineInv
  <2> QED BY <1>2, <1>5, <2>2 DEF Answered
<1> QED BY <1>4, <1>5

(* A part of an import raises only if the directory is not fine.           *)
LEMMA PartFine ==
  ASSUME CasesInv, SessionInv, FineInv, AtWork, UNCHANGED files, NEW part, NEW v,
         NEW next \in Working,
         \/ Unreadable(part) /\ (part.is # "ok" => ~Fine(files[dir]))
         \/ Breaks
         \/ Raises(v) /\ ~Fine(files[dir])
         \/ Commits(v, next)
  PROVE  FineInv'
<1>1. pc \in Working /\ pc # "off"
  BY DEF AtWork, Working
<1>2. CASE Unreadable(part) /\ (part.is # "ok" => ~Fine(files[dir]))
  <2>1. (Ends("skipped") \/ Ends("failed")) /\ broken' = broken /\ ~Fine(files[dir])
    BY <1>2 DEF Unreadable
  <2> QED BY <1>1, <2>1, EndFine
<1>3. CASE Breaks
  BY <1>1, <1>3, EndFine DEF Breaks
<1>4. CASE Raises(v) /\ ~Fine(files[dir])
  BY <1>1, <1>4, EndFine DEF Raises
<1>5. CASE Commits(v, next)
  BY <1>1, <1>5 DEF Commits, FineInv, place, Answered
<1> QED BY <1>2, <1>3, <1>4, <1>5

LEMMA FineFiles ==
  ASSUME NEW c, Fine(c)
  PROVE  c.metadata = "ok" /\ c.subsystems.is = "ok" /\ c.geodata.is = "ok" /\ c.sheet.is = "ok"
BY DEF Fine

LEMMA InsertLinesFine ==
  ASSUME CasesInv, TypesInv, SessionInv, RowsInv, StageInv, FineInv, NEW kind \in Kinds,
         NEW next \in Working, InsertLines(kind, next)
  PROVE  FineInv'
<1> DEFINE lines == files[dir].subsystems[kind]
<1>1. AtWork /\ UNCHANGED files /\ pc \in Working \ {"network", "buses"}
  BY DEF AtWork, InsertLines, Untouched, Working, Places, Kinds
<1>2. HasBuses(view[net], files[dir])
  BY <1>1 DEF StageInv, Stage
<1>3. \/ \E v : Commits(v, next)
      \/ /\ \E v : Raises(v)
         /\ \E k \in DOMAIN lines : \E e \in DOMAIN lines[k] : ~Lookup(kind, k, lines[k][e])
  BY InsertLinesRows
<1>4. \A number \in BusNumbers(files[dir]) : KnownBus(number)
  BY <1>2 DEF HasBuses, KnownBus
<1>5. Fine(files[dir]) =>
        \A k \in DOMAIN lines : \A e \in DOMAIN lines[k] : lines[k][e] \in BusNumbers(files[dir])
  BY DEF Fine, BusNumbers
<1>6. Fine(files[dir]) => files[dir].subsystems.integers = {}
  BY DEF Fine
<1> QED BY <1>1, <1>3, <1>4, <1>5, <1>6, PartFine DEF Lookup

LEMMA DrawLinesFine ==
  ASSUME CasesInv, TypesInv, SessionInv, RowsInv, StageInv, FineInv, DrawLines
  PROVE  FineInv'
<1> DEFINE c == files[dir]
           F == c.geodata.features
<1>1. AtWork /\ UNCHANGED files /\ pc \in Working \ {"network", "buses"} /\ "requests" \in Working
  BY DEF AtWork, DrawLines, Untouched, Working, Places, Kinds
<1>2. HasBuses(view[net], c)
  BY <1>1 DEF StageInv, Stage
<1>3. \/ Unreadable(c.geodata) \/ Breaks
      \/ view[net].buses = {} /\ Raises(view)
      \/ Endless(view[net], F) # {} /\ \E v : Raises(v)
      \/ /\ \E v : Raises(v)
         /\ \E l : HasTrafoFeature(l, F)
      \/ \E v : Commits(v, "requests")
  BY DrawLinesRows
<1>4. (\E l : HasTrafoFeature(l, F)) => \E k \in DOMAIN F : F[k].typ = "trafo"
  BY DEF HasTrafoFeature
<1>5. view[net].buses = {} => ~Fine(c)
  BY <1>2 DEF HasBuses, BusNumbers, Fine
<1>6. (\E k \in DOMAIN F : F[k].typ = "trafo") => ~Fine(c)
  BY DEF Fine
<1>7. c.geodata.is # "ok" => ~Fine(c)
  BY FineFiles
<1>8. Endless(view[net], F) # {} => ~Fine(c)
  <2> SUFFICES ASSUME Endless(view[net], F) # {} PROVE \E k \in DOMAIN F : F[k].typ = "branch" /\ ~FitsLine(F[k])
    BY DEF Fine
  <2>1. PICK number : LET branch == First(F, OfBranch(F, number))
                      IN branch # NoFeature /\ Len(branch.at) = 1
    BY DEF Endless
  <2> DEFINE branch == First(F, OfBranch(F, number))
  <2>2. F \in Seq(Feature) /\ OfBranch(F, number) \in SUBSET DOMAIN F
    BY <1>1, Here DEF Content, Geodata, OfBranch
  <2>3. branch # NoFeature => branch \in {F[k] : k \in OfBranch(F, number)}
    BY <2>2, FirstOf
  <2>4. branch # NoFeature /\ Len(branch.at) = 1
    BY <2>1
  <2> HIDE DEF branch, F
  <2>5. PICK k \in OfBranch(F, number) : branch = F[k]
    BY <2>3, <2>4
  <2>6. k \in DOMAIN F /\ F[k].typ = "branch"
    BY DEF OfBranch
  <2>7. ~FitsLine(F[k])
    <3>1. Len(F[k].at) = 1
      BY <2>4, <2>5
    <3>2. FitsLine(F[k]) => Len(F[k].at) > 1
      BY DEF FitsLine
    <3> QED BY <3>1, <3>2
  <2> QED BY <2>6, <2>7
<1> QED BY <1>1, <1>3, <1>4, <1>5, <1>6, <1>7, <1>8, PartFine

(* The buses of a fine directory are apart, and its requests at buses with *)
(* a position.                                                             *)
LEMMA FineOnMap ==
  ASSUME NEW c \in Content, Fine(c), NEW g, HasBuses(g, c), IsDrawn(g, c)
  PROVE  /\ Converts(c.sheet)
         /\ SpansArea(g)
         /\ \A k \in DOMAIN Document(c.sheet.requests) : \A b \in g.buses :
              b.key[1] = Document(c.sheet.requests)[k].node => b.geom # NoGeom
<1> DEFINE known == BusNumbers(c) \cap Named(c)
           asked == Document(c.sheet.requests)
<1>1. \A b \in g.buses : b.key[1] \in known => b.geom # NoGeom /\ b.key \in Located(g.buses)
  <2>1. \A b \in g.buses : b.key[1] \in known => b.geom # NoGeom
    BY BusGeomIs DEF IsDrawn
  <2> QED BY <2>1 DEF Located
<1>2. \A number \in known : \E b \in g.buses : b.key[1] = number
  BY DEF HasBuses
<1>3. Converts(c.sheet)
  BY DEF Fine
<1>4. PICK x \in known, y \in known : BusGeom(x, c.geodata.features) # BusGeom(y, c.geodata.features)
  BY DEF Fine, BusNumbers
<1>5. PICK a \in g.buses, b \in g.buses : a.key[1] = x /\ b.key[1] = y
  BY <1>2
<1>6. SpansArea(g)
  <2>1. a.geom # b.geom
    BY <1>4, <1>5 DEF IsDrawn
  <2>2. {a.key, b.key} \subseteq Located(g.buses)
    BY <1>1, <1>5
  <2> QED BY <2>1, <2>2 DEF SpansArea
<1>7. \A k \in DOMAIN asked : asked[k].node \notin BusNumbers(c) \ known
  BY DEF Fine, BusNumbers
<1>8. ASSUME NEW k \in DOMAIN asked, NEW d \in g.buses, d.key[1] = asked[k].node
      PROVE  d.geom # NoGeom
  <2>1. d.key[1] \in BusNumbers(c)
    BY DEF HasBuses
  <2> QED BY <1>1, <1>7, <1>8, <2>1
<1> QED BY <1>3, <1>6, <1>8

LEMMA ImportRequestsFine ==
  ASSUME CasesInv, TypesInv, SessionInv, RowsInv, StageInv, FineInv, ImportRequests
  PROVE  FineInv'
<1> DEFINE c == files[dir]
           g == view[net]
           asked == Document(c.sheet.requests)
           risky == {k \in DOMAIN asked : /\ c.sheet.fake
                                          /\ KnownBus(asked[k].node)
                                          /\ BusOf(asked[k].node).geom = NoGeom}
<1>1. AtWork /\ UNCHANGED files /\ pc = "requests" /\ pc \in Working
  BY DEF AtWork, ImportRequests, Untouched, Working, Places, Kinds
<1>2. Stage(g, c, "requests") /\ c \in Content
  BY <1>1, Here DEF StageInv, AtWork
<1>3. HasBuses(g, c) /\ IsDrawn(g, c)
  BY <1>2 DEF Stage
<1>4. \/ Unreadable(c.sheet)
      \/ (~Converts(c.sheet) \/ ~SpansArea(g)) /\ Raises(view)
      \/ Ends("imported") /\ broken' = broken
      \/ (\E k \in risky : TRUE) /\ Ends("failed") /\ broken' = broken
      \/ Ends("failed") /\ broken' = TRUE
  BY DEF ImportRequests
<1>5. Fine(c) => Converts(c.sheet) /\ SpansArea(g)
  BY <1>2, <1>3, FineOnMap
<1>6. ASSUME NEW k \in risky PROVE ~Fine(c)
  <2>1. BusOf(asked[k].node) \in g.buses /\ BusOf(asked[k].node).key[1] = asked[k].node
    BY BusOfIs
  <2> QED BY <1>2, <1>3, <2>1, FineOnMap
<1>7. c.sheet.is # "ok" => ~Fine(c)
  BY FineFiles
<1>8. CASE Unreadable(c.sheet)
  BY <1>1, <1>7, <1>8, PartFine
<1>9. CASE (~Converts(c.sheet) \/ ~SpansArea(g)) /\ Raises(view)
  BY <1>1, <1>5, <1>9, PartFine
<1>10. CASE Ends("imported") /\ broken' = broken
  BY <1>1, <1>10, EndFine
<1>11. CASE (\E k \in risky : TRUE) /\ Ends("failed") /\ broken' = broken
  BY <1>1, <1>6, <1>11, EndFine
<1>12. CASE Ends("failed") /\ broken' = TRUE
  BY <1>1, <1>12, EndFine
<1> QED BY <1>4, <1>8, <1>9, <1>10, <1>11, <1>12

LEMMA FineStep ==
  ASSUME CasesInv, SessionInv, TypesInv, RowsInv, StageInv, FineInv, [Next]_vars
  PROVE  FineInv'
<1>1. CASE Start
  BY <1>1 DEF Start, FineInv
<1>2. CASE LoadMetadata
  <2>1. PICK d \in left :
          /\ left' = left \ {d}
          /\ dir' = d
          /\ \/ pc' = "network" /\ outcome' = outcome
             \/ /\ files[d].metadata # "ok"
                /\ \E r : outcome' = [outcome EXCEPT ![d] = r]
    BY <1>2 DEF LoadMetadata
  <2>2. pc = "next" /\ UNCHANGED <<files, broken>> /\ d \in Dirs
    BY <1>2 DEF LoadMetadata, Untouched, CasesInv
  <2>3. \A e \in Dirs \ {d} : outcome'[e] = outcome[e]
    BY <2>1, <2>2, OutcomeOfOther
  <2>4. ASSUME NEW e \in Dirs \ left', ~broken, Fine(files[e])
        PROVE  (pc' \in Working /\ e = dir') \/ outcome'[e] \in {"imported", "refused"}
    <3>1. CASE e = d
      BY <2>1, <2>4, <3>1, FineFiles DEF Working, Places
    <3>2. CASE e # d
      BY <2>1, <2>2, <2>3, <2>4, <3>2 DEF FineInv, Answered, Working
    <3> QED BY <3>1, <3>2
  <2> QED BY <2>2, <2>4 DEF FineInv, Answered
<1>3. CASE Stop \/ Crash
  BY <1>3 DEF Stop, Crash, Gone, FineInv
<1>4. CASE SessionBroken
  <2>1. pc \in Working /\ Ends("failed") /\ broken /\ broken' = broken /\ UNCHANGED files
    BY <1>4 DEF SessionBroken, Untouched, Working, Places
  <2> QED BY <2>1, EndFine
<1>5. CASE FindNetwork
  <2>1. pc \in Working /\ pc = "network" /\ broken' = broken /\ UNCHANGED files
    BY <1>5 DEF FindNetwork, Untouched, Working, Places
  <2>2. \/ Ends("skipped") /\ "missing" \in {files[dir].subsystems.is, files[dir].geodata.is}
        \/ Ends("refused")
        \/ pc' = "buses" /\ UNCHANGED <<outcome, dir, left>>
    BY <1>5 DEF FindNetwork
  <2>3. "missing" \in {files[dir].subsystems.is, files[dir].geodata.is} => ~Fine(files[dir])
    BY FineFiles
  <2>4. CASE Ends("skipped") /\ "missing" \in {files[dir].subsystems.is, files[dir].geodata.is}
    BY <2>1, <2>3, <2>4, EndFine
  <2>5. CASE Ends("refused")
    BY <2>1, <2>5, EndFine
  <2>6. CASE pc' = "buses" /\ UNCHANGED <<outcome, dir, left>>
    BY <2>1, <2>6 DEF FineInv, Answered, Working, Places
  <2> QED BY <2>2, <2>4, <2>5, <2>6
<1>6. CASE CreateNetwork
  BY <1>6 DEF CreateNetwork, FineInv, Answered, Working, Places
<1>7. CASE InsertBuses
  <2>1. AtWork /\ UNCHANGED files /\ "branch" \in Working
    BY <1>7 DEF AtWork, InsertBuses, Untouched, Working, Places, Kinds
  <2>2. Unreadable(files[dir].subsystems) \/ Breaks \/ \E v : Commits(v, "branch")
    BY <1>7 DEF InsertBuses
  <2>3. files[dir].subsystems.is # "ok" => ~Fine(files[dir])
    BY FineFiles
  <2> QED BY <2>1, <2>2, <2>3, PartFine
<1>8. CASE \/ InsertLines("branch", "trafo") \/ InsertLines("trafo", "trafo3w")
           \/ InsertLines("trafo3w", "geodata")
  <2>1. {"trafo", "trafo3w", "geodata"} \subseteq Working
    BY DEF Working, Places, Kinds
  <2> QED BY <1>8, <2>1, InsertLinesFine DEF Kinds
<1>9. CASE DrawLines
  BY <1>9, DrawLinesFine
<1>10. CASE ImportRequests
  BY <1>10, ImportRequestsFine
<1>11. CASE Modify
  BY <1>11 DEF Modify, FineInv
<1>12. CASE UpdateNetwork \/ UNCHANGED vars
  BY <1>12 DEF UpdateNetwork, vars, place, FineInv, Answered
<1> QED BY <1>1, <1>2, <1>3, <1>4, <1>5, <1>6, <1>7, <1>8, <1>9, <1>10, <1>11, <1>12
        DEF Next, ImportSubsystems

(* At the end of a start, a directory whose files can be imported has been *)
(* imported, or is refused as imported already, whatever the other         *)
(* directories hold, unless one of them made a flush fail.                 *)
THEOREM FineDirectoryImportedAlways == Spec => FineDirectoryImported
<1> DEFINE Step == pc = "next" /\ pc' = "off" /\ left = {} /\ ~broken =>
                     \A d \in Dirs : Fine(files[d]) => outcome[d] \in {"imported", "refused"}
<1>1. Init => FineInv
  BY DEF Init, FineInv
<1>2. /\ CasesInv /\ SessionInv /\ TypesInv /\ RowsInv /\ StageInv
      /\ FineInv /\ [Next]_vars
      => FineInv'
  BY FineStep
<1>3. FineInv => [Step]_vars
  BY DEF FineInv, Answered, Working
<1>4. Spec => [][Step]_vars
  BY <1>1, <1>2, <1>3, StagesAlways, PTL DEF Spec
<1> QED BY <1>4 DEF FineDirectoryImported
=============================================================================

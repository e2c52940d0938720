-------------------------- MODULE MCStartupImport --------------------------
(* StartupImport on two directories and a few kinds of content.            *)
EXTENDS StartupImport, TLC

CONSTANTS d1, d2

Directories == Permutations(Dirs)

(* Two buses and what joins them; a third bus with no feature of its own.  *)
Files(buses, branches, trafos) ==
  [is |-> "ok", buses |-> buses, branch |-> branches, trafo |-> trafos,
   trafo3w |-> IF Len(buses) < 3 THEN <<>> ELSE <<<<"b1", "b2", "b3">>>>, integers |-> {}]
Grid == Files(<<"b1", "b2", "b3">>, <<<<"b1", "b2">>, <<"b2", "b3">>>>, <<<<"b1", "b2">>>>)

BusFeature(b, at) == [typ |-> "bus", ends |-> <<b>>, type |-> "Point", at |-> <<at>>]
BranchFeatures(a, b, at) ==
  [typ |-> "branch", ends |-> <<a, b>>, type |-> "LineString", at |-> at]
TrafoFeature(a, b, at) ==
  [typ |-> "trafo", ends |-> <<a, b>>, type |-> "LineString", at |-> at]

OnMap(features) == [is |-> "ok", features |-> features]
Points == OnMap(<<BusFeature("b1", 1), BranchFeatures("b2", "b1", <<5, 3, 2>>),
                BusFeature("b2", 4)>>)
Full == OnMap(<<BusFeature("b1", 1), BranchFeatures("b2", "b3", <<5, 6, 7>>), BusFeature("b2", 4)>>)
WithTrafo == OnMap(<<BusFeature("b1", 1), BranchFeatures("b2", "b3", <<5, 6, 7>>),
                     TrafoFeature("b1", "b2", <<1, 4>>)>>)

Number(b) == [is |-> "number", of |-> b]
Text(b) == [is |-> "text", of |-> b]
Blank == [is |-> "blank", of |-> "b1"]
Request(cell) == [project |-> "wind", node |-> cell, fits |-> TRUE]
Scenario(code) == [code |-> code, fits |-> TRUE]
Rows(fake, nodes) ==
  [is |-> "ok", fake |-> fake, requests |-> [k \in DOMAIN nodes |-> Request(Number(nodes[k]))],
   scenarios |-> <<Scenario("summer")>>]
Cells(cells) ==
  [Rows(FALSE, <<>>) EXCEPT !.requests = [k \in DOMAIN cells |-> Request(cells[k])]]
Missing(part) == [part EXCEPT !.is = "missing"]
Invalid(part) == [part EXCEPT !.is = "invalid"]

Directory(overwrite, subsystems, geodata, sheet) ==
  [metadata |-> "ok", overwrite |-> overwrite, case |-> "case", subsystems |-> subsystems,
   geodata |-> geodata, sheet |-> sheet]

Good == Directory(TRUE, Grid, Full, Rows(TRUE, <<"b1", "b2", "b9">>))
Frozen ==
  [Directory(FALSE, Files(<<"b1", "b2">>, <<<<"b1", "b2">>>>, <<>>), Points, Rows(FALSE, <<"b2">>))
     EXCEPT !.sheet.scenarios = <<Scenario("winter")>>]
NoBus == Directory(TRUE, Files(<<"b1", "b2">>, <<<<"b1", "b2">>, <<"b2", "b9">>>>, <<>>), Full,
                   Rows(FALSE, <<>>))
TwiceABus == Directory(TRUE, Files(<<"b1", "b1">>, <<>>, <<>>), Full, Rows(FALSE, <<>>))
LostTrafo == Directory(TRUE, Grid, WithTrafo, Rows(FALSE, <<>>))
LostRequest == Directory(TRUE, Grid, Points, Rows(TRUE, <<"b1", "b3", "b1">>))
NoBuses == Directory(TRUE, Files(<<>>, <<>>, <<>>), Full, Rows(FALSE, <<>>))
OnePlace == Directory(TRUE, Grid, OnMap(<<BusFeature("b1", 1)>>), Rows(FALSE, <<"b1">>))
Floats == Directory(TRUE, Grid, Full, Cells(<<Number("b1"), Blank>>))
Mixed == Directory(TRUE, Grid, Full, Cells(<<Blank, Number("b1"), Text("b3"), Text("b9")>>))
NoPhase == [Good EXCEPT !.sheet.requests[2].fits = FALSE]
TwiceAScenario ==
  [Good EXCEPT !.sheet.scenarios = <<Scenario("winter"), Scenario("summer"), Scenario("summer")>>]
Winter == [Good EXCEPT !.sheet.scenarios = <<Scenario("winter")>>, !.subsystems.branch = <<>>]
OtherCase == [Good EXCEPT !.case = "other"]
Integer == [Good EXCEPT !.subsystems.integers = {1}]
BranchPoint ==
  [Good EXCEPT !.geodata = OnMap(<<BusFeature("b1", 1), BranchFeatures("b2", "b3", <<5>>),
                                  [BusFeature("b2", 4) EXCEPT !.at = <<4, 4>>]>>)]
BranchPolygon == [Good EXCEPT !.geodata.features[2].type = "other"]
NoFiles ==
  {[Good EXCEPT !.metadata = "missing"],
   [Good EXCEPT !.subsystems = Invalid(@)],
   [Good EXCEPT !.geodata = Missing(@)],
   [Good EXCEPT !.sheet = Missing(@)]}

MCContents ==
  {Good, Frozen, NoBus, TwiceABus, LostTrafo, LostRequest, NoBuses, OnePlace,
   Floats, Mixed, NoPhase, TwiceAScenario, OtherCase, Integer,
   BranchPoint, BranchPolygon, Winter}
    \cup NoFiles

(* What a directory is changed to: another grid and scenario, another     *)
(* case_name, a branch whose bus is nowhere.                               *)
MCRewritten == {Good, Winter, OtherCase, NoBus}

(* A state constraint: beside a directory of any kind stands one of these. *)
OneIsPlain == \E d \in Dirs : files[d] \in Rewritten
=============================================================================

------------------------ MODULE MCConnectionsImport ------------------------
(* ConnectionsImport on two buses and short documents.                     *)
EXTENDS ConnectionsImport

CONSTANTS api, startup, org, user

(* b1 and b2 are located 9 apart; b3 has no position. *)
MCBusAt == [b \in {"b1", "b2", "b3"} |->
              CASE b = "b1" -> 1 [] b = "b2" -> 10 [] OTHER -> 0]

Default == ScenarioRow("base", 0, 1, {})
MCOldRows == {RequestRow("wind", "b1", 0, 1), Default}

(* No reference rows yet, or the user twice, after an earlier race. *)
MCOldRefs == {[r \in Refs |-> 0], [r \in Refs |-> IF r = user THEN 2 ELSE 0]}
MCAbroad == {RequestRow("wind", "elsewhere", 0, 1)}

(* The week's document: the second request brings in a new organisation    *)
(* and is placed by its position when a distance is given.                 *)
Weekly(distance) ==
  [requests |-> <<[project |-> "wind", node |-> "b1", at |-> 0, refs |-> <<user, org>>, blank |-> FALSE],
                  [project |-> "sun", node |-> NoNode, at |-> 8, refs |-> <<org>>, blank |-> FALSE]>>,
   scenarios |-> <<[code |-> "week", names |-> {"wind", "sun"}, author |-> user]>>,
   distance |-> distance]

(* A document that names the default scenario, and a bus that is not      *)
(* there, after one whose organisation is new.                             *)
WithDefault ==
  [requests |-> <<[project |-> "sun", node |-> "b3", at |-> 0, refs |-> <<org>>, blank |-> FALSE],
                  [project |-> "sun", node |-> "b9", at |-> 8, refs |-> <<>>, blank |-> FALSE]>>,
   scenarios |-> <<[code |-> "base", names |-> {"sun"}, author |-> user]>>,
   distance |-> 0]

(* The same requests twice. *)
Doubled ==
  [requests |-> <<[project |-> "wind", node |-> "b1", at |-> 0, refs |-> <<>>, blank |-> FALSE],
                  [project |-> "wind", node |-> NoNode, at |-> 2, refs |-> <<user>>,
                   blank |-> FALSE]>>,
   scenarios |-> <<>>,
   distance |-> 5]

(* A user is new, the nearest bus too far for one request, and the extra   *)
(* of the other has no coordinates.                                        *)
Remote ==
  [requests |-> <<[project |-> "wind", node |-> "b3", at |-> 0, refs |-> <<user>>, blank |-> FALSE],
                  [project |-> "sun", node |-> NoNode, at |-> 5, refs |-> <<>>, blank |-> FALSE],
                  [project |-> "sun", node |-> "b1", at |-> 0, refs |-> <<>>, blank |-> TRUE]>>,
   scenarios |-> <<>>,
   distance |-> 2]

MCPayloads == {Weekly(0), Weekly(5), WithDefault, Doubled, Remote}
=============================================================================

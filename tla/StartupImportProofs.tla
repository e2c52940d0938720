------------------------ MODULE StartupImportProofs ------------------------
(***************************************************************************)
(* Proofs about StartupImport.  A case_name has one network because only   *)
(* CreateNetwork gives a case_name to a network, when no network has it.   *)
(* A commit changes only networks that are under way or have failed        *)
(* because the script's session differs from the database only on networks *)
(* whose directory has failed in this start, and every step of an import   *)
(* changes the rows of one network.                                        *)
(***************************************************************************)
EXTENDS StartupImport, TLAPS

(* The case_names, and who may ask for a new one.                          *)
CasesInv ==
  /\ created \in 0..MaxNetworks
  /\ files \in [Dirs -> Contents]
  /\ case \in [Ids -> Cases \cup {NoCase}]
  /\ \A n \in Ids : case[n] # NoCase <=> n <= created
  /\ left \subseteq Dirs
  /\ pc = "network" => dir \in Dirs
  /\ OneNetworkPerCase

(* The rest of an action, as far as the case_names are concerned: the step *)
(* of an import does not choose a directory.                               *)
KeepsCases == UNCHANGED <<files, networks>> /\ UNCHANGED place /\ pc' # "network"

(* What a directory calls its case is a case of that directory alone.      *)
LEMMA CaseOfDir ==
  ASSUME files \in [Dirs -> Contents], NEW d \in Dirs
  PROVE  CaseOf(d) \in Cases /\ CaseOf(d) # NoCase /\ CaseOf(d)[1] = d
<1>1. files[d].case \in CaseNames
  BY ContentsAssumption DEF Content
<1> QED BY <1>1, NoCaseAssumption DEF CaseOf, Cases

LEMMA EndsKeepsPlace == ASSUME NEW r, Ends(r) PROVE UNCHANGED place /\ pc' = "next"
BY DEF Ends

LEMMA PartKeepsCases ==
  ASSUME NEW part, NEW v, NEW next, next # "network",
         Unreadable(part) \/ Raises(v) \/ Breaks \/ Commits(v, next)
  PROVE  UNCHANGED place /\ pc' # "network"
BY DEF Unreadable, Raises, Breaks, Commits, Ends

LEMMA InsertBusesKeepsCases == InsertBuses => KeepsCases
<1> SUFFICES ASSUME InsertBuses PROVE KeepsCases OBVIOUS
<1>1. UNCHANGED <<files, networks>>
  BY DEF InsertBuses, Untouched
<1>2. \/ Unreadable(files[dir].subsystems) \/ Breaks
      \/ \E v : Commits(v, "branch")
  BY DEF InsertBuses
<1> QED BY <1>1, <1>2, PartKeepsCases DEF KeepsCases

LEMMA InsertLinesKeepsCases ==
  ASSUME NEW kind, NEW next, next # "network", InsertLines(kind, next)
  PROVE  KeepsCases
<1>1. UNCHANGED <<files, networks>>
  BY DEF InsertLines, Untouched
<1>2. \E v : Commits(v, next) \/ Raises(v)
  BY DEF InsertLines
<1> QED BY <1>1, <1>2, PartKeepsCases DEF KeepsCases

LEMMA DrawLinesKeepsCases == DrawLines => KeepsCases
<1> SUFFICES ASSUME DrawLines PROVE KeepsCases OBVIOUS
<1>1. UNCHANGED <<files, networks>>
  BY DEF DrawLines, Untouched
<1>2. \/ Unreadable(files[dir].geodata) \/ Breaks
      \/ \E v : Raises(v) \/ Commits(v, "requests")
  BY DEF DrawLines, LocateSome
<1> QED BY <1>1, <1>2, PartKeepsCases DEF KeepsCases

LEMMA ImportRequestsKeepsCases == ImportRequests => KeepsCases
<1> SUFFICES ASSUME ImportRequests PROVE KeepsCases OBVIOUS
<1>1. UNCHANGED <<files, networks>>
  BY DEF ImportRequests, Untouched
<1>2. Unreadable(files[dir].sheet) \/ (\E v : Raises(v)) \/ Ends("imported") \/ Ends("failed")
  BY DEF ImportRequests
<1> QED BY <1>1, <1>2, PartKeepsCases, EndsKeepsPlace DEF KeepsCases

(* A step of an import sets the rows of its network, and of no other.      *)
NetSet(v, g) == [v EXCEPT ![net] = g]

LEMMA InsertLinesSets ==
  ASSUME NEW kind, NEW next, InsertLines(kind, next)
  PROVE  \E g : Commits(NetSet(view, g), next) \/ Raises(NetSet(view, g))
BY DEF InsertLines, NetSet

LEMMA InsertBusesSets ==
  ASSUME InsertBuses
  PROVE  \/ Unreadable(files[dir].subsystems) \/ Breaks
         \/ \E g : Commits(NetSet(view, g), "branch")
BY DEF InsertBuses, NetSet, WithoutBuses

LEMMA DrawLinesSets ==
  ASSUME DrawLines
  PROVE  \/ Unreadable(files[dir].geodata) \/ Raises(view) \/ Breaks
         \/ \E g : Commits(NetSet(view, g), "requests") \/ Raises(NetSet(view, g))
BY DEF DrawLines, LocateSome, NetSet

LEMMA ImportRequestsSets ==
  ASSUME ImportRequests
  PROVE  \/ Unreadable(files[dir].sheet) \/ Raises(view)
         \/ \E g, h :
              \/ /\ db' = NetSet(view, g)
                 /\ view' = db'
                 /\ Ends("imported")
              \/ /\ db' \in {db, NetSet(view, g)}
                 /\ view' \in {NetSet(view, h), db'}
                 /\ Ends("failed")
<1> DEFINE asked == Document(files[dir].sheet.requests)
           scenarios == files[dir].sheet.scenarios
           before(kept, k) == WithRows(kept, asked, scenarios, k - 1)
           committed(kept, k) == {db} \cup {before(kept, j) : j \in 1..k}
           all(kept) == WithRows(kept, asked, scenarios, Len(asked) + Len(scenarios))
<1>1. \A kept, k : \E g : WithRows(kept, asked, scenarios, k) = NetSet(view, g)
  BY DEF NetSet, WithRows
<1>2. \A kept, k : \E g : before(kept, k) = NetSet(view, g)
  BY <1>1
<1>3. \A kept : \E g : all(kept) = NetSet(view, g)
  BY <1>1
<1>4. \/ Unreadable(files[dir].sheet) \/ Raises(view)
      \/ \E kept : db' = all(kept) /\ view' = db' /\ Ends("imported")
      \/ \E kept, k : db' \in committed(kept, k) /\ view' \in {before(kept, k), db'} /\ Ends("failed")
  BY DEF ImportRequests
<1> HIDE DEF before, all
<1>5. ASSUME NEW kept, NEW k, db' \in committed(kept, k), view' \in {before(kept, k), db'},
             Ends("failed")
      PROVE  \E g, h :
               /\ db' \in {db, NetSet(view, g)}
               /\ view' \in {NetSet(view, h), db'}
               /\ Ends("failed")
  <2>1. \E g : db' \in {db, NetSet(view, g)}
    BY <1>2, <1>5
  <2>2. \E h : view' \in {NetSet(view, h), db'}
    BY <1>2, <1>5
  <2> QED BY <2>1, <2>2, <1>5
<1>6. ASSUME NEW kept, db' = all(kept), view' = db', Ends("imported")
      PROVE  \E g : db' = NetSet(view, g) /\ view' = db' /\ Ends("imported")
  BY <1>3, <1>6
<1> QED BY <1>4, <1>5, <1>6

-----------------------------------------------------------------------------
LEMMA CasesInit == Init => CasesInv
<1> SUFFICES ASSUME Init PROVE CasesInv OBVIOUS
<1>1. Ids \subseteq Nat \ {0} /\ MaxNetworks \in Nat
  BY BoundsAssumption DEF Ids
<1>2. /\ case \in [Ids -> Cases \cup {NoCase}] /\ created \in 0..MaxNetworks
      /\ files \in [Dirs -> Contents]
  BY <1>1 DEF Init
<1>3. \A n \in Ids : case[n] = NoCase /\ ~(n <= created)
  BY <1>1 DEF Init
<1>4. left \subseteq Dirs /\ pc # "network"
  BY DEF Init
<1> QED BY <1>2, <1>3, <1>4 DEF CasesInv, OneNetworkPerCase

LEMMA CasesKept == CasesInv /\ KeepsCases => CasesInv'
BY DEF CasesInv, KeepsCases, OneNetworkPerCase, networks, place

LEMMA CasesCreate == CasesInv /\ CreateNetwork => CasesInv'
<1> SUFFICES ASSUME CasesInv, CreateNetwork PROVE CasesInv' OBVIOUS
<1> DEFINE new == created + 1
<1>1. new \in Ids /\ created \in Nat /\ new \in 0..MaxNetworks
  BY BoundsAssumption DEF CasesInv, CreateNetwork, Ids
<1>2. /\ case' = [case EXCEPT ![new] = CaseOf(dir)] /\ created' = new
      /\ pc' = "buses" /\ left' = left /\ files' = files /\ dir \in Dirs
  BY DEF CreateNetwork, CasesInv
<1>3. CaseOf(dir) \in Cases /\ CaseOf(dir) # NoCase /\ case' \in [Ids -> Cases \cup {NoCase}]
  BY <1>1, <1>2, CaseOfDir DEF CasesInv
<1>4. case'[new] = CaseOf(dir) /\ \A n \in Ids \ {new} : case'[n] = case[n]
  BY <1>1, <1>2 DEF CasesInv
<1>5. ASSUME NEW n \in Ids PROVE case'[n] # NoCase <=> n <= created'
  <2>1. n \in Nat
    BY <1>5 DEF Ids
  <2>2. CASE n = new
    BY <1>1, <1>2, <1>3, <1>4, <2>2
  <2>3. CASE n # new
    BY <1>1, <1>2, <1>4, <2>1, <2>3 DEF CasesInv
  <2> QED BY <2>2, <2>3
<1>6. \A n \in Ids : case[n] # CaseOf(dir)
  BY DEF CreateNetwork, Existing
<1>7. OneNetworkPerCase'
  BY <1>4, <1>6 DEF OneNetworkPerCase, CasesInv
<1> QED BY <1>1, <1>2, <1>3, <1>5, <1>7 DEF CasesInv

LEMMA CasesUpdate == CasesInv /\ UpdateNetwork => CasesInv'
<1> SUFFICES ASSUME CasesInv, UpdateNetwork PROVE CasesInv' OBVIOUS
<1>1. UNCHANGED <<files, created, left, pc, dir>>
  BY DEF UpdateNetwork
<1>2. case' = case
  <2>1. PICK n \in Ids, d \in Cases : case[n] # NoCase /\ case' = [case EXCEPT ![n] = CaseAfter(case[n], d)]
    BY DEF UpdateNetwork
  <2>2. CaseAfter(case[n], d) = case[n]
    BY <2>1 DEF CaseAfter
  <2> QED BY <2>1, <2>2 DEF CasesInv
<1> QED BY <1>1, <1>2 DEF CasesInv, OneNetworkPerCase

LEMMA CasesStep == CasesInv /\ [Next]_vars => CasesInv'
<1> SUFFICES ASSUME CasesInv, [Next]_vars PROVE CasesInv' OBVIOUS
<1> USE DEF networks, place
<1>1. CASE Start
  BY <1>1 DEF Start, CasesInv, OneNetworkPerCase
<1>2. CASE LoadMetadata
  BY <1>2 DEF LoadMetadata, Untouched, CasesInv, OneNetworkPerCase
<1>3. CASE Stop
  BY <1>3 DEF Stop, Gone, Untouched, CasesInv, OneNetworkPerCase
<1>4. CASE SessionBroken
  BY <1>4, EndsKeepsPlace, CasesKept DEF SessionBroken, Untouched, KeepsCases
<1>5. CASE FindNetwork
  <2>1. UNCHANGED <<files, networks>> /\ pc' # "network" /\ UNCHANGED left
    BY <1>5 DEF FindNetwork, Untouched, Ends
  <2> QED BY <2>1 DEF CasesInv, OneNetworkPerCase
<1>6. CASE CreateNetwork
  BY <1>6, CasesCreate
<1>7. CASE ImportSubsystems
  BY <1>7, InsertBusesKeepsCases, InsertLinesKeepsCases, CasesKept DEF ImportSubsystems
<1>8. CASE DrawLines
  BY <1>8, DrawLinesKeepsCases, CasesKept
<1>9. CASE ImportRequests
  BY <1>9, ImportRequestsKeepsCases, CasesKept
<1>10. CASE Crash
  BY <1>10 DEF Crash, Gone, CasesInv, OneNetworkPerCase
<1>11. CASE Modify
  <2>1. files' \in [Dirs -> Contents] /\ UNCHANGED <<created, case, left, pc>>
    BY <1>11, ContentsAssumption DEF Modify, CasesInv
  <2> QED BY <1>11, <2>1 DEF Modify, CasesInv, OneNetworkPerCase
<1>12. CASE UpdateNetwork
  BY <1>12, CasesUpdate
<1>13. CASE UNCHANGED vars
  BY <1>13 DEF vars, CasesInv, OneNetworkPerCase
<1> QED BY <1>1, <1>2, <1>3, <1>4, <1>5, <1>6, <1>7, <1>8, <1>9, <1>10, <1>11, <1>12, <1>13 DEF Next

(* A case_name has one network, for any number of directories, networks,   *)
(* starts, crashes and changes of files, of what they call their case, and *)
(* of configurations.                                                      *)
THEOREM OneNetworkPerCaseAlways == Spec => []OneNetworkPerCase
<1>1. CasesInv => OneNetworkPerCase
  BY DEF CasesInv
<1> QED BY <1>1, CasesInit, CasesStep, PTL DEF Spec

-----------------------------------------------------------------------------
Working == Places \ {"off", "next"}
Failed(n) == \E d \in Dirs : case[n] = CaseOf(d) /\ outcome[d] = "failed"

(* What the session holds and the database does not belongs to directories *)
(* that have failed in this start; what is under way has no outcome yet.   *)
SessionInv ==
  /\ db = [n \in Ids |-> db[n]]
  /\ view = [n \in Ids |-> view[n]]
  /\ outcome = [d \in Dirs |-> outcome[d]]
  /\ pc \in Places
  /\ pc # "off" => \A d \in left : outcome[d] = "none"
  /\ pc \in Working => dir \in Dirs \ left /\ outcome[dir] = "none"
  /\ pc \in Working \ {"network"} => net \in Ids /\ case[net] = CaseOf(dir)
  /\ \A n \in Ids : view[n] # db[n] => pc # "off" /\ Failed(n)

(* A step of an import: it may change the rows of net, commit what the     *)
(* session holds of the others or drop it, and go on or end.               *)
NetStep ==
  /\ pc \in Working \ {"network"}
  /\ db' = [n \in Ids |-> db'[n]]
  /\ view' = [n \in Ids |-> view'[n]]
  /\ \A n \in Ids \ {net} : db'[n] \in {db[n], view[n]} /\ view'[n] \in {view[n], db'[n]}
  /\ UNCHANGED <<files, networks>> /\ UNCHANGED place
  /\ \/ pc' \in Working \ {"network"} /\ outcome' = outcome /\ view' = db'
     \/ \E r : Ends(r) /\ (r = "failed" \/ view' = db' \/ UNCHANGED <<view, db>>)

LEMMA SetOfNet ==
  ASSUME SessionInv, pc \in Working, pc # "network", NEW g
  PROVE  /\ NetSet(view, g) = [n \in Ids |-> NetSet(view, g)[n]]
         /\ \A n \in Ids \ {net} : NetSet(view, g)[n] = view[n]
BY DEF SessionInv, NetSet

LEMMA PartIsNetStep ==
  ASSUME SessionInv, pc \in Working, pc # "network", UNCHANGED <<files, networks>>,
         NEW part, NEW g, NEW next \in Working, next # "network",
         \/ Unreadable(part) \/ Breaks \/ Raises(view)
         \/ Commits(NetSet(view, g), next) \/ Raises(NetSet(view, g))
  PROVE  NetStep
<1>1. CASE Unreadable(part)
  BY <1>1 DEF NetStep, Unreadable, Ends, SessionInv
<1>2. CASE Breaks
  BY <1>2 DEF NetStep, Breaks, Ends, SessionInv
<1>3. CASE Raises(view)
  BY <1>3 DEF NetStep, Raises, Ends, SessionInv
<1>4. CASE Commits(NetSet(view, g), next)
  BY <1>4, SetOfNet DEF NetStep, Commits
<1>5. CASE Raises(NetSet(view, g))
  BY <1>5, SetOfNet DEF NetStep, Raises, Ends, SessionInv
<1> QED BY <1>1, <1>2, <1>3, <1>4, <1>5

LEMMA InsertBusesIsNetStep == SessionInv /\ InsertBuses => NetStep
<1> SUFFICES ASSUME SessionInv, InsertBuses PROVE NetStep OBVIOUS
<1>1. pc \in Working /\ pc # "network" /\ "branch" \in Working /\ UNCHANGED <<files, networks>>
  BY DEF InsertBuses, Untouched, Working, Places, Kinds
<1> QED BY <1>1, InsertBusesSets, PartIsNetStep

LEMMA InsertLinesIsNetStep ==
  ASSUME SessionInv, NEW kind \in Kinds, NEW next \in Working, next # "network",
         InsertLines(kind, next)
  PROVE  NetStep
<1>1. pc \in Working /\ pc # "network" /\ UNCHANGED <<files, networks>>
  BY DEF InsertLines, Untouched, Working, Places, Kinds
<1> QED BY <1>1, InsertLinesSets, PartIsNetStep

LEMMA DrawLinesIsNetStep == SessionInv /\ DrawLines => NetStep
<1> SUFFICES ASSUME SessionInv, DrawLines PROVE NetStep OBVIOUS
<1>1. pc \in Working /\ pc # "network" /\ "requests" \in Working /\ UNCHANGED <<files, networks>>
  BY DEF DrawLines, Untouched, Working, Places, Kinds
<1> QED BY <1>1, DrawLinesSets, PartIsNetStep

LEMMA ImportRequestsIsNetStep == SessionInv /\ ImportRequests => NetStep
<1> SUFFICES ASSUME SessionInv, ImportRequests PROVE NetStep OBVIOUS
<1>1. pc \in Working /\ pc # "network" /\ "requests" \in Working /\ UNCHANGED <<files, networks>>
  BY DEF ImportRequests, Untouched, Working, Places, Kinds
<1>2. CASE Unreadable(files[dir].sheet) \/ Raises(view)
  BY <1>1, <1>2, PartIsNetStep
<1>3. ASSUME NEW g, db' = NetSet(view, g), view' = db', Ends("imported")
      PROVE  NetStep
  BY <1>1, <1>3, SetOfNet DEF NetStep, Ends
<1>4. ASSUME NEW g, NEW h, db' \in {db, NetSet(view, g)}, view' \in {NetSet(view, h), db'},
             Ends("failed")
      PROVE  NetStep
  <2>1. db' = [n \in Ids |-> db'[n]] /\ \A n \in Ids \ {net} : db'[n] \in {db[n], view[n]}
    <3>1. CASE db' = db
      BY <3>1 DEF SessionInv
    <3>2. CASE db' = NetSet(view, g)
      BY <1>1, <3>2, SetOfNet
    <3> QED BY <1>4, <3>1, <3>2
  <2>2. view' = [n \in Ids |-> view'[n]] /\ \A n \in Ids \ {net} : view'[n] \in {view[n], db'[n]}
    <3>1. CASE view' = db'
      BY <2>1, <3>1
    <3>2. CASE view' = NetSet(view, h)
      BY <1>1, <3>2, SetOfNet
    <3> QED BY <1>4, <3>1, <3>2
  <2> QED BY <1>1, <1>4, <2>1, <2>2 DEF NetStep, Ends
<1> QED BY <1>2, <1>3, <1>4, ImportRequestsSets

LEMMA OutcomeOfOther ==
  ASSUME SessionInv, NEW d \in Dirs, NEW r, outcome' = [outcome EXCEPT ![d] = r]
  PROVE  /\ outcome' = [e \in Dirs |-> outcome'[e]]
         /\ outcome'[d] = r
         /\ \A e \in Dirs \ {d} : outcome'[e] = outcome[e]
BY DEF SessionInv

LEMMA NetStepKeeps ==
  ASSUME CasesInv, SessionInv, NetStep
  PROVE  SessionInv' /\ OnlyUnfinished
<1>1. /\ case' = case /\ files' = files /\ left' = left /\ dir' = dir /\ net' = net
      /\ pc \in Working \ {"network"} /\ dir \in Dirs \ left /\ outcome[dir] = "none"
      /\ net \in Ids /\ case[net] = CaseOf(dir) /\ CaseOf(dir) # NoCase /\ left \subseteq Dirs
  BY CaseOfDir DEF NetStep, SessionInv, CasesInv, networks, place
<1>2. \A d \in Dirs : CaseOf(d)' = CaseOf(d)
  BY <1>1 DEF CaseOf
<1>3. ASSUME NEW n \in Ids, n # net
      PROVE  case[n] # CaseOf(dir)
  BY <1>1, <1>3 DEF CasesInv, OneNetworkPerCase
<1>4. OnlyUnfinished
  <2> SUFFICES ASSUME NEW n \in Ids, db'[n] # db[n]
               PROVE  \E d \in Dirs : case[n] = CaseOf(d) /\ outcome[d] \in {"none", "failed"}
    BY DEF OnlyUnfinished
  <2>1. CASE n = net
    BY <1>1, <2>1
  <2>2. CASE n # net
    BY <2>2 DEF NetStep, SessionInv, Failed
  <2> QED BY <2>1, <2>2
<1>5. view[net] = db[net]
    <2>1. ~Failed(net)
    <3> SUFFICES ASSUME NEW d \in Dirs, case[net] = CaseOf(d) PROVE outcome[d] # "failed"
      BY DEF Failed
    <3>1. d = dir
      BY <1>1, CaseOfDir DEF CasesInv
    <3> QED BY <1>1, <3>1
  <2> QED BY <1>1, <2>1 DEF SessionInv
<1>6. CASE pc' \in Working \ {"network"} /\ outcome' = outcome /\ view' = db'
  <2>1. db' = [n \in Ids |-> db'[n]] /\ view' = [n \in Ids |-> view'[n]]
    BY DEF NetStep
  <2>2. pc # "off" /\ pc' \in Places /\ pc' # "off"
    BY <1>1, <1>6 DEF Working
  <2>3. /\ outcome' = [d \in Dirs |-> outcome'[d]]
        /\ \A d \in left' : outcome'[d] = "none"
    BY <1>1, <1>6, <2>2 DEF SessionInv
  <2>4. \A n \in Ids : view'[n] # db'[n] => pc' # "off" /\ Failed(n)'
    BY <1>6
  <2>5. /\ dir' \in Dirs \ left' /\ outcome'[dir'] = "none"
        /\ net' \in Ids /\ case'[net'] = CaseOf(dir)'
    BY <1>1, <1>2, <1>6 DEF CaseOf
  <2> QED BY <1>4, <2>1, <2>2, <2>3, <2>4, <2>5 DEF SessionInv
<1>7. ASSUME NEW r, Ends(r), r = "failed" \/ view' = db' \/ UNCHANGED <<view, db>>
      PROVE  SessionInv'
  <2>1. pc' = "next" /\ outcome' = [outcome EXCEPT ![dir] = r]
    BY <1>7 DEF Ends
  <2>2. /\ outcome' = [e \in Dirs |-> outcome'[e]]
        /\ outcome'[dir] = r
        /\ \A e \in Dirs \ {dir} : outcome'[e] = outcome[e]
    BY <1>1, <2>1, OutcomeOfOther
  <2>3. \A d \in left : outcome'[d] = "none"
    BY <1>1, <2>2 DEF SessionInv, Working
  <2>4. ASSUME NEW n \in Ids, view'[n] # db'[n]
        PROVE  \E d \in Dirs : case[n] = CaseOf(d) /\ outcome'[d] = "failed"
    <3>1. CASE n = net
      BY <1>1, <1>5, <1>7, <2>2, <2>4, <3>1
    <3>2. CASE n # net
      <4>1. view'[n] = view[n] /\ db'[n] = db[n]
        BY <2>4, <3>2 DEF NetStep
      <4>2. PICK d \in Dirs : case[n] = CaseOf(d) /\ outcome[d] = "failed"
        BY <2>4, <4>1 DEF SessionInv, Failed
      <4> QED BY <1>3, <2>2, <3>2, <4>2
    <3> QED BY <3>1, <3>2
  <2>5. \A n \in Ids : view'[n] # db'[n] => pc' # "off" /\ Failed(n)'
    BY <1>1, <1>2, <2>1, <2>4 DEF Failed
  <2> QED BY <1>1, <2>1, <2>2, <2>3, <2>5 DEF SessionInv, NetStep, Working, Places
<1> QED BY <1>4, <1>6, <1>7 DEF NetStep

LEMMA SessionInit == Init => SessionInv
<1> SUFFICES ASSUME Init PROVE SessionInv OBVIOUS
<1>1. db = [n \in Ids |-> db[n]] /\ view = db /\ outcome = [d \in Dirs |-> outcome[d]]
  BY DEF Init
<1>2. pc = "off" /\ pc \in Places /\ pc \notin Working
  BY DEF Init, Places, Working
<1> QED BY <1>1, <1>2 DEF SessionInv

LEMMA LoadKeeps ==
  ASSUME CasesInv, SessionInv, LoadMetadata
  PROVE  SessionInv' /\ OnlyUnfinished
<1>1. PICK d \in left :
        /\ left' = left \ {d}
        /\ dir' = d
        /\ \/ pc' = "network" /\ outcome' = outcome
           \/ pc' = "next" /\ \E r : outcome' = [outcome EXCEPT ![d] = r]
  BY DEF LoadMetadata
<1>2. pc = "next" /\ UNCHANGED <<files, case, db, view, net>> /\ d \in Dirs /\ left \subseteq Dirs
  BY DEF LoadMetadata, Untouched, networks, CasesInv
<1>3. \A e \in left : outcome[e] = "none"
  BY <1>2 DEF SessionInv
<1>4. OnlyUnfinished
  BY <1>2 DEF OnlyUnfinished
<1>5. \A e \in Dirs \ {d} : outcome'[e] = outcome[e]
  BY <1>1, <1>2, OutcomeOfOther
<1>6. outcome' = [e \in Dirs |-> outcome'[e]]
  BY <1>1, <1>2, OutcomeOfOther DEF SessionInv
<1>7. \A e \in left' : outcome'[e] = "none"
  BY <1>1, <1>2, <1>3, <1>5
<1>8. ASSUME NEW n \in Ids, view'[n] # db'[n] PROVE Failed(n)'
  <2>1. PICK e \in Dirs : case[n] = CaseOf(e) /\ outcome[e] = "failed"
    BY <1>2, <1>8 DEF SessionInv, Failed
  <2>2. e # d
    BY <1>3, <2>1
  <2> QED BY <1>2, <1>5, <2>1, <2>2 DEF Failed, CaseOf
<1>9. pc' \in {"network", "next"} /\ pc' \in Places /\ pc' # "off"
  BY <1>1 DEF Places
<1>10. pc' = "network" => dir' \in Dirs \ left' /\ outcome'[dir'] = "none"
  BY <1>1, <1>2, <1>3
<1> QED
  BY <1>1, <1>2, <1>4, <1>6, <1>7, <1>8, <1>9, <1>10 DEF SessionInv, Working

(* A step that changes neither rows nor case_names, and ends a directory.  *)
LEMMA EndKeeps ==
  ASSUME CasesInv, SessionInv, NEW r, Ends(r), pc = "network",
         UNCHANGED <<files, case, db, view>>
  PROVE  SessionInv' /\ OnlyUnfinished
<1>1. /\ outcome' = [outcome EXCEPT ![dir] = r] /\ pc' = "next" /\ dir' = dir /\ left' = left
      /\ dir \in Dirs \ left /\ outcome[dir] = "none"
  BY DEF Ends, SessionInv, Working, Places, place
<1>2. /\ outcome' = [e \in Dirs |-> outcome'[e]]
      /\ \A e \in Dirs \ {dir} : outcome'[e] = outcome[e]
  BY <1>1, OutcomeOfOther
<1>3. \A d \in left : outcome'[d] = "none"
  BY <1>1, <1>2 DEF SessionInv, CasesInv
<1>4. ASSUME NEW n \in Ids, view'[n] # db'[n] PROVE Failed(n)'
  <2>1. PICK d \in Dirs : case[n] = CaseOf(d) /\ outcome[d] = "failed"
    BY <1>4 DEF SessionInv, Failed
  <2>2. d # dir
    BY <1>1, <2>1
  <2> QED BY <1>2, <2>1, <2>2 DEF Failed, CaseOf
<1> QED BY <1>1, <1>2, <1>3, <1>4 DEF SessionInv, Working, Places, OnlyUnfinished

LEMMA CreateKeeps ==
  ASSUME CasesInv, SessionInv, CreateNetwork
  PROVE  SessionInv' /\ OnlyUnfinished
<1> DEFINE new == created + 1
<1>1. new \in Ids
  BY BoundsAssumption DEF CasesInv, CreateNetwork, Ids
<1>2. /\ pc = "network" /\ pc' = "buses" /\ net' = new /\ dir' = dir /\ left' = left
      /\ outcome' = outcome /\ db' = view /\ view' = view /\ files' = files
      /\ case' = [case EXCEPT ![new] = CaseOf(dir)]
  BY DEF CreateNetwork
<1>3. dir \in Dirs \ left /\ outcome[dir] = "none" /\ pc \in Working
  BY <1>2 DEF SessionInv, Working, Places
<1>4. OnlyUnfinished
  BY <1>2 DEF SessionInv, Failed, OnlyUnfinished
<1>5. case'[net'] = CaseOf(dir)'
  BY <1>1, <1>2 DEF CasesInv, CaseOf
<1>6. pc' \in Places /\ pc # "off" /\ pc' # "off"
  BY <1>2 DEF Places
<1>7. \A n \in Ids : view'[n] = db'[n]
  BY <1>2
<1>8. view' = [n \in Ids |-> view'[n]] /\ db' = [n \in Ids |-> db'[n]]
  BY <1>2 DEF SessionInv
<1>9. outcome' = [d \in Dirs |-> outcome'[d]] /\ \A d \in left' : outcome'[d] = "none"
  BY <1>2, <1>6 DEF SessionInv
<1> QED BY <1>1, <1>2, <1>3, <1>4, <1>5, <1>6, <1>7, <1>8, <1>9 DEF SessionInv

LEMMA FindKeeps ==
  ASSUME CasesInv, SessionInv, FindNetwork
  PROVE  SessionInv' /\ OnlyUnfinished
<1>1. pc = "network" /\ UNCHANGED <<files, case, db, view>>
  BY DEF FindNetwork, Untouched, networks
<1>2. \/ \E r : Ends(r)
      \/ pc' = "buses" /\ net' \in Existing /\ UNCHANGED <<outcome, dir, left>>
  BY DEF FindNetwork
<1>3. ASSUME NEW r, Ends(r) PROVE SessionInv' /\ OnlyUnfinished
  BY <1>1, <1>3, EndKeeps
<1>4. CASE pc' = "buses" /\ net' \in Existing /\ UNCHANGED <<outcome, dir, left>>
  <2>1. net' \in Ids /\ case[net'] = CaseOf(dir)
    BY <1>4 DEF Existing
  <2> QED BY <1>1, <1>4, <2>1 DEF SessionInv, Working, Places, Failed, CaseOf, OnlyUnfinished
<1> QED BY <1>2, <1>3, <1>4

LEMMA UpdateKeeps ==
  ASSUME CasesInv, SessionInv, UpdateNetwork
  PROVE  SessionInv' /\ OnlyUnfinished
<1>1. PICK n \in Ids, d \in Cases : case[n] # NoCase /\ case' = [case EXCEPT ![n] = CaseAfter(case[n], d)]
  BY DEF UpdateNetwork
<1>2. CaseAfter(case[n], d) = case[n]
  BY <1>1 DEF CaseAfter
<1>3. case' = case
  BY <1>1, <1>2 DEF CasesInv
<1> QED BY <1>3 DEF UpdateNetwork, SessionInv, Failed, CaseOf, OnlyUnfinished

LEMMA SessionStep ==
  ASSUME CasesInv, SessionInv, [Next]_vars
  PROVE  SessionInv' /\ OnlyUnfinished
<1>1. CASE Start
  <2>1. pc' = "next" /\ pc' \in Places /\ pc' \notin Working
    BY <1>1 DEF Start, Places, Working
  <2> QED BY <1>1, <2>1 DEF Start, SessionInv, OnlyUnfinished
<1>2. CASE LoadMetadata
  BY <1>2, LoadKeeps
<1>3. CASE Stop
  <2>1. pc' = "off" /\ pc' \in Places /\ pc' \notin Working
    BY <1>3 DEF Stop, Gone, Places, Working
  <2> QED BY <1>3, <2>1 DEF Stop, Gone, SessionInv, OnlyUnfinished
<1>4. CASE SessionBroken
  BY <1>4, EndKeeps DEF SessionBroken, Untouched, networks
<1>5. CASE FindNetwork
  BY <1>5, FindKeeps
<1>6. CASE CreateNetwork
  BY <1>6, CreateKeeps
<1>7. CASE ImportSubsystems
  <2>1. Kinds \subseteq Working /\ "geodata" \in Working /\ "network" \notin Kinds
    BY DEF Working, Places, Kinds
  <2>2. NetStep
    BY <1>7, <2>1, InsertBusesIsNetStep, InsertLinesIsNetStep DEF ImportSubsystems, Kinds
  <2> QED BY <2>2, NetStepKeeps
<1>8. CASE DrawLines
  BY <1>8, DrawLinesIsNetStep, NetStepKeeps
<1>9. CASE ImportRequests
  BY <1>9, ImportRequestsIsNetStep, NetStepKeeps
<1>10. CASE Crash
  <2>1. pc' = "off" /\ pc' \in Places /\ pc' \notin Working
    BY <1>10 DEF Crash, Gone, Places, Working
  <2> QED BY <1>10, <2>1 DEF Crash, Gone, SessionInv, OnlyUnfinished
<1>11. CASE Modify
  <2>1. pc' = "off" /\ pc' \in Places /\ pc' \notin Working /\ pc = "off"
    BY <1>11 DEF Modify, Places, Working
  <2> QED BY <1>11, <2>1 DEF Modify, SessionInv, OnlyUnfinished
<1>12. CASE UpdateNetwork
  BY <1>12, UpdateKeeps
<1>13. CASE UNCHANGED vars
  BY <1>13 DEF vars, networks, place, SessionInv, Failed, CaseOf, OnlyUnfinished
<1> QED BY <1>1, <1>2, <1>3, <1>4, <1>5, <1>6, <1>7, <1>8, <1>9, <1>10, <1>11, <1>12, <1>13 DEF Next

(* However the directories fail, a commit of one of them leaves the others *)
(* as they are, unless they have failed before it in the same start.       *)
THEOREM OnlyUnfinishedChangeAlways == Spec => OnlyUnfinishedChange
<1>1. CasesInv /\ SessionInv /\ [Next]_vars => [OnlyUnfinished]_vars
  BY SessionStep
<1>2. CasesInv /\ SessionInv /\ [Next]_vars => SessionInv'
  BY SessionStep
<1>3. Spec => [][OnlyUnfinished]_vars
  BY <1>1, <1>2, CasesInit, CasesStep, SessionInit, PTL DEF Spec
<1> QED BY <1>3 DEF OnlyUnfinishedChange
=============================================================================

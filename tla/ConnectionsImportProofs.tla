---------------------- MODULE ConnectionsImportProofs ----------------------
(***************************************************************************)
(* Proofs about ConnectionsImport.  An importer that was alone from its    *)
(* beginning finds the tables as it left them (AloneInv); what it will     *)
(* delete never has the default scenario it has read in it (DefaultInv).   *)
(***************************************************************************)
EXTENDS ConnectionsImport, TLAPS

(* The shape of the sessions, as far as a proof needs it to read a field.  *)
Fields ==
  {"pc", "payload", "number", "default", "snap", "dropped", "added", "flushed", "ix", "ref",
   "links", "known", "stale", "before", "alone", "made"}
IsSession(s) ==
  /\ s = [f \in Fields |-> s[f]]
  /\ s.alone \in BOOLEAN
  /\ s.made \in BOOLEAN
Shape ==
  /\ session = [i \in Importers |-> session[i]]
  /\ \A i \in Importers : IsSession(session[i])
  /\ refs \in [Refs -> Nat]

LEMMA IdleIsSession == IsSession(Idle)
BY DEF Idle, IsSession, Fields

(* Two imports that are open are not alone; one that is alone and has      *)
(* added no reference row finds the rows of its beginning.                 *)
NotAlone ==
  \A i, j \in Importers : i # j /\ Open(i) /\ Open(j) => ~session[i].alone
Unchanged ==
  \A i \in Importers :
    Open(i) /\ session[i].alone /\ ~session[i].made => rows = session[i].before
AloneInv == Shape /\ NotAlone /\ Unchanged

(* A reference row that is missing to somebody is missing, unless two have *)
(* missed it.                                                              *)
RaceInv ==
  \A r \in Refs :
    /\ MissedTwice(r) => r \in raced
    /\ Missed(r) /\ r \notin raced => refs[r] = 0

(* A step of somebody else's get_or_create.                                *)
Elsewhere == \E r \in Shared : OtherSelects(r) \/ OtherCreates(r)

(* No scenario an import deletes, or is about to, is the default it has    *)
(* read.                                                                   *)
DefaultInv ==
  /\ Shape
  /\ \A i \in Importers : \A r \in session[i].dropped \cup session[i].snap :
       r.kind = "request" \/ r # session[i].default

-----------------------------------------------------------------------------
(* The steps of an importer, by what they do to its session and the        *)
(* tables.                                                                 *)

(* What a step of an importer that is not a commit does: it leaves the     *)
(* tables as they are, and its session keeps what it began with.           *)
SameBeginning(s, t) ==
  /\ t.payload = s.payload
  /\ t.default = s.default
  /\ t.before = s.before
  /\ t.alone = s.alone
Turns(i, s) ==
  /\ Open(i)
  /\ Becomes(i, s)
  /\ IsSession(s)
  /\ SameBeginning(session[i], s)

LEMMA BecomesShape ==
  ASSUME Shape, NEW i \in Importers, NEW s, IsSession(s), Becomes(i, s)
  PROVE  /\ session' = [j \in Importers |-> session'[j]]
         /\ session'[i] = s
         /\ \A j \in Importers \ {i} : session'[j] = session[j]
         /\ \A j \in Importers : IsSession(session'[j])
BY DEF Shape, Becomes

LEMMA FlushedSession ==
  ASSUME Shape, NEW i \in Importers
  PROVE  /\ IsSession(Flushed(i))
         /\ \A f \in Fields \ {"flushed", "added", "stale"} : Flushed(i)[f] = session[i][f]
BY DEF Shape, Flushed, IsSession, Fields

LEMMA CommittedSession ==
  ASSUME NEW i \in Importers, NEW s, IsSession(s)
  PROVE  /\ IsSession(Committed(i, s))
         /\ Committed(i, s).dropped = {}
         /\ \A f \in Fields \ {"flushed", "dropped", "stale"} : Committed(i, s)[f] = s[f]
BY DEF Committed, IsSession, Fields

LEMMA DroppedSession ==
  ASSUME Shape, NEW i \in Importers
  PROVE  /\ IsSession(Dropped(i))
         /\ Dropped(i).snap = {}
         /\ Dropped(i).dropped = session[i].dropped \cup (session[i].snap \cap rows)
         /\ \A f \in Fields \ {"dropped", "snap"} : Dropped(i)[f] = session[i][f]
BY DEF Shape, Dropped, IsSession, Fields

(* A step that asks for no new reference row: what the import is about to  *)
(* delete grows by requests and by scenarios that are not the default.     *)
Quiet(i, s) ==
  /\ Turns(i, s)
  /\ UNCHANGED tables
  /\ s.made = session[i].made
  /\ s.pc \notin {"createRef", "createAuthor"}
  /\ \A r \in s.dropped \cup s.snap :
       \/ r \in session[i].dropped \cup session[i].snap
       \/ r.kind = "request"
       \/ r # session[i].default

LEMMA PurgeScenariosQuiet ==
  ASSUME Shape, NEW i \in Importers, PurgeScenarios(i) PROVE \E s : Quiet(i, s)
<1> DEFINE s == [session[i] EXCEPT !.pc = "dropScenarios", !.snap = Scenarios(rows) \ {session[i].default}]
<1>1. /\ IsSession(s)
      /\ SameBeginning(session[i], s)
      /\ s.made = session[i].made
      /\ s.pc \notin {"createRef", "createAuthor"}
      /\ s.dropped = session[i].dropped
      /\ s.snap = Scenarios(rows) \ {session[i].default}
  BY DEF SameBeginning, Shape, IsSession, Fields
<1>2. Becomes(i, s) /\ Local /\ Open(i)
  BY DEF PurgeScenarios, Open
<1> QED BY <1>1, <1>2 DEF Quiet, Turns, Local, tables

LEMMA PurgeRequestsQuiet ==
  ASSUME Shape, NEW i \in Importers, PurgeRequests(i) PROVE \E s : Quiet(i, s)
<1> DEFINE s == [Dropped(i) EXCEPT !.pc = "dropRequests", !.snap = Requests(rows)]
<1>1. /\ IsSession(s)
      /\ s.snap = Requests(rows)
      /\ \A r \in s.dropped : r \in session[i].dropped \cup session[i].snap
      /\ SameBeginning(session[i], s)
      /\ s.made = session[i].made
      /\ s.pc = "dropRequests"
  BY DroppedSession DEF SameBeginning, IsSession, Fields
<1>2. Becomes(i, s) /\ Local /\ Open(i)
  BY DEF PurgeRequests, Open
<1> QED BY <1>1, <1>2 DEF Quiet, Turns, Requests, Local, tables

LEMMA PurgedQuiet ==
  ASSUME Shape, NEW i \in Importers, Purged(i) PROVE \E s : Quiet(i, s)
<1> DEFINE s == [Dropped(i) EXCEPT !.pc = "request"]
<1>1. /\ IsSession(s)
      /\ s.snap = {}
      /\ \A r \in s.dropped : r \in session[i].dropped \cup session[i].snap
      /\ SameBeginning(session[i], s)
      /\ s.made = session[i].made
      /\ s.pc = "request"
  BY DroppedSession DEF SameBeginning, IsSession, Fields
<1>2. Becomes(i, s) /\ Local /\ Open(i)
  BY DEF Purged, Open
<1> QED BY <1>1, <1>2 DEF Quiet, Turns, Local, tables

LEMMA LocateQuiet ==
  ASSUME Shape, NEW i \in Importers, Locate(i) PROVE \E s : Quiet(i, s)
<1> DEFINE s == [session[i] EXCEPT !.ix = @ + 1]
           t == [session[i] EXCEPT !.pc = "refs", !.ref = 1]
<1>1. (Becomes(i, s) \/ Becomes(i, t)) /\ Local /\ Open(i) /\ session[i].pc = "request"
  BY DEF Locate, Open
<1>2. ASSUME NEW q \in {s, t}
      PROVE  /\ IsSession(q) /\ SameBeginning(session[i], q)
             /\ q.made = session[i].made /\ q.dropped = session[i].dropped
             /\ q.snap = session[i].snap
  BY <1>2 DEF Shape, IsSession, Fields, SameBeginning
<1>3. s.pc = session[i].pc /\ t.pc = "refs"
  BY DEF Shape, IsSession, Fields
<1> QED BY <1>1, <1>2, <1>3 DEF Quiet, Turns, Local, tables

LEMMA RefKnownQuiet ==
  ASSUME Shape, NEW i \in Importers, RefKnown(i) PROVE \E s : Quiet(i, s)
BY DEF RefKnown, AsksForRef, Local, tables, Quiet, Turns, Open, SameBeginning, Shape, IsSession, Fields

LEMMA AddRequestQuiet ==
  ASSUME Shape, NEW i \in Importers, AddRequest(i) PROVE \E s : Quiet(i, s)
<1>0. PICK a : Becomes(i, [session[i] EXCEPT !.pc = "request", !.ix = @ + 1, !.added = @ \cup {a}])
  BY DEF AddRequest
<1> DEFINE s == [session[i] EXCEPT !.pc = "request", !.ix = @ + 1, !.added = @ \cup {a}]
<1>1. /\ IsSession(s)
      /\ SameBeginning(session[i], s)
      /\ s.made = session[i].made
      /\ s.pc \notin {"createRef", "createAuthor"}
      /\ s.dropped = session[i].dropped /\ s.snap = session[i].snap
  BY DEF SameBeginning, Shape, IsSession, Fields
<1>2. Becomes(i, s) /\ Local /\ Open(i)
  BY <1>0 DEF AddRequest, Open
<1> QED BY <1>1, <1>2 DEF Quiet, Turns, Local, tables

LEMMA FlushRequestsQuiet ==
  ASSUME Shape, NEW i \in Importers, FlushRequests(i) PROVE \E s : Quiet(i, s)
<1> DEFINE s == [Flushed(i) EXCEPT !.pc = "scenario", !.ix = 1]
<1>1. /\ IsSession(s)
      /\ SameBeginning(session[i], s)
      /\ s.made = session[i].made
      /\ s.pc \notin {"createRef", "createAuthor"}
      /\ s.dropped = session[i].dropped /\ s.snap = session[i].snap
  BY FlushedSession DEF SameBeginning, IsSession, Fields
<1>2. Becomes(i, s) /\ Local /\ Open(i)
  BY DEF FlushRequests, Open
<1> QED BY <1>1, <1>2 DEF Quiet, Turns, Local, tables

LEMMA LinkQuiet ==
  ASSUME Shape, NEW i \in Importers, Link(i) PROVE \E s : Quiet(i, s)
<1> DEFINE found == {r \in Requests(Flushed(i).flushed \cup (rows \ session[i].dropped)) \cup Abroad :
                       r.key[1] \in Scenario(i).names}
           next == IF NetUnreadable(i) THEN "failed" ELSE "author"
           s == [Flushed(i) EXCEPT !.links = found, !.ref = 1, !.pc = next]
<1>1. Becomes(i, s) /\ Local /\ Open(i) /\ next \in {"failed", "author"}
  BY DEF Link, Open
<1> HIDE DEF found, next
<1>2. /\ IsSession(s)
      /\ SameBeginning(session[i], s)
      /\ s.made = session[i].made
      /\ s.pc = next
      /\ s.dropped = session[i].dropped /\ s.snap = session[i].snap
  BY FlushedSession DEF SameBeginning, IsSession, Fields
<1> QED BY <1>1, <1>2 DEF Quiet, Turns, Local, tables

LEMMA AddScenarioQuiet ==
  ASSUME Shape, NEW i \in Importers, AddScenario(i) PROVE \E s : Quiet(i, s)
<1>0. PICK a : Becomes(i, [session[i] EXCEPT !.pc = "scenario", !.ix = @ + 1, !.links = {},
                             !.added = @ \cup {a}])
  BY DEF AddScenario
<1> DEFINE s == [session[i] EXCEPT !.pc = "scenario", !.ix = @ + 1, !.links = {},
                   !.added = @ \cup {a}]
<1>1. /\ IsSession(s)
      /\ SameBeginning(session[i], s)
      /\ s.made = session[i].made
      /\ s.pc \notin {"createRef", "createAuthor"}
      /\ s.dropped = session[i].dropped /\ s.snap = session[i].snap
  BY DEF SameBeginning, Shape, IsSession, Fields
<1>2. Becomes(i, s) /\ Local /\ Open(i)
  BY <1>0 DEF AddScenario, Open
<1> QED BY <1>1, <1>2 DEF Quiet, Turns, Local, tables

(* Becoming "failed" is quiet, whatever the reason.                        *)
LEMMA FailedQuiet ==
  ASSUME Shape, NEW i \in Importers, Open(i), UNCHANGED tables,
         Becomes(i, [session[i] EXCEPT !.pc = "failed"])
  PROVE  \E s : Quiet(i, s)
<1> DEFINE s == [session[i] EXCEPT !.pc = "failed"]
<1>1. /\ IsSession(s)
      /\ SameBeginning(session[i], s)
      /\ s.made = session[i].made
      /\ s.pc \notin {"createRef", "createAuthor"}
      /\ s.dropped = session[i].dropped /\ s.snap = session[i].snap
  BY DEF SameBeginning, Shape, IsSession, Fields
<1> QED BY <1>1 DEF Quiet, Turns

LEMMA LocateRaisesQuiet ==
  ASSUME Shape, NEW i \in Importers, LocateRaises(i) PROVE \E s : Quiet(i, s)
BY FailedQuiet DEF LocateRaises, Fail, Open, Local, tables

LEMMA AddRaisesQuiet ==
  ASSUME Shape, NEW i \in Importers, AddRaises(i) PROVE \E s : Quiet(i, s)
BY FailedQuiet DEF AddRaises, Fail, Open, Local, tables

LEMMA FlushRaisesQuiet ==
  ASSUME Shape, NEW i \in Importers, FlushRaises(i) PROVE \E s : Quiet(i, s)
BY FailedQuiet DEF FlushRaises, AsksForRef, Fail, Open, Local, tables

LEMMA CrashQuiet ==
  ASSUME Shape, NEW i \in Importers, Crash(i) PROVE \E s : Quiet(i, s)
BY FailedQuiet DEF Crash, tables

(* A step that has not found a reference row, and will add it next.        *)
Misses(i, s) ==
  /\ Turns(i, s)
  /\ UNCHANGED tables
  /\ s.made = session[i].made
  /\ s.dropped = session[i].dropped /\ s.snap = session[i].snap
  /\ refs[NextRef(i)] = 0
  /\ NextRef(i)' = NextRef(i)

LEMMA RefSelectSteps ==
  ASSUME Shape, NEW i \in Importers, RefSelect(i)
  PROVE  \E s : Quiet(i, s) \/ Misses(i, s)
<1>1. Open(i) /\ UNCHANGED tables /\ session[i].pc \in {"refs", "author"}
  BY DEF RefSelect, AsksForRef, Open, Local, tables
<1>2. CASE Becomes(i, [session[i] EXCEPT !.pc = "failed"])
  BY <1>1, <1>2, FailedQuiet
<1>3. CASE Becomes(i, [Flushed(i) EXCEPT !.known = @ \cup {NextRef(i)}, !.ref = @ + 1])
  <2> DEFINE s == [Flushed(i) EXCEPT !.known = @ \cup {NextRef(i)}, !.ref = @ + 1]
  <2>1. /\ IsSession(s)
        /\ SameBeginning(session[i], s)
        /\ s.made = session[i].made
        /\ s.pc = session[i].pc
        /\ s.dropped = session[i].dropped /\ s.snap = session[i].snap
    BY FlushedSession DEF SameBeginning, IsSession, Fields
  <2> QED BY <1>1, <1>3, <2>1 DEF Quiet, Turns
<1>4. CASE /\ refs[NextRef(i)] = 0
           /\ Becomes(i, [Flushed(i) EXCEPT !.pc = IF @ = "refs" THEN "createRef" ELSE "createAuthor"])
  <2> DEFINE s == [Flushed(i) EXCEPT !.pc = IF @ = "refs" THEN "createRef" ELSE "createAuthor"]
  <2>1. /\ IsSession(s)
        /\ SameBeginning(session[i], s)
        /\ s.made = session[i].made
        /\ s.ix = session[i].ix /\ s.ref = session[i].ref
        /\ s.pc = IF session[i].pc = "refs" THEN "createRef" ELSE "createAuthor"
        /\ s.dropped = session[i].dropped /\ s.snap = session[i].snap
    BY FlushedSession DEF SameBeginning, IsSession, Fields
  <2>2. session'[i] = s
    BY <1>4, <2>1, BecomesShape
  <2> HIDE DEF s
  <2>3. NextRef(i)' = NextRef(i)
    BY <1>1, <2>1, <2>2 DEF NextRef, RefsOf, Scenario, Item, SameBeginning
  <2> QED BY <1>1, <1>4, <2>1, <2>3 DEF Misses, Turns, s
<1> QED BY <1>2, <1>3, <1>4 DEF RefSelect

(* A step that commits what the session has changed, and the reference row *)
(* it has missed, if it is that.                                           *)
Commits(i, s) ==
  /\ Turns(i, s)
  /\ \E new : rows' = (rows \ session[i].dropped) \cup new
  /\ s.dropped = {} /\ s.snap = session[i].snap
  /\ s.pc \notin {"createRef", "createAuthor", "failed"}
  /\ \/ s.pc = "done" /\ refs' = refs
     \/ /\ session[i].pc \in {"createRef", "createAuthor"}
        /\ s.made
        /\ refs' = [refs EXCEPT ![NextRef(i)] = @ + 1]

LEMMA RefCreateCommits ==
  ASSUME Shape, NEW i \in Importers, RefCreate(i) PROVE \E s : Commits(i, s)
<1> DEFINE c == Committed(i, session[i])
           s == [c EXCEPT !.pc = IF @ = "createRef" THEN "refs" ELSE "author",
                          !.known = @ \cup {NextRef(i)}, !.ref = @ + 1, !.made = TRUE]
<1>1. IsSession(c) /\ SameBeginning(session[i], c) /\ c.dropped = {} /\ c.snap = session[i].snap
  BY CommittedSession DEF Shape, SameBeginning, Fields
<1> HIDE DEF c
<1>2. /\ IsSession(s)
      /\ SameBeginning(session[i], s)
      /\ s.made
      /\ s.pc \in {"refs", "author"}
      /\ s.dropped = {} /\ s.snap = session[i].snap
  BY <1>1 DEF SameBeginning, IsSession, Fields
<1>3. /\ Becomes(i, s) /\ Open(i)
      /\ session[i].pc \in {"createRef", "createAuthor"}
      /\ rows' = (rows \ session[i].dropped) \cup session[i].flushed
      /\ refs' = [refs EXCEPT ![NextRef(i)] = @ + 1]
  BY DEF RefCreate, Open, CommitTables, c
<1> QED BY <1>2, <1>3 DEF Commits, Turns

LEMMA FinishCommits ==
  ASSUME Shape, NEW i \in Importers, Finish(i) PROVE \E s : Commits(i, s)
<1> DEFINE c == Committed(i, Flushed(i))
           s == [c EXCEPT !.pc = "done"]
<1>1. IsSession(c) /\ SameBeginning(session[i], c) /\ c.dropped = {} /\ c.snap = session[i].snap
  BY CommittedSession, FlushedSession DEF SameBeginning, Fields
<1> HIDE DEF c
<1>2. /\ IsSession(s)
      /\ SameBeginning(session[i], s)
      /\ s.pc = "done"
      /\ s.dropped = {} /\ s.snap = session[i].snap
  BY <1>1 DEF SameBeginning, IsSession, Fields
<1>3. Becomes(i, s) /\ Open(i) /\ refs' = refs
  BY DEF Finish, Open, c
<1>4. rows' = (rows \ session[i].dropped) \cup Flushed(i).flushed
  BY FlushedSession DEF Finish, CommitTables, Fields
<1> QED BY <1>2, <1>3, <1>4 DEF Commits, Turns

(* The three kinds are all there are. *)
LEMMA Kinds ==
  ASSUME Shape, NEW i \in Importers, Step(i) \/ Crash(i)
  PROVE  \E s : Quiet(i, s) \/ Misses(i, s) \/ Commits(i, s)
BY PurgeScenariosQuiet, PurgeRequestsQuiet, PurgedQuiet, LocateQuiet, LocateRaisesQuiet, AddRaisesQuiet,
   RefKnownQuiet, RefSelectSteps, RefCreateCommits, AddRequestQuiet, FlushRequestsQuiet,
   LinkQuiet, AddScenarioQuiet, FinishCommits, FlushRaisesQuiet, CrashQuiet
   DEF Step

-----------------------------------------------------------------------------
LEMMA AloneInit == Init => AloneInv
<1> SUFFICES ASSUME Init PROVE AloneInv OBVIOUS
<1>1. \A i \in Importers : session[i] = Idle
  BY DEF Init
<1>2. Idle.pc = "idle"
  BY DEF Idle
<1>3. Shape
  BY <1>1, IdleIsSession, OldRefsAssumption DEF Init, Shape
<1>4. NotAlone /\ Unchanged
  BY <1>1, <1>2 DEF NotAlone, Unchanged, Open
<1> QED BY <1>3, <1>4 DEF AloneInv

(* What every step of an importer does for the rest.                       *)
LEMMA TurnShape ==
  ASSUME Shape, NEW i \in Importers, NEW s, Turns(i, s), refs' \in [Refs -> Nat]
  PROVE  /\ Shape'
         /\ session'[i] = s
         /\ \A j \in Importers \ {i} : session'[j] = session[j]
         /\ \A j \in Importers : Open(j)' => Open(j)
         /\ \A j \in Importers \ {i} : NextRef(j)' = NextRef(j)
<1>1. /\ session' = [j \in Importers |-> session'[j]]
      /\ session'[i] = s
      /\ \A j \in Importers \ {i} : session'[j] = session[j]
      /\ \A j \in Importers : IsSession(session'[j])
  BY BecomesShape DEF Turns
<1>2. Shape'
  BY <1>1 DEF Shape
<1>3. \A j \in Importers : Open(j)' => Open(j)
  BY <1>1 DEF Open, Turns
<1>4. \A j \in Importers \ {i} : NextRef(j)' = NextRef(j)
  BY <1>1 DEF NextRef, RefsOf, Scenario, Item
<1> QED BY <1>1, <1>2, <1>3, <1>4

LEMMA AloneTurn ==
  ASSUME AloneInv, NEW i \in Importers, NEW s, Turns(i, s), refs' \in [Refs -> Nat]
  PROVE  NotAlone'
<1>1. /\ \A j \in Importers : Open(j)' => Open(j)
      /\ \A j \in Importers : session'[j].alone = session[j].alone
  BY TurnShape DEF AloneInv, Turns, SameBeginning
<1> QED BY <1>1 DEF AloneInv, NotAlone

LEMMA AloneQuiet ==
  ASSUME AloneInv, NEW i \in Importers, NEW s, Quiet(i, s) \/ Misses(i, s)
  PROVE  AloneInv'
<1>1. Turns(i, s) /\ rows' = rows /\ refs' = refs /\ refs' \in [Refs -> Nat]
  BY DEF Quiet, Misses, tables, AloneInv, Shape
<1>2. /\ Shape' /\ NotAlone'
      /\ session'[i] = s
      /\ \A j \in Importers \ {i} : session'[j] = session[j]
      /\ \A j \in Importers : Open(j)' => Open(j)
      /\ \A j \in Importers \ {i} : NextRef(j)' = NextRef(j)
  BY <1>1, TurnShape, AloneTurn DEF AloneInv
<1>3. s.made = session[i].made /\ s.before = session[i].before /\ s.alone = session[i].alone
  BY <1>1 DEF Quiet, Misses, Turns, SameBeginning
<1>4. Unchanged'
  BY <1>1, <1>2, <1>3 DEF AloneInv, Unchanged
<1> QED BY <1>2, <1>4 DEF AloneInv

LEMMA CommitsRefs ==
  ASSUME Shape, NEW i \in Importers, NEW s, Commits(i, s)
  PROVE  /\ refs' \in [Refs -> Nat]
         /\ \A r \in Refs \ {NextRef(i)} : refs'[r] = refs[r]
         /\ \/ refs' = refs
            \/ session[i].pc \in {"createRef", "createAuthor"}
BY DEF Commits, Shape

(* A commit disturbs the others, who are not alone, and its own import,    *)
(* which is over or has added a reference row.                             *)
LEMMA AloneCommits ==
  ASSUME AloneInv, NEW i \in Importers, NEW s, Commits(i, s)
  PROVE  AloneInv'
<1>1. Turns(i, s) /\ refs' \in [Refs -> Nat]
  BY CommitsRefs DEF Commits, AloneInv
<1>2. /\ Shape' /\ NotAlone'
      /\ session'[i] = s
      /\ \A j \in Importers \ {i} : session'[j] = session[j]
      /\ \A j \in Importers : Open(j)' => Open(j)
  BY <1>1, TurnShape, AloneTurn DEF AloneInv
<1>3. \A j \in Importers \ {i} : Open(j) => ~session[j].alone
  BY <1>1 DEF AloneInv, NotAlone, Turns
<1>4. s.pc \notin {"createRef", "createAuthor"} /\ (s.made \/ s.pc = "done")
  BY DEF Commits
<1>5. Unchanged'
  BY <1>2, <1>3, <1>4 DEF Unchanged, Open
<1> QED BY <1>2, <1>5 DEF AloneInv

(* A beginning ends the solitude of the imports that are open.             *)
LEMMA BeginSessions ==
  ASSUME Shape, NEW i \in Importers, Begin(i)
  PROVE  /\ Shape'
         /\ ~Open(i)
         /\ session'[i].pc = "purge" /\ session'[i].default = default
         /\ session'[i].before = rows /\ session'[i].made = FALSE
         /\ session'[i].alone = ({j \in Importers \ {i} : Open(j)} = {})
         /\ session'[i].dropped = {} /\ session'[i].snap = {}
         /\ \A j \in Importers \ {i} :
              /\ session'[j].alone = (session[j].alone /\ ~Open(j))
              /\ \A f \in Fields \ {"alone"} : session'[j][f] = session[j][f]
<1> DEFINE others == {j \in Importers \ {i} : Open(j)}
           b(p) == [Idle EXCEPT !.pc = "purge", !.payload = p,
                          !.number = imports + 1, !.default = default,
                          !.before = rows, !.alone = (others = {})]
           o(j) == [session[j] EXCEPT !.alone = @ /\ ~Open(j)]
<1>1. PICK p : session' = [j \in Importers |-> IF j = i THEN b(p) ELSE o(j)]
  BY DEF Begin
<1>2. /\ IsSession(b(p))
      /\ b(p).pc = "purge" /\ b(p).default = default
      /\ b(p).before = rows /\ b(p).made = FALSE
      /\ b(p).alone = (others = {})
      /\ b(p).dropped = {} /\ b(p).snap = {}
  BY DEF Idle, IsSession, Fields
<1>3. ASSUME NEW j \in Importers
      PROVE  /\ IsSession(o(j))
             /\ o(j).alone = (session[j].alone /\ ~Open(j))
             /\ \A f \in Fields \ {"alone"} : o(j)[f] = session[j][f]
  BY DEF Shape, IsSession, Fields
<1> HIDE DEF b, o
<1>4. session'[i] = b(p) /\ \A j \in Importers \ {i} : session'[j] = o(j)
  BY <1>1
<1>5. Shape'
  <2>1. refs' = refs
    BY DEF Begin
  <2>2. session' = [j \in Importers |-> session'[j]]
    BY <1>1
  <2>3. \A j \in Importers : IsSession(session'[j])
    BY <1>2, <1>3, <1>4
  <2> QED BY <2>1, <2>2, <2>3 DEF Shape
<1>6. ~Open(i)
  BY DEF Begin
<1> QED BY <1>2, <1>3, <1>4, <1>5, <1>6

LEMMA AloneBegin ==
  ASSUME AloneInv, NEW i \in Importers, Begin(i)
  PROVE  AloneInv'
<1>1. rows' = rows /\ refs' = refs
  BY DEF Begin
<1>2. \A j \in Importers \ {i} : Open(j)' <=> Open(j)
  BY BeginSessions DEF AloneInv, Open, Fields
<1>3. NotAlone'
  BY <1>2, BeginSessions DEF AloneInv, NotAlone
<1>4. Unchanged'
  BY <1>1, <1>2, BeginSessions DEF AloneInv, Unchanged
<1> QED BY <1>3, <1>4, BeginSessions DEF AloneInv

LEMMA AloneSame ==
  ASSUME AloneInv, UNCHANGED <<rows, session>>, refs' \in [Refs -> Nat]
  PROVE  AloneInv'
BY DEF AloneInv, Shape, NotAlone, Unchanged, Open

(* Somebody else's get_or_create touches the reference rows alone.         *)
LEMMA ElsewhereSame ==
  ASSUME refs \in [Refs -> Nat], Elsewhere
  PROVE  UNCHANGED <<rows, default, imports, crashes, session>> /\ refs' \in [Refs -> Nat]
BY SharedAssumption DEF Elsewhere, OtherSelects, OtherCreates

LEMMA AloneNext == AloneInv /\ [Next]_vars => AloneInv'
<1> SUFFICES ASSUME AloneInv, [Next]_vars PROVE AloneInv' OBVIOUS
<1>1. CASE SetDefault
  BY <1>1, AloneSame DEF SetDefault, AloneInv, Shape
<1>2. ASSUME NEW i \in Importers, Begin(i) PROVE AloneInv'
  BY <1>2, AloneBegin
<1>3. ASSUME NEW i \in Importers, Step(i) \/ Crash(i) PROVE AloneInv'
  BY <1>3, Kinds, AloneQuiet, AloneCommits DEF AloneInv
<1>4. CASE UNCHANGED vars
  BY <1>4, AloneSame DEF vars, AloneInv, Shape
<1>5. CASE Elsewhere
  BY <1>5, AloneSame, ElsewhereSame DEF AloneInv, Shape
<1> QED BY <1>1, <1>2, <1>3, <1>4, <1>5 DEF Next, Elsewhere

LEMMA AloneAlways == Spec => []AloneInv
BY AloneInit, AloneNext, PTL DEF Spec

LEMMA KeepsOldStep == AloneInv /\ [Next]_vars => KeepsOld
<1> SUFFICES ASSUME AloneInv, [Next]_vars,
                    NEW i \in Importers, Ends(i, "failed"), session[i].alone, ~session[i].made
             PROVE  rows' = session[i].before
  BY DEF KeepsOld
<1>1. rows = session[i].before /\ session'[i] # session[i]
  BY DEF AloneInv, Unchanged, Ends, Open
<1>2. ASSUME NEW j \in Importers, NEW s, Quiet(j, s) \/ Misses(j, s) PROVE rows' = rows
  BY <1>2 DEF Quiet, Misses, tables
<1>3. ASSUME NEW j \in Importers, NEW s, Commits(j, s) PROVE FALSE
  <2>1. session'[j] = s /\ (j # i => session'[i] = session[i])
    BY <1>3, CommitsRefs, TurnShape DEF AloneInv, Commits
  <2> QED BY <1>1, <1>3, <2>1 DEF Commits, Ends
<1>4. ASSUME NEW j \in Importers, Step(j) \/ Crash(j) PROVE rows' = rows
  BY <1>2, <1>3, <1>4, Kinds DEF AloneInv
<1>5. ASSUME NEW j \in Importers, Begin(j) PROVE rows' = rows
  BY <1>5 DEF Begin
<1>6. CASE SetDefault \/ UNCHANGED vars \/ Elsewhere
  BY <1>1, <1>6, ElsewhereSame DEF SetDefault, vars, AloneInv, Shape
<1> QED BY <1>1, <1>4, <1>5, <1>6 DEF Next, Elsewhere

(* An import that was alone, and has added no reference row, leaves the    *)
(* rows of its beginning when it fails, at whatever statement, in any      *)
(* document and any network: FailureKeepsOld.                              *)
THEOREM FailureKeepsOldAlways == Spec => FailureKeepsOld
BY AloneAlways, KeepsOldStep, PTL DEF Spec, FailureKeepsOld

(* Only a Missing step leaves its import with a row to add, and it has     *)
(* seen that the row is not there.                                         *)
LEMMA RaceInit == Init => RaceInv
<1> SUFFICES ASSUME Init PROVE RaceInv OBVIOUS
<1>1. \A i \in Importers : session[i].pc = "idle"
  BY DEF Init, Idle
<1> QED BY <1>1 DEF Init, RaceInv, Missed, MissedTwice, HasMissed

(* A step that counts the races need only account for the rows that stay   *)
(* missed and are not raced for.                                           *)
LEMMA RaceStep ==
  ASSUME RaceInv, Races,
         \A r \in Refs : Missed(r)' /\ ~MissedTwice(r)' =>
           \/ Missed(r) /\ refs'[r] = refs[r]
           \/ refs'[r] = 0
           \/ MissedTwice(r)
  PROVE  RaceInv'
<1> SUFFICES ASSUME NEW r \in Refs
             PROVE  /\ MissedTwice(r)' => r \in raced'
                    /\ Missed(r)' /\ r \notin raced' => refs'[r] = 0
  BY DEF RaceInv
<1>1. MissedTwice(r)' => Missed(r)'
  BY DEF MissedTwice, Missed
<1>2. r \in raced' <=> Missed(r)' /\ (r \in raced \/ MissedTwice(r)')
  BY DEF Races
<1> QED BY <1>1, <1>2 DEF RaceInv

LEMMA RaceTurn ==
  ASSUME Shape, RaceInv, NEW i \in Importers, NEW s,
         Quiet(i, s) \/ Misses(i, s) \/ Commits(i, s)
  PROVE  RaceInv'
<1>1. Turns(i, s) /\ refs' \in [Refs -> Nat]
  BY CommitsRefs DEF Quiet, Misses, Commits, tables, Shape
<1>2. /\ session'[i] = s
      /\ \A j \in Importers \ {i} : session'[j] = session[j]
      /\ \A j \in Importers \ {i} : NextRef(j)' = NextRef(j)
  BY <1>1, TurnShape
<1>3. elsewhere' = elsewhere /\ Races
  BY <1>1 DEF Turns, Becomes
<1>4. \A r \in Refs, j \in Importers \ {i} : HasMissed(j, r)' <=> HasMissed(j, r)
  BY <1>2 DEF HasMissed
<1>5. CASE Quiet(i, s)
  <2>1. \A r \in Refs : ~HasMissed(i, r)'
    BY <1>2, <1>5 DEF Quiet, HasMissed
  <2>2. \A r \in Refs : Missed(r)' => Missed(r)
    BY <1>3, <1>4, <2>1 DEF Missed
  <2>3. refs' = refs
    BY <1>5 DEF Quiet, tables
  <2> QED BY <1>3, <2>2, <2>3, RaceStep
<1>6. CASE Misses(i, s)
  <2>1. refs' = refs /\ refs[NextRef(i)] = 0 /\ NextRef(i)' = NextRef(i)
    BY <1>6 DEF Misses, tables
  <2>2. \A r \in Refs \ {NextRef(i)} : ~HasMissed(i, r)'
    BY <2>1 DEF HasMissed
  <2>3. \A r \in Refs \ {NextRef(i)} : Missed(r)' => Missed(r)
    BY <1>3, <1>4, <2>2 DEF Missed
  <2> QED BY <1>3, <2>1, <2>3, RaceStep
<1>7. CASE Commits(i, s)
  <2>1. \A r \in Refs : ~HasMissed(i, r)'
    BY <1>2, <1>7 DEF Commits, HasMissed
  <2>2. \A r \in Refs : Missed(r)' => Missed(r)
    BY <1>3, <1>4, <2>1 DEF Missed
  <2>3. \/ refs' = refs
        \/ /\ HasMissed(i, NextRef(i))
           /\ \A r \in Refs \ {NextRef(i)} : refs'[r] = refs[r]
    BY <1>7, CommitsRefs DEF HasMissed
  <2>4. ASSUME NEW r \in Refs, Missed(r)', HasMissed(i, r) PROVE MissedTwice(r)
    BY <1>3, <1>4, <2>1, <2>4 DEF Missed, MissedTwice
  <2> QED BY <1>3, <2>2, <2>3, <2>4, RaceStep
<1> QED BY <1>5, <1>6, <1>7

LEMMA RaceBegin ==
  ASSUME Shape, RaceInv, NEW i \in Importers, Begin(i)
  PROVE  RaceInv'
<1>1. elsewhere' = elsewhere /\ refs' = refs /\ Races
  BY DEF Begin
<1>2. \A r \in Refs : ~HasMissed(i, r)'
  BY BeginSessions DEF HasMissed
<1>3. ASSUME NEW j \in Importers \ {i}, NEW r \in Refs PROVE HasMissed(j, r)' <=> HasMissed(j, r)
  <2>1. {"pc", "payload", "ix", "ref"} \subseteq Fields \ {"alone"}
    BY DEF Fields
  <2>2. /\ session'[j].pc = session[j].pc /\ session'[j].payload = session[j].payload
        /\ session'[j].ix = session[j].ix /\ session'[j].ref = session[j].ref
    BY <2>1, BeginSessions
  <2> QED BY <2>2 DEF HasMissed, NextRef, RefsOf, Item, Scenario
<1>4. \A r \in Refs : Missed(r)' => Missed(r)
  BY <1>1, <1>2, <1>3 DEF Missed
<1> QED BY <1>1, <1>4, RaceStep

LEMMA RaceElsewhere ==
  ASSUME Shape, RaceInv, Elsewhere
  PROVE  RaceInv'
<1>1. PICK q \in Shared : OtherSelects(q) \/ OtherCreates(q)
  BY DEF Elsewhere
<1>2. Races /\ session' = session
  BY <1>1 DEF OtherSelects, OtherCreates
<1>3. \A j \in Importers, r \in Refs : HasMissed(j, r)' <=> HasMissed(j, r)
  BY <1>2 DEF HasMissed, NextRef, RefsOf, Item, Scenario
<1>4. CASE OtherSelects(q)
  <2>1. refs' = refs /\ refs[q] = 0 /\ elsewhere' = elsewhere \cup {q}
    BY <1>4 DEF OtherSelects
  <2>2. \A r \in Refs \ {q} : Missed(r)' => Missed(r)
    BY <1>3, <2>1 DEF Missed
  <2> QED BY <1>2, <2>1, <2>2, RaceStep
<1>5. CASE OtherCreates(q)
  <2>1. /\ q \in elsewhere /\ elsewhere' = elsewhere \ {q}
        /\ \A r \in Refs \ {q} : refs'[r] = refs[r]
    BY <1>5 DEF OtherCreates, Shape
  <2>2. \A r \in Refs \ {q} : Missed(r)' => Missed(r)
    BY <1>3, <2>1 DEF Missed
  <2>3. q \in Refs /\ Missed(q)' => MissedTwice(q)
    BY <1>3, <2>1 DEF Missed, MissedTwice
  <2> QED BY <1>2, <2>1, <2>2, <2>3, RaceStep
<1> QED BY <1>1, <1>4, <1>5

LEMMA RaceNext == Shape /\ RaceInv /\ [Next]_vars => RaceInv'
<1> SUFFICES ASSUME Shape, RaceInv, [Next]_vars PROVE RaceInv' OBVIOUS
<1>1. CASE SetDefault \/ UNCHANGED vars
  <2>1. UNCHANGED <<refs, session, elsewhere, raced>>
    BY <1>1 DEF SetDefault, vars
  <2> QED BY <2>1 DEF RaceInv, Missed, MissedTwice, HasMissed, NextRef, RefsOf, Item, Scenario
<1>2. ASSUME NEW i \in Importers, Step(i) \/ Crash(i) PROVE RaceInv'
  BY <1>2, Kinds, RaceTurn
<1> QED BY <1>1, <1>2, RaceBegin, RaceElsewhere DEF Next, Elsewhere

LEMMA AddsRacedStep == Shape /\ RaceInv /\ [Next]_vars => AddsRaced
<1> SUFFICES ASSUME Shape, RaceInv, [Next]_vars,
                    NEW r \in Refs, refs'[r] > refs[r], refs[r] > 0, r \notin raced
             PROVE  FALSE
  BY DEF AddsRaced
<1>1. refs[r] \in Nat /\ refs' # refs /\ ~Missed(r)
  BY DEF Shape, RaceInv
<1>2. ASSUME NEW j \in Importers, NEW s, Quiet(j, s) \/ Misses(j, s) PROVE FALSE
  BY <1>1, <1>2 DEF Quiet, Misses, tables
<1>3. ASSUME NEW j \in Importers, NEW s, Commits(j, s) PROVE FALSE
  <2>1. r = NextRef(j) /\ session[j].pc \in {"createRef", "createAuthor"}
    BY <1>1, <1>3, CommitsRefs
  <2> QED BY <1>1, <2>1 DEF Missed, HasMissed
<1>4. ASSUME NEW j \in Importers, Step(j) \/ Crash(j) PROVE FALSE
  BY <1>2, <1>3, <1>4, Kinds
<1>5. ASSUME NEW q \in Shared, OtherSelects(q) \/ OtherCreates(q) PROVE FALSE
  <2>1. q \in elsewhere /\ refs' = [refs EXCEPT ![q] = @ + 1]
    BY <1>1, <1>5 DEF OtherSelects, OtherCreates
  <2>2. r = q
    BY <1>1, <2>1 DEF Shape
  <2> QED BY <1>1, <2>1, <2>2 DEF Missed
<1>6. CASE SetDefault \/ UNCHANGED vars \/ \E j \in Importers : Begin(j)
  BY <1>1, <1>6 DEF SetDefault, vars, Begin
<1> QED BY <1>4, <1>5, <1>6 DEF Next

(* A reference row that is there is added again only out of a race, by any *)
(* number of importers and whatever is added elsewhere: DuplicatesNeedARace. *)
THEOREM DuplicatesNeedARaceAlways == Spec => DuplicatesNeedARace
<1>1. AloneInv => Shape
  BY DEF AloneInv
<1>2. Spec => []RaceInv
  BY <1>1, AloneAlways, RaceInit, RaceNext, PTL DEF Spec
<1> QED BY <1>1, <1>2, AloneAlways, AddsRacedStep, PTL DEF Spec, DuplicatesNeedARace

-----------------------------------------------------------------------------
LEMMA DefaultInit == Init => DefaultInv
<1> SUFFICES ASSUME Init PROVE DefaultInv OBVIOUS
<1>1. \A i \in Importers : session[i].dropped \cup session[i].snap = {}
  BY DEF Init, Idle
<1>2. Shape
  BY AloneInit DEF AloneInv
<1> QED BY <1>1, <1>2 DEF DefaultInv

LEMMA DefaultNext == DefaultInv /\ [Next]_vars => DefaultInv'
<1> SUFFICES ASSUME DefaultInv, [Next]_vars PROVE DefaultInv' OBVIOUS
<1> USE DEF DefaultInv
<1>1. ASSUME NEW i \in Importers, NEW s, Quiet(i, s) \/ Misses(i, s) \/ Commits(i, s)
      PROVE  DefaultInv'
  <2>1. Turns(i, s) /\ refs' \in [Refs -> Nat]
    BY <1>1, CommitsRefs DEF Quiet, Misses, Commits, tables, Shape
  <2>2. /\ Shape' /\ session'[i] = s
        /\ \A j \in Importers \ {i} : session'[j] = session[j]
    BY <2>1, TurnShape
  <2>3. s.default = session[i].default
    BY <2>1 DEF Turns, SameBeginning
  <2>4. \A r \in s.dropped \cup s.snap : r.kind = "request" \/ r # session[i].default
    BY <1>1 DEF Quiet, Misses, Commits
  <2> QED BY <2>2, <2>3, <2>4
<1>2. ASSUME NEW i \in Importers, Begin(i) PROVE DefaultInv'
  <2>1. \A j \in Importers \ {i} : /\ session'[j].dropped = session[j].dropped
                                   /\ session'[j].snap = session[j].snap
                                   /\ session'[j].default = session[j].default
    <3>1. {"dropped", "snap", "default"} \subseteq Fields \ {"alone"}
      BY DEF Fields
    <3>2. \A j \in Importers \ {i} : \A f \in Fields \ {"alone"} : session'[j][f] = session[j][f]
      BY <1>2, BeginSessions
    <3> QED BY <3>1, <3>2
  <2>2. Shape' /\ session'[i].dropped = {} /\ session'[i].snap = {}
    BY <1>2, BeginSessions
  <2> QED BY <2>1, <2>2
<1>3. ASSUME NEW i \in Importers, Step(i) \/ Crash(i) PROVE DefaultInv'
  BY <1>1, <1>3, Kinds
<1>4. CASE SetDefault \/ UNCHANGED vars
  BY <1>4 DEF SetDefault, vars, Shape
<1>5. CASE Elsewhere
  BY <1>5, ElsewhereSame DEF Shape
<1> QED BY <1>2, <1>3, <1>4, <1>5 DEF Next, Elsewhere

LEMMA KeepsDefaultStep == DefaultInv /\ [Next]_vars => KeepsDefault
<1> SUFFICES ASSUME DefaultInv, [Next]_vars, default \in Scenarios(rows),
                    \A i \in Importers : Open(i) => session[i].default = default
             PROVE  default \in rows'
  BY DEF KeepsDefault
<1>1. default \in rows /\ default.kind = "scenario"
  BY DEF Scenarios
<1>2. ASSUME NEW i \in Importers, NEW s, Commits(i, s) PROVE default \in rows'
  <2>1. session[i].default = default
    BY <1>2 DEF Commits, Turns
  <2>2. default \notin session[i].dropped
    BY <1>1, <2>1 DEF DefaultInv
  <2> QED BY <1>1, <1>2, <2>2 DEF Commits
<1>3. ASSUME NEW i \in Importers, Step(i) \/ Crash(i) PROVE default \in rows'
  BY <1>1, <1>2, <1>3, Kinds DEF DefaultInv, Quiet, Misses, tables
<1>4. CASE SetDefault \/ UNCHANGED vars \/ Elsewhere \/ \E i \in Importers : Begin(i)
  BY <1>1, <1>4, ElsewhereSame DEF SetDefault, vars, Begin, DefaultInv, Shape
<1> QED BY <1>3, <1>4 DEF Next, Elsewhere

(* A default scenario that the open imports have read as such is not       *)
(* deleted by any of them, however many there are: DefaultSurvives.        *)
THEOREM DefaultSurvivesAlways == Spec => DefaultSurvives
<1>1. Spec => []DefaultInv
  BY DefaultInit, DefaultNext, PTL DEF Spec
<1> QED BY <1>1, KeepsDefaultStep, PTL DEF Spec, DefaultSurvives

-----------------------------------------------------------------------------
(* The types of what a session holds, and where it is in its document.     *)
IsTyped(s) ==
  /\ s.pc \in States
  /\ s.stale \subseteq Buses /\ s.known \subseteq Refs
  /\ s.ix \in Nat \ {0} /\ s.ref \in Nat \ {0} /\ s.number \in Nat
  /\ \A r \in s.added \cup s.flushed : IsRow(r)
  /\ s.pc \notin {"idle", "done", "failed"} => s.payload \in Payloads
  /\ s.pc \in {"refs", "createRef"} => s.ix <= Len(s.payload.requests)
  /\ s.pc \in {"author", "createAuthor"} => s.ix <= Len(s.payload.scenarios)
  /\ s.pc = "createRef" => s.ref <= Len(s.payload.requests[s.ix].refs)
  /\ s.pc = "createAuthor" => s.ref = 1

TypesInv ==
  /\ Shape
  /\ \A r \in rows : IsRow(r)
  /\ default \in Scenarios(rows) \cup {NoScenario}
  /\ imports \in 0..MaxImports
  /\ crashes \in 0..MaxCrashes
  /\ \A i \in Importers : IsTyped(session[i])

LEMMA DocumentIs ==
  ASSUME NEW p \in Payloads
  PROVE  /\ Len(p.requests) \in Nat /\ DOMAIN p.requests = 1..Len(p.requests)
         /\ Len(p.scenarios) \in Nat /\ DOMAIN p.scenarios = 1..Len(p.scenarios)
         /\ \A n \in DOMAIN p.requests : p.requests[n].refs \in Seq(Refs)
         /\ \A n \in DOMAIN p.scenarios : p.scenarios[n].author \in Refs
<1>1. p.requests \in Seq(RequestItem) /\ p.scenarios \in Seq(ScenarioItem)
  BY PayloadsAssumption DEF Payload
<1>2. (\A x \in RequestItem : x.refs \in Seq(Refs)) /\ (\A x \in ScenarioItem : x.author \in Refs)
  BY DEF RequestItem, ScenarioItem
<1> QED BY <1>1, <1>2

(* The fields of a session a step may change. *)
Keeps(s, t, changed) == \A f \in Fields \ changed : t[f] = s[f]

LEMMA NextRefIs ==
  ASSUME NEW i \in Importers, IsTyped(session[i]),
         AsksForRef(i) \/ session[i].pc \in {"createRef", "createAuthor"}
  PROVE  NextRef(i) \in Refs
<1> DEFINE s == session[i]
<1>1. s.payload \in Payloads /\ s.ref \in Nat \ {0} /\ s.ix \in Nat \ {0}
  BY DEF IsTyped, AsksForRef
<1>2. CASE s.pc \in {"refs", "createRef"}
  <2>1. s.ix \in DOMAIN s.payload.requests /\ RefsOf(i) = s.payload.requests[s.ix].refs
    BY <1>1, <1>2, DocumentIs DEF IsTyped, RefsOf, Item
  <2>2. RefsOf(i) \in Seq(Refs) /\ s.ref <= Len(RefsOf(i))
    BY <1>1, <1>2, <2>1, DocumentIs DEF IsTyped, AsksForRef
  <2> QED BY <1>1, <2>2 DEF NextRef
<1>3. CASE s.pc \in {"author", "createAuthor"}
  <2>1. s.ix \in DOMAIN s.payload.scenarios /\ RefsOf(i) = <<s.payload.scenarios[s.ix].author>>
    BY <1>1, <1>3, DocumentIs DEF IsTyped, RefsOf, Scenario
  <2>2. s.ref = 1
    BY <1>1, <1>3, <2>1 DEF IsTyped, AsksForRef
  <2> QED BY <1>1, <2>1, <2>2, DocumentIs DEF NextRef
<1> QED BY <1>2, <1>3 DEF AsksForRef

(* What each step does to its session, field by field.                     *)
LEMMA Became ==
  ASSUME Shape, NEW i \in Importers, NEW t, IsSession(t), Becomes(i, t)
  PROVE  session'[i] = t /\ \A j \in Importers \ {i} : session'[j] = session[j]
BY DEF Shape, Becomes

LEMMA PurgeScenariosDoes ==
  ASSUME Shape, NEW i \in Importers, PurgeScenarios(i)
  PROVE  LET s == session[i]  t == session'[i] IN
         /\ s.pc = "purge" /\ t.pc = "dropScenarios"
         /\ t.snap = Scenarios(rows) \ {s.default}
         /\ Keeps(s, t, {"pc", "snap"})
<1> DEFINE t == [session[i] EXCEPT !.pc = "dropScenarios",
                   !.snap = Scenarios(rows) \ {session[i].default}]
<1>1. IsSession(t) /\ t.pc = "dropScenarios" /\ t.snap = Scenarios(rows) \ {session[i].default}
      /\ Keeps(session[i], t, {"pc", "snap"})
  BY DEF Keeps, Shape, IsSession, Fields
<1> QED BY <1>1, Became DEF PurgeScenarios

LEMMA PurgeRequestsDoes ==
  ASSUME Shape, NEW i \in Importers, PurgeRequests(i)
  PROVE  LET s == session[i]  t == session'[i] IN
         /\ s.pc = "dropScenarios" /\ t.pc = "dropRequests"
         /\ t.dropped = s.dropped \cup (s.snap \cap rows)
         /\ t.snap = Requests(rows)
         /\ Keeps(s, t, {"pc", "snap", "dropped"})
<1> DEFINE t == [Dropped(i) EXCEPT !.pc = "dropRequests", !.snap = Requests(rows)]
<1>1. /\ IsSession(t) /\ t.pc = "dropRequests" /\ t.snap = Requests(rows)
      /\ t.dropped = session[i].dropped \cup (session[i].snap \cap rows)
      /\ Keeps(session[i], t, {"pc", "snap", "dropped"})
  BY DroppedSession DEF Keeps, IsSession, Fields
<1> QED BY <1>1, Became DEF PurgeRequests

LEMMA PurgedDoes ==
  ASSUME Shape, NEW i \in Importers, Purged(i)
  PROVE  LET s == session[i]  t == session'[i] IN
         /\ s.pc = "dropRequests" /\ t.pc = "request"
         /\ t.dropped = s.dropped \cup (s.snap \cap rows)
         /\ Keeps(s, t, {"pc", "snap", "dropped"})
<1> DEFINE t == [Dropped(i) EXCEPT !.pc = "request"]
<1>1. /\ IsSession(t) /\ t.pc = "request"
      /\ t.dropped = session[i].dropped \cup (session[i].snap \cap rows)
      /\ Keeps(session[i], t, {"pc", "snap", "dropped"})
  BY DroppedSession DEF Keeps, IsSession, Fields
<1> QED BY <1>1, Became DEF Purged

LEMMA LocateDoes ==
  ASSUME Shape, NEW i \in Importers, Locate(i)
  PROVE  LET s == session[i]  t == session'[i] IN
         /\ s.pc = "request" /\ s.ix <= Len(s.payload.requests)
         /\ \/ /\ BusesFor(Item(i), s.payload.distance) = {}
               /\ t.ix = s.ix + 1 /\ Keeps(s, t, {"ix"})
            \/ /\ BusesFor(Item(i), s.payload.distance) # {}
               /\ t.pc = "refs" /\ t.ref = 1 /\ Keeps(s, t, {"pc", "ref"})
<1> DEFINE t == [session[i] EXCEPT !.ix = @ + 1]
           u == [session[i] EXCEPT !.pc = "refs", !.ref = 1]
<1>1. /\ IsSession(t) /\ t.ix = session[i].ix + 1 /\ Keeps(session[i], t, {"ix"})
      /\ IsSession(u) /\ u.pc = "refs" /\ u.ref = 1 /\ Keeps(session[i], u, {"pc", "ref"})
  BY DEF Keeps, Shape, IsSession, Fields
<1>2. session[i].pc = "request" /\ session[i].ix <= Len(session[i].payload.requests)
  BY DEF Locate, RequestsLeft
<1>3. \/ BusesFor(Item(i), session[i].payload.distance) = {} /\ Becomes(i, t)
      \/ BusesFor(Item(i), session[i].payload.distance) # {} /\ Becomes(i, u)
  BY DEF Locate
<1> HIDE DEF t, u
<1> QED BY <1>1, <1>2, <1>3, Became

LEMMA RefKnownDoes ==
  ASSUME Shape, NEW i \in Importers, RefKnown(i)
  PROVE  LET s == session[i]  t == session'[i] IN
         t.ref = s.ref + 1 /\ Keeps(s, t, {"ref"})
<1> DEFINE t == [session[i] EXCEPT !.ref = @ + 1]
<1>1. IsSession(t) /\ t.ref = session[i].ref + 1 /\ Keeps(session[i], t, {"ref"})
  BY DEF Keeps, Shape, IsSession, Fields
<1> QED BY <1>1, Became DEF RefKnown

(* A step that flushes and may ask for a reference row. *)
Flushes(s, t) ==
  /\ t.flushed = s.flushed \cup s.added /\ t.added = {}
  /\ t.stale \subseteq s.stale

LEMMA FlushedIs ==
  ASSUME Shape, NEW i \in Importers
  PROVE  /\ Flushes(session[i], Flushed(i))
         /\ IsSession(Flushed(i))
         /\ Keeps(session[i], Flushed(i), {"flushed", "added", "stale"})
BY DEF Flushes, Shape, Flushed, IsSession, Fields, Keeps

LEMMA FailsDoes ==
  ASSUME Shape, NEW i \in Importers, Becomes(i, [session[i] EXCEPT !.pc = "failed"])
  PROVE  session'[i].pc = "failed" /\ Keeps(session[i], session'[i], {"pc"})
<1> DEFINE t == [session[i] EXCEPT !.pc = "failed"]
<1>1. IsSession(t) /\ t.pc = "failed" /\ Keeps(session[i], t, {"pc"})
  BY DEF Keeps, Shape, IsSession, Fields
<1> QED BY <1>1, Became

LEMMA RefSelectDoes ==
  ASSUME Shape, NEW i \in Importers, RefSelect(i)
  PROVE  LET s == session[i]  t == session'[i] IN
         /\ AsksForRef(i)
         /\ \/ t.pc = "failed" /\ Keeps(s, t, {"pc"})
            \/ /\ Flushes(s, t)
               /\ t.pc = IF s.pc = "refs" THEN "createRef" ELSE "createAuthor"
               /\ Keeps(s, t, {"pc", "flushed", "added", "stale"})
            \/ /\ Flushes(s, t)
               /\ t.known = s.known \cup {NextRef(i)} /\ t.ref = s.ref + 1
               /\ Keeps(s, t, {"known", "ref", "flushed", "added", "stale"})
<1> DEFINE t == [Flushed(i) EXCEPT !.pc = IF @ = "refs" THEN "createRef" ELSE "createAuthor"]
           u == [Flushed(i) EXCEPT !.known = @ \cup {NextRef(i)}, !.ref = @ + 1]
<1>1. /\ IsSession(t) /\ Flushes(session[i], t)
      /\ t.pc = IF session[i].pc = "refs" THEN "createRef" ELSE "createAuthor"
      /\ Keeps(session[i], t, {"pc", "flushed", "added", "stale"})
  BY FlushedIs DEF Keeps, Flushes, IsSession, Fields
<1>2. /\ IsSession(u) /\ Flushes(session[i], u)
      /\ u.known = session[i].known \cup {NextRef(i)} /\ u.ref = session[i].ref + 1
      /\ Keeps(session[i], u, {"known", "ref", "flushed", "added", "stale"})
  BY FlushedIs DEF Keeps, Flushes, IsSession, Fields
<1>3. \/ Becomes(i, t) \/ Becomes(i, u)
      \/ Becomes(i, [session[i] EXCEPT !.pc = "failed"])
  BY DEF RefSelect
<1>4. AsksForRef(i)
  BY DEF RefSelect
<1> HIDE DEF t, u
<1> QED BY <1>1, <1>2, <1>3, <1>4, Became, FailsDoes

LEMMA CommittedIs ==
  ASSUME NEW i \in Importers, NEW s, IsSession(s), s.stale \subseteq Buses
  PROVE  /\ IsSession(Committed(i, s))
         /\ Committed(i, s).dropped = {} /\ Committed(i, s).flushed = {}
         /\ Committed(i, s).stale \subseteq Buses
         /\ Keeps(s, Committed(i, s), {"dropped", "flushed", "stale"})
BY DEF Committed, IsSession, Fields, Keeps

LEMMA RefCreateDoes ==
  ASSUME Shape, NEW i \in Importers, RefCreate(i), session[i].stale \subseteq Buses
  PROVE  LET s == session[i]  t == session'[i] IN
         /\ rows' = (rows \ s.dropped) \cup s.flushed
         /\ s.pc \in {"createRef", "createAuthor"}
         /\ t.dropped = {} /\ t.flushed = {} /\ t.stale \subseteq Buses
         /\ t.pc = IF s.pc = "createRef" THEN "refs" ELSE "author"
         /\ t.known = s.known \cup {NextRef(i)} /\ t.ref = s.ref + 1
         /\ Keeps(s, t, {"dropped", "flushed", "stale", "pc", "known", "ref", "made"})
<1> DEFINE s == session[i]
           c == Committed(i, s)
           t == [c EXCEPT !.pc = IF @ = "createRef" THEN "refs" ELSE "author",
                          !.known = @ \cup {NextRef(i)}, !.ref = @ + 1, !.made = TRUE]
<1>1. /\ IsSession(c) /\ c.dropped = {} /\ c.flushed = {} /\ c.stale \subseteq Buses
      /\ Keeps(s, c, {"dropped", "flushed", "stale"})
  BY CommittedIs DEF Shape
<1> HIDE DEF c
<1>2. /\ IsSession(t)
      /\ t.dropped = {} /\ t.flushed = {} /\ t.stale \subseteq Buses
      /\ t.pc = IF s.pc = "createRef" THEN "refs" ELSE "author"
      /\ t.known = s.known \cup {NextRef(i)} /\ t.ref = s.ref + 1
      /\ Keeps(s, t, {"dropped", "flushed", "stale", "pc", "known", "ref", "made"})
  BY <1>1 DEF Keeps, IsSession, Fields
<1>3. /\ Becomes(i, t) /\ s.pc \in {"createRef", "createAuthor"}
      /\ rows' = (rows \ s.dropped) \cup s.flushed
  BY DEF RefCreate, CommitTables, c
<1> QED BY <1>2, <1>3, Became

LEMMA AddRequestDoes ==
  ASSUME Shape, NEW i \in Importers, AddRequest(i)
  PROVE  LET s == session[i]  t == session'[i] IN
         /\ s.pc = "refs" /\ t.pc = "request" /\ t.ix = s.ix + 1
         /\ \E b \in BusesFor(Item(i), s.payload.distance) :
              t.added = s.added \cup {RequestRow(Item(i).project, b, s.number, s.ix)}
         /\ Keeps(s, t, {"pc", "ix", "added"})
<1>0. PICK b \in BusesFor(Item(i), session[i].payload.distance) :
        Becomes(i, [session[i] EXCEPT !.pc = "request", !.ix = @ + 1,
                      !.added = @ \cup {RequestRow(Item(i).project, b, session[i].number,
                                                   session[i].ix)}])
  BY DEF AddRequest
<1> DEFINE a == RequestRow(Item(i).project, b, session[i].number, session[i].ix)
           t == [session[i] EXCEPT !.pc = "request", !.ix = @ + 1, !.added = @ \cup {a}]
<1>1. Becomes(i, t) /\ session[i].pc = "refs"
  BY <1>0 DEF AddRequest
<1> HIDE DEF a
<1>2. /\ IsSession(t) /\ t.pc = "request" /\ t.ix = session[i].ix + 1
      /\ t.added = session[i].added \cup {a} /\ Keeps(session[i], t, {"pc", "ix", "added"})
  BY DEF Keeps, Shape, IsSession, Fields
<1>3. session'[i] = t
  BY <1>1, <1>2, Became
<1> HIDE DEF t
<1> QED BY <1>1, <1>2, <1>3 DEF a

LEMMA FlushRequestsDoes ==
  ASSUME Shape, NEW i \in Importers, FlushRequests(i)
  PROVE  LET s == session[i]  t == session'[i] IN
         /\ s.pc = "request" /\ ~(s.ix <= Len(s.payload.requests))
         /\ Flushes(s, t) /\ t.pc = "scenario" /\ t.ix = 1
         /\ Keeps(s, t, {"flushed", "added", "stale", "pc", "ix"})
<1> DEFINE t == [Flushed(i) EXCEPT !.pc = "scenario", !.ix = 1]
<1>1. /\ IsSession(t) /\ Flushes(session[i], t) /\ t.pc = "scenario" /\ t.ix = 1
      /\ Keeps(session[i], t, {"flushed", "added", "stale", "pc", "ix"})
  BY FlushedIs DEF Keeps, Flushes, IsSession, Fields
<1> QED BY <1>1, Became DEF FlushRequests, RequestsLeft

LEMMA LinkDoes ==
  ASSUME Shape, NEW i \in Importers, Link(i)
  PROVE  LET s == session[i]  t == session'[i] IN
         /\ s.pc = "scenario" /\ s.ix <= Len(s.payload.scenarios)
         /\ Flushes(s, t) /\ t.pc \in {"author", "failed"} /\ t.ref = 1
         /\ t.links = {r \in Requests(t.flushed \cup (rows \ t.dropped)) \cup Abroad :
                         r.key[1] \in Scenario(i).names}
         /\ Keeps(s, t, {"flushed", "added", "stale", "pc", "ref", "links"})
<1> DEFINE found == {r \in Requests(Flushed(i).flushed \cup (rows \ session[i].dropped)) \cup Abroad :
                       r.key[1] \in Scenario(i).names}
           next == IF NetUnreadable(i) THEN "failed" ELSE "author"
           t == [Flushed(i) EXCEPT !.links = found, !.ref = 1, !.pc = next]
<1>1. /\ Becomes(i, t) /\ next \in {"failed", "author"}
      /\ session[i].pc = "scenario" /\ session[i].ix <= Len(session[i].payload.scenarios)
  BY DEF Link, ScenariosLeft
<1>2. found = {r \in Requests(Flushed(i).flushed \cup (rows \ session[i].dropped)) \cup Abroad :
                       r.key[1] \in Scenario(i).names}
  OBVIOUS
<1> HIDE DEF found, next
<1>3. /\ IsSession(t) /\ Flushes(session[i], t) /\ t.pc = next /\ t.ref = 1 /\ t.links = found
      /\ t.flushed = Flushed(i).flushed /\ t.dropped = session[i].dropped
      /\ Keeps(session[i], t, {"flushed", "added", "stale", "pc", "ref", "links"})
  BY FlushedIs DEF Keeps, Flushes, IsSession, Fields
<1>4. session'[i] = t
  BY <1>1, <1>3, Became
<1> HIDE DEF t
<1> QED BY <1>1, <1>2, <1>3, <1>4

LEMMA AddScenarioDoes ==
  ASSUME Shape, NEW i \in Importers, AddScenario(i)
  PROVE  LET s == session[i]  t == session'[i] IN
         /\ s.pc = "author" /\ t.pc = "scenario" /\ t.ix = s.ix + 1
         /\ t.added = s.added \cup {ScenarioRow(Scenario(i).code, s.number, s.ix, s.links)}
         /\ t.links = {}
         /\ Keeps(s, t, {"pc", "ix", "links", "added"})
<1> DEFINE a == ScenarioRow(Scenario(i).code, session[i].number, session[i].ix, session[i].links)
           t == [session[i] EXCEPT !.pc = "scenario", !.ix = @ + 1, !.links = {},
                   !.added = @ \cup {a}]
<1>1. Becomes(i, t) /\ session[i].pc = "author"
  BY DEF AddScenario
<1> HIDE DEF a
<1>2. /\ IsSession(t) /\ t.pc = "scenario" /\ t.ix = session[i].ix + 1
      /\ t.added = session[i].added \cup {a} /\ t.links = {}
      /\ Keeps(session[i], t, {"pc", "ix", "links", "added"})
  BY DEF Keeps, Shape, IsSession, Fields
<1>3. session'[i] = t
  BY <1>1, <1>2, Became
<1> HIDE DEF t
<1> QED BY <1>1, <1>2, <1>3 DEF a

LEMMA FinishDoes ==
  ASSUME Shape, NEW i \in Importers, Finish(i), session[i].stale \subseteq Buses
  PROVE  LET s == session[i]  t == session'[i] IN
         /\ s.pc = "scenario" /\ ~(s.ix <= Len(s.payload.scenarios))
         /\ rows' = (rows \ s.dropped) \cup s.flushed \cup s.added
         /\ t.pc = "done" /\ t.flushed = {} /\ t.added = {} /\ t.stale \subseteq Buses
         /\ Keeps(s, t, {"pc", "dropped", "flushed", "added", "stale"})
<1> DEFINE s == session[i]
           c == Committed(i, Flushed(i))
           t == [c EXCEPT !.pc = "done"]
<1>1. /\ IsSession(Flushed(i)) /\ Flushes(s, Flushed(i)) /\ Flushed(i).stale \subseteq Buses
      /\ Keeps(s, Flushed(i), {"flushed", "added", "stale"})
  BY FlushedIs DEF Flushes
<1>2. /\ IsSession(c) /\ c.dropped = {} /\ c.flushed = {} /\ c.stale \subseteq Buses
      /\ Keeps(Flushed(i), c, {"dropped", "flushed", "stale"})
  BY <1>1, CommittedIs
<1> HIDE DEF c
<1>3. /\ IsSession(t) /\ t.pc = "done" /\ t.flushed = {} /\ t.stale \subseteq Buses
      /\ Keeps(Flushed(i), t, {"pc", "dropped", "flushed", "stale"})
  BY <1>2 DEF Keeps, IsSession, Fields
<1>4. t.added = {} /\ Keeps(s, t, {"pc", "dropped", "flushed", "added", "stale"})
  <2>1. t.added = Flushed(i).added
    BY <1>3 DEF Keeps, Fields
  <2> QED BY <1>1, <1>3, <2>1 DEF Keeps, Flushes
<1>5. /\ Becomes(i, t) /\ s.pc = "scenario" /\ ~(s.ix <= Len(s.payload.scenarios))
      /\ rows' = (rows \ Flushed(i).dropped) \cup Flushed(i).flushed
  BY DEF Finish, CommitTables, ScenariosLeft, c
<1>6. Flushed(i).dropped = s.dropped /\ Flushed(i).flushed = s.flushed \cup s.added
  BY <1>1 DEF Keeps, Fields, Flushes
<1> HIDE DEF t
<1> QED BY <1>3, <1>4, <1>5, <1>6, Became

LEMMA StepTyped ==
  ASSUME TypesInv, NEW i \in Importers, Step(i) \/ Crash(i)
  PROVE  IsTyped(session'[i])
<1> DEFINE s == session[i]
           t == session'[i]
<1>1. Shape /\ IsTyped(s) /\ s.stale \subseteq Buses
  BY DEF TypesInv, IsTyped
<1> USE DEF IsTyped, States
<1>2. CASE PurgeScenarios(i)
  <2>1. /\ s.pc = "purge" /\ t.pc = "dropScenarios" /\ t.payload = s.payload /\ t.ix = s.ix
        /\ t.ref = s.ref /\ t.number = s.number /\ t.added = s.added /\ t.flushed = s.flushed
        /\ t.stale = s.stale /\ t.known = s.known
    BY <1>1, <1>2, PurgeScenariosDoes DEF Keeps, Fields
  <2> HIDE DEF s, t
  <2> QED BY <1>1, <2>1 DEF s, t
<1>3. CASE PurgeRequests(i) \/ Purged(i)
  <2>1. /\ s.pc \in {"dropScenarios", "dropRequests"} /\ t.pc \in {"dropRequests", "request"}
        /\ t.payload = s.payload /\ t.ix = s.ix
        /\ t.ref = s.ref /\ t.number = s.number /\ t.added = s.added /\ t.flushed = s.flushed
        /\ t.stale = s.stale /\ t.known = s.known
    BY <1>1, <1>3, PurgeRequestsDoes, PurgedDoes DEF Keeps, Fields
  <2> HIDE DEF s, t
  <2> QED BY <1>1, <2>1 DEF s, t
<1>4. CASE Locate(i)
  <2>1. /\ s.pc = "request" /\ s.ix <= Len(s.payload.requests)
        /\ \/ t.pc = "request" /\ t.ix = s.ix + 1 /\ t.ref = s.ref
           \/ t.pc = "refs" /\ t.ix = s.ix /\ t.ref = 1
        /\ t.payload = s.payload /\ t.number = s.number /\ t.added = s.added
        /\ t.flushed = s.flushed /\ t.stale = s.stale /\ t.known = s.known
    BY <1>1, <1>4, LocateDoes DEF Keeps, Fields
  <2> HIDE DEF s, t
  <2> QED BY <1>1, <2>1 DEF s, t
<1>5. CASE LocateRaises(i) \/ AddRaises(i) \/ FlushRaises(i) \/ Crash(i)
  <2>1. t.pc = "failed" /\ Keeps(s, t, {"pc"})
    BY <1>1, <1>5, FailsDoes DEF LocateRaises, AddRaises, FlushRaises, Crash, Fail
  <2>2. /\ t.payload = s.payload /\ t.number = s.number /\ t.added = s.added /\ t.ix = s.ix
        /\ t.flushed = s.flushed /\ t.stale = s.stale /\ t.known = s.known /\ t.ref = s.ref
    BY <2>1 DEF Keeps, Fields
  <2> HIDE DEF s, t
  <2> QED BY <1>1, <2>1, <2>2 DEF s, t
<1>6. CASE RefKnown(i)
  <2>1. s.pc \in {"refs", "author"} /\ t.ref = s.ref + 1 /\ Keeps(s, t, {"ref"})
    BY <1>1, <1>6, RefKnownDoes DEF RefKnown, AsksForRef
  <2>2. /\ t.payload = s.payload /\ t.number = s.number /\ t.added = s.added /\ t.ix = s.ix
        /\ t.flushed = s.flushed /\ t.stale = s.stale /\ t.known = s.known /\ t.pc = s.pc
    BY <2>1 DEF Keeps, Fields
  <2> HIDE DEF s, t
  <2> QED BY <1>1, <2>1, <2>2 DEF s, t
<1>7. CASE RefSelect(i)
  <2>1. AsksForRef(i) /\ NextRef(i) \in Refs
    BY <1>1, <1>7, NextRefIs DEF RefSelect
  <2>2. s.pc \in {"refs", "author"} /\ s.ref <= Len(RefsOf(i))
    BY <2>1 DEF AsksForRef
  <2>3. /\ s.pc = "refs" => s.ref <= Len(s.payload.requests[s.ix].refs)
        /\ s.pc = "author" => s.ref = 1
    BY <1>1, <2>2 DEF RefsOf, Item
  <2>4. /\ t.payload = s.payload /\ t.number = s.number /\ t.ix = s.ix
        /\ t.added \cup t.flushed \subseteq s.added \cup s.flushed
        /\ t.stale \subseteq s.stale
        /\ \/ t.pc = "failed" /\ t.ref = s.ref /\ t.known = s.known
           \/ /\ t.pc = IF s.pc = "refs" THEN "createRef" ELSE "createAuthor"
              /\ t.ref = s.ref /\ t.known = s.known
           \/ t.pc = s.pc /\ t.ref = s.ref + 1 /\ t.known = s.known \cup {NextRef(i)}
    BY <1>1, <1>7, RefSelectDoes DEF Keeps, Fields, Flushes
  <2> HIDE DEF s, t
  <2> QED BY <1>1, <2>1, <2>2, <2>3, <2>4 DEF s, t
<1>8. CASE RefCreate(i)
  <2>1. s.pc \in {"createRef", "createAuthor"} /\ NextRef(i) \in Refs
    BY <1>1, <1>8, NextRefIs DEF RefCreate
  <2>2. /\ t.payload = s.payload /\ t.number = s.number /\ t.ix = s.ix /\ t.added = s.added
        /\ t.flushed = {} /\ t.stale \subseteq Buses
        /\ t.pc = IF s.pc = "createRef" THEN "refs" ELSE "author"
        /\ t.ref = s.ref + 1 /\ t.known = s.known \cup {NextRef(i)}
    BY <1>1, <1>8, RefCreateDoes DEF Keeps, Fields
  <2> HIDE DEF s, t
  <2> QED BY <1>1, <2>1, <2>2 DEF s, t
<1>9. CASE AddRequest(i)
  <2>1. /\ s.pc = "refs" /\ t.pc = "request" /\ t.ix = s.ix + 1
        /\ t.payload = s.payload /\ t.number = s.number /\ t.ref = s.ref
        /\ t.flushed = s.flushed /\ t.stale = s.stale /\ t.known = s.known
        /\ \E b : t.added = s.added \cup {RequestRow(Item(i).project, b, s.number, s.ix)}
    BY <1>1, <1>9, AddRequestDoes DEF Keeps, Fields
  <2>2. \A b : IsRow(RequestRow(Item(i).project, b, s.number, s.ix))
    BY <1>1 DEF IsRow, RequestRow
  <2> HIDE DEF s, t
  <2> QED BY <1>1, <2>1, <2>2 DEF s, t
<1>10. CASE FlushRequests(i)
  <2>1. /\ s.pc = "request" /\ t.pc = "scenario" /\ t.ix = 1
        /\ t.payload = s.payload /\ t.number = s.number /\ t.ref = s.ref
        /\ t.added \cup t.flushed \subseteq s.added \cup s.flushed
        /\ t.stale \subseteq s.stale /\ t.known = s.known
    BY <1>1, <1>10, FlushRequestsDoes DEF Keeps, Fields, Flushes
  <2> HIDE DEF s, t
  <2> QED BY <1>1, <2>1 DEF s, t
<1>11. CASE Link(i)
  <2>1. /\ s.pc = "scenario" /\ t.pc \in {"author", "failed"} /\ t.ix = s.ix /\ t.ref = 1
        /\ s.ix <= Len(s.payload.scenarios)
        /\ t.payload = s.payload /\ t.number = s.number
        /\ t.added \cup t.flushed \subseteq s.added \cup s.flushed
        /\ t.stale \subseteq s.stale /\ t.known = s.known
    <3>1. /\ s.pc = "scenario" /\ t.pc \in {"author", "failed"} /\ t.ref = 1
          /\ s.ix <= Len(s.payload.scenarios) /\ Flushes(s, t)
          /\ Keeps(s, t, {"flushed", "added", "stale", "pc", "ref", "links"})
      BY <1>1, <1>11, LinkDoes
    <3> QED BY <3>1 DEF Keeps, Fields, Flushes
  <2> HIDE DEF s, t
  <2> QED BY <1>1, <2>1 DEF s, t
<1>12. CASE AddScenario(i)
  <2>1. /\ s.pc = "author" /\ t.pc = "scenario" /\ t.ix = s.ix + 1
        /\ t.payload = s.payload /\ t.number = s.number /\ t.ref = s.ref
        /\ t.flushed = s.flushed /\ t.stale = s.stale /\ t.known = s.known
        /\ t.added = s.added \cup {ScenarioRow(Scenario(i).code, s.number, s.ix, s.links)}
    BY <1>1, <1>12, AddScenarioDoes DEF Keeps, Fields
  <2>2. IsRow(ScenarioRow(Scenario(i).code, s.number, s.ix, s.links))
    BY <1>1 DEF IsRow, ScenarioRow
  <2> HIDE DEF s, t
  <2> QED BY <1>1, <2>1, <2>2 DEF s, t
<1>13. CASE Finish(i)
  <2>1. /\ t.pc = "done" /\ t.payload = s.payload /\ t.number = s.number /\ t.ix = s.ix
        /\ t.ref = s.ref /\ t.added = {} /\ t.flushed = {} /\ t.stale \subseteq Buses
        /\ t.known = s.known
    BY <1>1, <1>13, FinishDoes DEF Keeps, Fields
  <2> HIDE DEF s, t
  <2> QED BY <1>1, <2>1 DEF s, t
<1> QED BY <1>2, <1>3, <1>4, <1>5, <1>6, <1>7, <1>8, <1>9, <1>10, <1>11, <1>12, <1>13 DEF Step

(* What a step does to the tables. *)
LEMMA StepTables ==
  ASSUME TypesInv, NEW i \in Importers, Step(i) \/ Crash(i)
  PROVE  LET s == session[i] IN
         \/ rows' = rows /\ default' = default
         \/ \E new \in {s.flushed, s.flushed \cup s.added} :
              /\ rows' = (rows \ s.dropped) \cup new
              /\ default' = IF default \in s.dropped THEN NoScenario ELSE default
<1>1. Shape
  BY DEF TypesInv
<1>2. CASE RefCreate(i)
  BY <1>2 DEF RefCreate, CommitTables
<1>3. CASE Finish(i)
  <2>1. Flushed(i).dropped = session[i].dropped
        /\ Flushed(i).flushed = session[i].flushed \cup session[i].added
    BY <1>1, FlushedIs DEF Keeps, Fields, Flushes
  <2> QED BY <1>3, <2>1 DEF Finish, CommitTables
<1>4. CASE ~RefCreate(i) /\ ~Finish(i)
  <2>1. UNCHANGED <<rows, default>>
    BY <1>4 DEF Step, Crash, PurgeScenarios, PurgeRequests, Purged, Locate, LocateRaises, AddRaises, RefKnown,
       RefSelect, AddRequest, FlushRequests, Link, AddScenario, FlushRaises, Fail, Local
  <2> QED BY <2>1
<1> QED BY <1>2, <1>3, <1>4

LEMMA TypesInit == Init => TypesInv
<1> SUFFICES ASSUME Init PROVE TypesInv OBVIOUS
<1>1. Shape
  BY AloneInit DEF AloneInv
<1>2. \A i \in Importers : session[i] = Idle
  BY DEF Init
<1>3. IsTyped(Idle)
  BY DEF Idle, IsTyped, States
<1>4. \A r \in rows : IsRow(r)
  BY OldRowsAssumption DEF Init
<1> QED BY <1>1, <1>2, <1>3, <1>4, BoundsAssumption DEF Init, TypesInv

LEMMA TypesBegin ==
  ASSUME TypesInv, NEW i \in Importers, Begin(i)
  PROVE  TypesInv'
<1> DEFINE others == {j \in Importers \ {i} : Open(j)}
           b(p) == [Idle EXCEPT !.pc = "purge", !.payload = p,
                          !.number = imports + 1, !.default = default,
                          !.before = rows, !.alone = (others = {})]
           o(j) == [session[j] EXCEPT !.alone = @ /\ ~Open(j)]
<1>1. PICK p \in Payloads : session' = [j \in Importers |-> IF j = i THEN b(p) ELSE o(j)]
  BY DEF Begin
<1>2. IsTyped(b(p))
  <2>1. /\ b(p).pc = "purge" /\ b(p).payload = p /\ b(p).number = imports + 1
        /\ b(p).ix = 1 /\ b(p).ref = 1 /\ b(p).added = {} /\ b(p).flushed = {}
        /\ b(p).stale = {} /\ b(p).known = {}
    BY DEF Idle
  <2>2. imports + 1 \in Nat
    BY BoundsAssumption DEF TypesInv
  <2> HIDE DEF b
  <2> QED BY <2>1, <2>2 DEF IsTyped, States
<1>3. ASSUME NEW j \in Importers PROVE IsTyped(o(j))
  <2>1. IsSession(session[j]) /\ IsTyped(session[j])
    BY DEF TypesInv, Shape
  <2>2. Keeps(session[j], o(j), {"alone"})
    BY <2>1 DEF IsSession, Fields, Keeps
  <2>3. /\ o(j).pc = session[j].pc /\ o(j).payload = session[j].payload /\ o(j).ix = session[j].ix
        /\ o(j).number = session[j].number /\ o(j).ref = session[j].ref
        /\ o(j).added = session[j].added /\ o(j).flushed = session[j].flushed
        /\ o(j).stale = session[j].stale /\ o(j).known = session[j].known
    BY <2>2 DEF Keeps, Fields
  <2> HIDE DEF o
  <2> QED BY <2>1, <2>3 DEF IsTyped
<1> HIDE DEF b, o
<1>4. \A j \in Importers : IsTyped(session'[j])
  BY <1>1, <1>2, <1>3
<1>5. /\ UNCHANGED <<rows, default, crashes>> /\ imports' = imports + 1 /\ imports < MaxImports
  BY DEF Begin
<1>6. imports' \in 0..MaxImports
  BY <1>5, BoundsAssumption DEF TypesInv
<1> QED BY <1>4, <1>5, <1>6, BeginSessions DEF TypesInv

LEMMA TypesNext == TypesInv /\ [Next]_vars => TypesInv'
<1> SUFFICES ASSUME TypesInv, [Next]_vars PROVE TypesInv' OBVIOUS
<1>1. CASE SetDefault
  BY <1>1 DEF SetDefault, TypesInv, Shape
<1>2. CASE UNCHANGED vars
  BY <1>2 DEF vars, TypesInv, Shape
<1>3. ASSUME NEW i \in Importers, Begin(i) PROVE TypesInv'
  BY <1>3, TypesBegin
<1>4. ASSUME NEW i \in Importers, Step(i) \/ Crash(i) PROVE TypesInv'
  <2>1. PICK t : Turns(i, t) /\ refs' \in [Refs -> Nat]
    BY <1>4, Kinds, CommitsRefs DEF Quiet, Misses, Commits, tables, TypesInv, Shape
  <2>2. Shape' /\ \A j \in Importers \ {i} : session'[j] = session[j]
    BY <2>1, TurnShape DEF TypesInv
  <2>3. \A j \in Importers : IsTyped(session'[j])
    BY <1>4, <2>2, StepTyped DEF TypesInv
  <2>4. (\A r \in rows' : IsRow(r)) /\ default' \in Scenarios(rows') \cup {NoScenario}
    BY <1>4, StepTables DEF TypesInv, IsTyped, Scenarios
  <2>5. imports' \in 0..MaxImports /\ crashes' \in 0..MaxCrashes
    <3>1. CASE Step(i)
      BY <3>1 DEF Step, PurgeScenarios, PurgeRequests, Purged, Locate, LocateRaises, AddRaises, RefKnown,
         RefSelect, RefCreate, AddRequest, FlushRequests, Link, AddScenario, Finish, FlushRaises,
         Fail, Local, TypesInv
    <3>2. CASE Crash(i)
      BY <3>2, BoundsAssumption DEF Crash, TypesInv
    <3> QED BY <1>4, <3>1, <3>2
  <2> QED BY <2>2, <2>3, <2>4, <2>5 DEF TypesInv
<1>5. CASE Elsewhere
  BY <1>5, ElsewhereSame DEF TypesInv, Shape
<1> QED BY <1>1, <1>2, <1>3, <1>4, <1>5 DEF Next, Elsewhere

(* The rows others are adding, and those raced for.                        *)
OthersInv == elsewhere \subseteq Shared /\ raced \subseteq Refs

LEMMA OthersNext == Shape /\ OthersInv /\ [Next]_vars => OthersInv'
<1> SUFFICES ASSUME Shape, OthersInv, [Next]_vars PROVE OthersInv' OBVIOUS
<1>1. Races => raced' \subseteq Refs
  BY DEF Races
<1>2. ASSUME NEW i \in Importers, Step(i) \/ Crash(i) PROVE elsewhere' = elsewhere /\ Races
  BY <1>2, Kinds DEF Quiet, Misses, Commits, Turns, Becomes
<1>3. ASSUME NEW i \in Importers, Begin(i) PROVE elsewhere' = elsewhere /\ Races
  BY <1>3 DEF Begin
<1>4. ASSUME NEW r \in Shared, OtherSelects(r) \/ OtherCreates(r)
      PROVE  elsewhere' \subseteq Shared /\ Races
  BY <1>4 DEF OtherSelects, OtherCreates, OthersInv
<1>5. CASE SetDefault \/ UNCHANGED vars
  BY <1>5 DEF SetDefault, vars, OthersInv
<1> QED BY <1>1, <1>2, <1>3, <1>4, <1>5 DEF Next, OthersInv

(* The references between the tables hold at any commit, and no import     *)
(* leaves its document: the default scenario is a row of the network, what *)
(* an import asks for next is in its document.                             *)
THEOREM TypeCorrect == Spec => []TypeOK
<1>1. TypesInv /\ OthersInv => TypeOK
  <2>1. \A i \in Importers : IsSession(session[i]) => DOMAIN session[i] = DOMAIN Idle
    BY DEF IsSession, Fields, Idle
  <2> QED BY <2>1 DEF TypesInv, OthersInv, Shape, IsTyped, TypeOK
<1>2. Init => OthersInv
  BY DEF Init, OthersInv
<1>3. TypesInv => Shape
  BY DEF TypesInv
<1> QED BY <1>1, <1>2, <1>3, TypesInit, TypesNext, OthersNext, PTL DEF Spec

-----------------------------------------------------------------------------
(* What the rows of an import can be told by: a row, and what a scenario   *)
(* links to, is not from an import that has not begun, unless it is of     *)
(* another network.                                                        *)
LinksUpTo(links, n) == \A q \in links : q \in Abroad \/ q.from \in 0..n
UpTo(set, n) == \A r \in set : r.from \in 0..n /\ LinksUpTo(r.links, n)

FreshSession(s, n) ==
  /\ s.number \in 0..n
  /\ UpTo(s.added \cup s.flushed, n)
  /\ LinksUpTo(s.links, n)
  /\ s.pc \notin {"idle", "done", "failed"} =>
       /\ s.number # 0 /\ UpTo(s.before, s.number - 1)
       /\ \A r \in s.before : IsRow(r)

FreshInv == UpTo(rows, imports) /\ \A i \in Importers : FreshSession(session[i], imports)

LEMMA LaterUpTo ==
  ASSUME NEW m \in Nat, NEW n \in Nat, m <= n
  PROVE  /\ \A links : LinksUpTo(links, m) => LinksUpTo(links, n)
         /\ \A set : UpTo(set, m) => UpTo(set, n)
         /\ \A s : FreshSession(s, m) => FreshSession(s, n)
<1>1. \A x \in 0..m : x \in 0..n
  OBVIOUS
<1>2. /\ \A links : LinksUpTo(links, m) => LinksUpTo(links, n)
      /\ \A set : UpTo(set, m) => UpTo(set, n)
  BY <1>1 DEF LinksUpTo, UpTo
<1> QED BY <1>1, <1>2 DEF FreshSession

LEMMA StepFresh ==
  ASSUME TypesInv, FreshInv, NEW i \in Importers, Step(i) \/ Crash(i)
  PROVE  FreshSession(session'[i], imports)
<1> DEFINE s == session[i]
           t == session'[i]
<1>1. Shape /\ FreshSession(s, imports) /\ s.stale \subseteq Buses /\ imports \in Nat
  BY BoundsAssumption DEF TypesInv, FreshInv, IsTyped
<1>2. s.pc \notin {"idle", "done", "failed"} /\ t.number = s.number /\ t.before = s.before
  <2>1. PICK u : Turns(i, u)
    BY <1>1, Kinds DEF Quiet, Misses, Commits
  <2>2. t = u /\ u.before = s.before
    BY <1>1, <2>1, BecomesShape DEF Turns, SameBeginning
  <2>3. t.number = s.number
    <3> USE <1>1 DEF Keeps, Fields
    <3>1. CASE PurgeScenarios(i) \/ PurgeRequests(i) \/ Purged(i)
      BY <3>1, PurgeScenariosDoes, PurgeRequestsDoes, PurgedDoes
    <3>2. CASE Locate(i) \/ RefKnown(i)
      BY <3>2, LocateDoes, RefKnownDoes
    <3>3. CASE LocateRaises(i) \/ AddRaises(i) \/ FlushRaises(i) \/ Crash(i)
      BY <3>3, FailsDoes DEF LocateRaises, AddRaises, FlushRaises, Crash, Fail
    <3>4. CASE RefSelect(i) \/ RefCreate(i)
      BY <3>4, RefSelectDoes, RefCreateDoes
    <3>5. CASE AddRequest(i) \/ FlushRequests(i)
      BY <3>5, AddRequestDoes, FlushRequestsDoes
    <3>6. CASE Link(i)
      <4>1. Keeps(s, t, {"flushed", "added", "stale", "pc", "ref", "links"})
        BY <3>6, LinkDoes
      <4> QED BY <4>1
    <3>7. CASE AddScenario(i) \/ Finish(i)
      BY <3>7, AddScenarioDoes, FinishDoes
    <3> QED BY <3>1, <3>2, <3>3, <3>4, <3>5, <3>6, <3>7 DEF Step
  <2> QED BY <2>1, <2>2, <2>3 DEF Turns, Open
<1> USE DEF FreshSession
<1>3. ASSUME t.added \cup t.flushed \subseteq s.added \cup s.flushed, t.links \in {s.links, {}}
      PROVE  /\ UpTo(t.added \cup t.flushed, imports)
             /\ LinksUpTo(t.links, imports)
  BY <1>1, <1>3 DEF UpTo, LinksUpTo
<1>4. /\ UpTo(t.added \cup t.flushed, imports)
      /\ LinksUpTo(t.links, imports)
  <2>1. CASE PurgeScenarios(i) \/ PurgeRequests(i) \/ Purged(i)
    <3>1. t.added = s.added /\ t.flushed = s.flushed /\ t.links = s.links
      BY <1>1, <2>1, PurgeScenariosDoes, PurgeRequestsDoes, PurgedDoes DEF Keeps, Fields
    <3> QED BY <1>3, <3>1
  <2>2. CASE Locate(i) \/ RefKnown(i)
    <3>1. t.added = s.added /\ t.flushed = s.flushed /\ t.links = s.links
      BY <1>1, <2>2, LocateDoes, RefKnownDoes DEF Keeps, Fields
    <3> QED BY <1>3, <3>1
  <2>3. CASE LocateRaises(i) \/ AddRaises(i) \/ FlushRaises(i) \/ Crash(i)
    <3>1. Keeps(s, t, {"pc"})
      BY <1>1, <2>3, FailsDoes DEF LocateRaises, AddRaises, FlushRaises, Crash, Fail
    <3>2. t.added = s.added /\ t.flushed = s.flushed /\ t.links = s.links
      BY <3>1 DEF Keeps, Fields
    <3> QED BY <1>3, <3>2
  <2>4. CASE RefSelect(i) \/ FlushRequests(i)
    <3>1. t.added \cup t.flushed \subseteq s.added \cup s.flushed /\ t.links = s.links
      BY <1>1, <2>4, RefSelectDoes, FlushRequestsDoes DEF Keeps, Fields, Flushes
    <3> QED BY <1>3, <3>1
  <2>5. CASE RefCreate(i) \/ Finish(i)
    <3>1. t.added \subseteq s.added /\ t.flushed = {} /\ t.links = s.links
      BY <1>1, <2>5, RefCreateDoes, FinishDoes DEF Keeps, Fields
    <3> QED BY <1>3, <3>1
  <2>6. CASE AddRequest(i)
    <3>1. /\ \E b : t.added = s.added \cup {RequestRow(Item(i).project, b, s.number, s.ix)}
          /\ t.flushed = s.flushed /\ t.links = s.links
      BY <1>1, <2>6, AddRequestDoes DEF Keeps, Fields
    <3>2. \A b : UpTo({RequestRow(Item(i).project, b, s.number, s.ix)}, imports)
      BY <1>1 DEF UpTo, LinksUpTo, RequestRow
    <3> QED BY <1>1, <3>1, <3>2 DEF UpTo
  <2>7. CASE Link(i)
    <3>1. /\ Flushes(s, t)
          /\ t.links = {r \in Requests(t.flushed \cup (rows \ t.dropped)) \cup Abroad :
                          r.key[1] \in Scenario(i).names}
      BY <1>1, <2>7, LinkDoes
    <3>2. t.added \cup t.flushed \subseteq s.added \cup s.flushed
      BY <3>1 DEF Flushes
    <3>3. UpTo(t.added \cup t.flushed, imports) /\ UpTo(rows, imports)
      BY <1>1, <3>2 DEF UpTo, FreshInv
    <3> QED BY <3>1, <3>3 DEF UpTo, LinksUpTo, Requests
  <2>8. CASE AddScenario(i)
    <3>1. /\ t.added = s.added \cup {ScenarioRow(Scenario(i).code, s.number, s.ix, s.links)}
          /\ t.flushed = s.flushed /\ t.links = {}
      BY <1>1, <2>8, AddScenarioDoes DEF Keeps, Fields
    <3>2. UpTo({ScenarioRow(Scenario(i).code, s.number, s.ix, s.links)}, imports)
      BY <1>1 DEF UpTo, ScenarioRow
    <3> QED BY <1>1, <3>1, <3>2 DEF UpTo, LinksUpTo
  <2> QED BY <2>1, <2>2, <2>3, <2>4, <2>5, <2>6, <2>7, <2>8 DEF Step
<1> HIDE DEF s, t
<1> QED BY <1>1, <1>2, <1>4 DEF s, t

(* What a session begins with. *)
LEMMA BeginDoes ==
  ASSUME Shape, NEW i \in Importers, Begin(i)
  PROVE  LET t == session'[i] IN
         /\ ~Open(i) /\ rows' = rows /\ default' = default /\ imports' = imports + 1
         /\ t.pc = "purge" /\ t.payload \in Payloads /\ t.number = imports + 1 /\ t.before = rows
         /\ t.added = {} /\ t.flushed = {} /\ t.dropped = {} /\ t.links = {} /\ t.ix = 1
         /\ \A j \in Importers \ {i} : Keeps(session[j], session'[j], {"alone"})
<1> DEFINE others == {j \in Importers \ {i} : Open(j)}
           b(p) == [Idle EXCEPT !.pc = "purge", !.payload = p,
                          !.number = imports + 1, !.default = default,
                          !.before = rows, !.alone = (others = {})]
           o(j) == [session[j] EXCEPT !.alone = @ /\ ~Open(j)]
<1>1. PICK p \in Payloads : session' = [j \in Importers |-> IF j = i THEN b(p) ELSE o(j)]
  BY DEF Begin
<1>2. /\ b(p).pc = "purge" /\ b(p).payload = p /\ b(p).number = imports + 1
      /\ b(p).before = rows /\ b(p).added = {} /\ b(p).flushed = {} /\ b(p).dropped = {}
      /\ b(p).links = {} /\ b(p).ix = 1
  BY DEF Idle
<1> HIDE DEF b, o
<1>3. session'[i] = b(p)
  BY <1>1
<1> QED BY <1>2, <1>3, BeginSessions DEF Begin, Keeps

LEMMA FreshInit == Init => FreshInv
<1> SUFFICES ASSUME Init PROVE FreshInv OBVIOUS
<1>1. imports = 0 /\ rows = OldRows /\ \A i \in Importers : session[i] = Idle
  BY DEF Init
<1>2. UpTo(rows, imports)
  BY <1>1, OldRowsAssumption DEF UpTo, LinksUpTo
<1>3. FreshSession(Idle, imports)
  BY <1>1 DEF FreshSession, Idle, UpTo, LinksUpTo
<1> QED BY <1>1, <1>2, <1>3 DEF FreshInv

LEMMA FreshBegin ==
  ASSUME TypesInv, FreshInv, NEW i \in Importers, Begin(i)
  PROVE  FreshInv'
<1> DEFINE n == imports + 1
           t == session'[i]
<1>1. Shape /\ imports \in Nat /\ n \in Nat /\ imports <= n /\ n # 0 /\ n - 1 = imports /\ n \in 0..n
  BY BoundsAssumption DEF TypesInv
<1>2. /\ rows' = rows /\ imports' = n /\ t.number = n /\ t.before = rows
      /\ t.added = {} /\ t.flushed = {} /\ t.links = {}
  BY <1>1, BeginDoes
<1> HIDE DEF t
<1>3. UpTo(rows, imports) /\ UpTo(rows, n)
  BY <1>1, LaterUpTo DEF FreshInv
<1>4. FreshSession(t, n)
  BY <1>1, <1>2, <1>3 DEF FreshSession, UpTo, LinksUpTo, TypesInv
<1>5. ASSUME NEW j \in Importers \ {i} PROVE FreshSession(session'[j], n)
  <2>1. Keeps(session[j], session'[j], {"alone"})
    BY <1>1, BeginDoes
  <2>2. FreshSession(session[j], n)
    BY <1>1, LaterUpTo DEF FreshInv
  <2>3. LET u == session[j]  v == session'[j] IN
        /\ v.number = u.number /\ v.added = u.added /\ v.flushed = u.flushed
        /\ v.links = u.links /\ v.pc = u.pc /\ v.before = u.before
    BY <2>1 DEF Keeps, Fields
  <2> QED BY <2>2, <2>3 DEF FreshSession
<1> QED BY <1>2, <1>3, <1>4, <1>5 DEF FreshInv, t

LEMMA FreshNext == TypesInv /\ FreshInv /\ [Next]_vars => FreshInv'
<1> SUFFICES ASSUME TypesInv, FreshInv, [Next]_vars PROVE FreshInv' OBVIOUS
<1>1. CASE SetDefault
  BY <1>1 DEF SetDefault, FreshInv
<1>2. CASE UNCHANGED vars
  BY <1>2 DEF vars, FreshInv
<1>3. ASSUME NEW i \in Importers, Begin(i) PROVE FreshInv'
  BY <1>3, FreshBegin
<1>4. ASSUME NEW i \in Importers, Step(i) \/ Crash(i) PROVE FreshInv'
  <2>1. PICK t : Turns(i, t)
    BY <1>4, Kinds DEF Quiet, Misses, Commits, TypesInv
  <2>2. \A j \in Importers \ {i} : session'[j] = session[j]
    BY <2>1, BecomesShape DEF TypesInv, Turns
  <2>3. FreshSession(session'[i], imports)
    BY <1>4, StepFresh
  <2>4. UpTo(rows', imports)
    <3>1. FreshSession(session[i], imports) /\ UpTo(rows, imports)
      BY DEF FreshInv
    <3> QED BY <1>4, <3>1, StepTables DEF FreshSession, UpTo
  <2>5. imports' = imports
    BY <1>4 DEF Step, Crash, PurgeScenarios, PurgeRequests, Purged, Locate, LocateRaises, AddRaises, RefKnown,
       RefSelect, RefCreate, AddRequest, FlushRequests, Link, AddScenario, Finish, FlushRaises,
       Fail, Local
  <2> QED BY <2>2, <2>3, <2>4, <2>5 DEF FreshInv
<1>5. CASE Elsewhere
  BY <1>5, ElsewhereSame DEF FreshInv, TypesInv, Shape
<1> QED BY <1>1, <1>2, <1>3, <1>4, <1>5 DEF Next, Elsewhere

-----------------------------------------------------------------------------
(* What an import that is alone has done, at each of its steps: the rows   *)
(* there would be if it committed now are the scenario it keeps and the    *)
(* rows of the part of its document that it has been through.              *)
Mine(s, set) == (set \ s.dropped) \cup s.flushed \cup s.added

Placed(p) == {m \in DOMAIN p.requests : BusesFor(p.requests[m], p.distance) # {}}
PlacedBefore(p, n) == {m \in Placed(p) : m < n}
BusOfEach(p, placed) ==
  {bus \in [placed -> Buses] : \A m \in placed : bus[m] \in BusesFor(p.requests[m], p.distance)}
RowsAt(p, number, placed, bus) ==
  {RequestRow(p.requests[m].project, bus[m], number, m) : m \in placed}
RequestsAre(p, number, placed, set) ==
  \E bus \in BusOfEach(p, placed) : Requests(set) = RowsAt(p, number, placed, bus)

Kept(s) == {r \in Scenarios(s.before) : r = s.default}
LinksFor(p, n, set) == {r \in Requests(set) \cup Abroad : r.key[1] \in p.scenarios[n].names}
ScenariosFrom(p, number, n, set) ==
  {ScenarioRow(p.scenarios[m].code, number, m, LinksFor(p, m, set)) :
     m \in {k \in DOMAIN p.scenarios : k < n}}

Progress(s, set) ==
  /\ s.pc \in {"purge", "dropScenarios", "dropRequests"} =>
       set = s.before /\ s.flushed = {} /\ s.added = {} /\ s.ix = 1
  /\ s.pc \in {"purge", "dropScenarios"} => s.dropped = {}
  /\ s.pc = "dropScenarios" => s.snap = Scenarios(set) \ {s.default}
  /\ s.pc = "dropRequests" =>
       s.dropped = Scenarios(set) \ {s.default} /\ s.snap = Requests(set)
  /\ s.pc \in {"request", "refs", "createRef"} =>
       /\ RequestsAre(s.payload, s.number, PlacedBefore(s.payload, s.ix), Mine(s, set))
       /\ Scenarios(Mine(s, set)) = Kept(s)
  /\ s.pc \in {"scenario", "author", "createAuthor"} =>
       /\ RequestsAre(s.payload, s.number, Placed(s.payload), Mine(s, set))
       /\ Scenarios(Mine(s, set)) =
            Kept(s) \cup ScenariosFrom(s.payload, s.number, s.ix, Mine(s, set))
  /\ s.pc \in {"author", "createAuthor"} =>
       s.links = LinksFor(s.payload, s.ix, Mine(s, set))

ProgressInv == \A i \in Importers : Open(i) /\ session[i].alone => Progress(session[i], rows)

LEMMA BusesForIs == \A x, d : BusesFor(x, d) \subseteq Buses
BY DEF BusesFor, Nearest, Located

(* The request at n is placed at b, and added. *)
LEMMA OneMoreRequest ==
  ASSUME NEW p \in Payloads, NEW n \in DOMAIN p.requests, NEW number, NEW set,
         NEW b \in BusesFor(p.requests[n], p.distance),
         RequestsAre(p, number, PlacedBefore(p, n), set)
  PROVE  LET more == set \cup {RequestRow(p.requests[n].project, b, number, n)} IN
         /\ RequestsAre(p, number, PlacedBefore(p, n + 1), more)
         /\ Scenarios(more) = Scenarios(set)
<1> DEFINE placed == PlacedBefore(p, n)
           now == PlacedBefore(p, n + 1)
           row == RequestRow(p.requests[n].project, b, number, n)
<1>1. DOMAIN p.requests \subseteq Nat
  BY DocumentIs
<1>2. now = placed \cup {n} /\ n \notin placed
  BY <1>1 DEF PlacedBefore, Placed
<1>3. PICK bus \in BusOfEach(p, placed) : Requests(set) = RowsAt(p, number, placed, bus)
  BY DEF RequestsAre
<1> DEFINE moved == [m \in now |-> IF m = n THEN b ELSE bus[m]]
<1>4. moved \in BusOfEach(p, now)
  <2>1. \A m \in now : moved[m] \in BusesFor(p.requests[m], p.distance)
    BY <1>2, <1>3 DEF BusOfEach
  <2> QED BY <2>1, BusesForIs DEF BusOfEach
<1>5. moved[n] = b /\ \A m \in placed : moved[m] = bus[m]
  BY <1>2
<1> HIDE DEF moved, now, placed
<1>6. RowsAt(p, number, now, moved) = RowsAt(p, number, placed, bus) \cup {row}
  BY <1>2, <1>5 DEF RowsAt
<1>7. Requests(set \cup {row}) = Requests(set) \cup {row} /\ Scenarios(set \cup {row}) = Scenarios(set)
  BY DEF Requests, Scenarios, RequestRow
<1> QED BY <1>3, <1>4, <1>6, <1>7 DEF RequestsAre, now

(* The request at n has no bus. *)
LEMMA NoMoreRequest ==
  ASSUME NEW p \in Payloads, NEW n \in Nat, n \in DOMAIN p.requests,
         BusesFor(p.requests[n], p.distance) = {}
  PROVE  PlacedBefore(p, n + 1) = PlacedBefore(p, n)
<1>1. DOMAIN p.requests \subseteq Nat
  BY DocumentIs
<1> QED BY <1>1 DEF PlacedBefore, Placed

LEMMA AllRequests ==
  ASSUME NEW p \in Payloads, NEW n \in Nat, ~(n <= Len(p.requests))
  PROVE  PlacedBefore(p, n) = Placed(p)
<1>1. DOMAIN p.requests = 1..Len(p.requests) /\ Len(p.requests) \in Nat
  BY DocumentIs
<1> QED BY <1>1 DEF PlacedBefore, Placed

(* The scenario at n is added. *)
RowFor(p, number, n, set) == ScenarioRow(p.scenarios[n].code, number, n, LinksFor(p, n, set))
WithScenario(p, number, n, set) == set \cup {RowFor(p, number, n, set)}

LEMMA OneMoreScenario ==
  ASSUME NEW p \in Payloads, NEW n \in DOMAIN p.scenarios, NEW number, NEW set
  PROVE  LET more == WithScenario(p, number, n, set) IN
         /\ Requests(more) = Requests(set)
         /\ Scenarios(more) = Scenarios(set) \cup {RowFor(p, number, n, set)}
         /\ ScenariosFrom(p, number, n + 1, more) =
              ScenariosFrom(p, number, n, set) \cup {RowFor(p, number, n, set)}
<1> DEFINE more == WithScenario(p, number, n, set)
<1>1. DOMAIN p.scenarios \subseteq Nat
  BY DocumentIs
<1>2. /\ Requests(more) = Requests(set)
      /\ Scenarios(more) = Scenarios(set) \cup {RowFor(p, number, n, set)}
  BY DEF Requests, Scenarios, ScenarioRow, WithScenario, RowFor
<1>3. \A m : LinksFor(p, m, more) = LinksFor(p, m, set)
  BY <1>2 DEF LinksFor
<1>4. {k \in DOMAIN p.scenarios : k < n + 1} = {k \in DOMAIN p.scenarios : k < n} \cup {n}
  BY <1>1
<1>5. ScenariosFrom(p, number, n + 1, more) =
        ScenariosFrom(p, number, n, set) \cup {RowFor(p, number, n, set)}
  BY <1>3, <1>4 DEF ScenariosFrom, RowFor
<1> QED BY <1>2, <1>5

(* The document an import works at, and what it knew when it began. *)
SameDocument(s, t) ==
  /\ t.payload = s.payload /\ t.number = s.number
  /\ t.before = s.before /\ t.default = s.default

(* A step that leaves what there would be as it was. *)
LEMMA SameProgress ==
  ASSUME NEW s, NEW t, NEW set, NEW more, Progress(s, set), SameDocument(s, t),
         Mine(t, more) = Mine(s, set), t.ix = s.ix,
         \/ s.pc \in {"request", "refs", "createRef"} /\ t.pc \in {"request", "refs", "createRef"}
         \/ /\ s.pc \in {"author", "createAuthor"} /\ t.pc \in {"author", "createAuthor"}
            /\ t.links = s.links
  PROVE  Progress(t, more)
BY DEF Progress, SameDocument, Kept

LEMMA StepProgress ==
  ASSUME TypesInv, NEW i \in Importers, Step(i) \/ Crash(i), Progress(session[i], rows)
  PROVE  session'[i].pc \in {"done", "failed"} \/ Progress(session'[i], rows')
<1> DEFINE s == session[i]
           t == session'[i]
<1>1. /\ Shape /\ IsTyped(s) /\ s.stale \subseteq Buses /\ s.ix \in Nat /\ s.ix # 0
      /\ \A r \in rows : IsRow(r)
  BY DEF TypesInv, IsTyped
<1>2. SUFFICES ASSUME t.pc \notin {"done", "failed"} PROVE Progress(t, rows')
  OBVIOUS
<1>3. CASE PurgeScenarios(i)
  <2>1. /\ s.pc = "purge" /\ t.pc = "dropScenarios" /\ t.snap = Scenarios(rows) \ {s.default}
        /\ SameDocument(s, t) /\ t.flushed = s.flushed /\ t.added = s.added /\ t.ix = s.ix
        /\ t.dropped = s.dropped /\ rows' = rows
    BY <1>1, <1>3, PurgeScenariosDoes DEF Keeps, Fields, SameDocument, PurgeScenarios, Local
  <2> HIDE DEF s, t
  <2> QED BY <2>1 DEF Progress, SameDocument, s, t
<1>4. CASE PurgeRequests(i)
  <2>1. /\ s.pc = "dropScenarios" /\ t.pc = "dropRequests" /\ t.snap = Requests(rows)
        /\ t.dropped = s.dropped \cup (s.snap \cap rows)
        /\ SameDocument(s, t) /\ t.flushed = s.flushed /\ t.added = s.added /\ t.ix = s.ix
        /\ rows' = rows
    BY <1>1, <1>4, PurgeRequestsDoes DEF Keeps, Fields, SameDocument, PurgeRequests, Local
  <2> HIDE DEF s, t
  <2>2. t.dropped = Scenarios(rows) \ {s.default}
    BY <2>1 DEF Progress, Scenarios, s
  <2> QED BY <2>1, <2>2 DEF Progress, SameDocument, s, t
<1>5. CASE Purged(i)
  <2>1. /\ s.pc = "dropRequests" /\ t.pc = "request"
        /\ t.dropped = s.dropped \cup (s.snap \cap rows)
        /\ SameDocument(s, t) /\ t.flushed = s.flushed /\ t.added = s.added /\ t.ix = s.ix
        /\ rows' = rows
    BY <1>1, <1>5, PurgedDoes DEF Keeps, Fields, SameDocument, Purged, Local
  <2> HIDE DEF s, t
  <2>2. /\ s.dropped = Scenarios(rows) \ {s.default} /\ s.snap = Requests(rows)
        /\ rows = s.before /\ s.flushed = {} /\ s.added = {} /\ s.ix = 1
    BY <2>1 DEF Progress, s
  <2>3. Mine(t, rows) = rows \ ((Scenarios(rows) \ {s.default}) \cup Requests(rows))
    BY <2>1, <2>2 DEF Mine, Requests
  <2>4. Requests(Mine(t, rows)) = {} /\ Scenarios(Mine(t, rows)) = Kept(t)
    BY <1>1, <2>1, <2>2, <2>3 DEF Requests, Scenarios, Kept, SameDocument, IsRow
  <2>5. PlacedBefore(t.payload, 1) = {}
    <3>1. DOMAIN t.payload.requests \subseteq Nat \ {0}
      BY <1>1, <2>1, DocumentIs DEF IsTyped, SameDocument
    <3> QED BY <3>1 DEF PlacedBefore, Placed
  <2>6. RequestsAre(t.payload, t.number, {}, Mine(t, rows))
    <3>1. [m \in {} |-> NoNode] \in BusOfEach(t.payload, {})
      BY DEF BusOfEach
    <3>2. RowsAt(t.payload, t.number, {}, [m \in {} |-> NoNode]) = {}
      BY DEF RowsAt
    <3> QED BY <2>4, <3>1, <3>2 DEF RequestsAre
  <2> QED BY <2>1, <2>2, <2>4, <2>5, <2>6 DEF Progress, t
<1>6. CASE Locate(i)
  <2>1. /\ s.pc = "request" /\ s.ix <= Len(s.payload.requests)
        /\ \/ t.pc = "request" /\ t.ix = s.ix + 1 /\ BusesFor(Item(i), s.payload.distance) = {}
           \/ t.pc = "refs" /\ t.ix = s.ix
        /\ SameDocument(s, t) /\ t.flushed = s.flushed /\ t.added = s.added
        /\ t.dropped = s.dropped /\ rows' = rows
    BY <1>1, <1>6, LocateDoes DEF Keeps, Fields, SameDocument, Locate, Local
  <2>2. Item(i) = s.payload.requests[s.ix]
    BY DEF Item
  <2> HIDE DEF s, t
  <2>3. Mine(t, rows') = Mine(s, rows)
    BY <2>1 DEF Mine
  <2>4. CASE t.ix = s.ix
    BY <2>1, <2>3, <2>4, SameProgress DEF s, t
  <2>5. CASE t.ix = s.ix + 1 /\ t.pc = "request" /\ BusesFor(Item(i), s.payload.distance) = {}
    <3>1. s.payload \in Payloads
      BY <1>1, <2>1 DEF IsTyped
    <3>2. s.ix \in DOMAIN s.payload.requests
      BY <1>1, <2>1, <3>1, DocumentIs
    <3>3. PlacedBefore(s.payload, s.ix + 1) = PlacedBefore(s.payload, s.ix)
      BY <1>1, <2>2, <2>5, <3>1, <3>2, NoMoreRequest
    <3> QED BY <2>1, <2>3, <2>5, <3>3 DEF Progress, SameDocument, Kept, s, t
  <2> QED BY <1>1, <2>1, <2>4, <2>5
<1>7. CASE LocateRaises(i) \/ AddRaises(i) \/ FlushRaises(i) \/ Crash(i)
  BY <1>1, <1>2, <1>7, FailsDoes DEF LocateRaises, AddRaises, FlushRaises, Crash, Fail
<1>8. CASE RefKnown(i)
  <2>1. /\ s.pc \in {"refs", "author"} /\ t.pc = s.pc /\ t.ix = s.ix /\ t.links = s.links
        /\ SameDocument(s, t) /\ t.flushed = s.flushed /\ t.added = s.added
        /\ t.dropped = s.dropped /\ rows' = rows
    BY <1>1, <1>8, RefKnownDoes DEF Keeps, Fields, SameDocument, RefKnown, AsksForRef, Local
  <2> HIDE DEF s, t
  <2>2. Mine(t, rows') = Mine(s, rows)
    BY <2>1 DEF Mine
  <2> QED BY <2>1, <2>2, SameProgress DEF s, t
<1>9. CASE RefSelect(i)
  <2>1. /\ s.pc \in {"refs", "author"}
        /\ t.pc = s.pc \/ t.pc = IF s.pc = "refs" THEN "createRef" ELSE "createAuthor"
        /\ t.ix = s.ix /\ t.links = s.links /\ SameDocument(s, t)
        /\ Flushes(s, t) /\ t.dropped = s.dropped /\ rows' = rows
    BY <1>1, <1>2, <1>9, RefSelectDoes DEF Keeps, Fields, SameDocument, RefSelect, AsksForRef, Local
  <2> HIDE DEF s, t
  <2>2. Mine(t, rows') = Mine(s, rows)
    BY <2>1 DEF Mine, Flushes
  <2> QED BY <2>1, <2>2, SameProgress DEF s, t
<1>10. CASE RefCreate(i)
  <2>1. /\ s.pc \in {"createRef", "createAuthor"}
        /\ t.pc = IF s.pc = "createRef" THEN "refs" ELSE "author"
        /\ t.ix = s.ix /\ t.links = s.links /\ SameDocument(s, t)
        /\ t.dropped = {} /\ t.flushed = {} /\ t.added = s.added
        /\ rows' = (rows \ s.dropped) \cup s.flushed
    BY <1>1, <1>10, RefCreateDoes DEF Keeps, Fields, SameDocument
  <2> HIDE DEF s, t
  <2>2. Mine(t, rows') = Mine(s, rows)
    BY <2>1 DEF Mine
  <2> QED BY <2>1, <2>2, SameProgress DEF s, t
<1>11. CASE AddRequest(i)
  <2>1. /\ s.pc = "refs" /\ t.pc = "request" /\ t.ix = s.ix + 1
        /\ SameDocument(s, t) /\ t.flushed = s.flushed /\ t.dropped = s.dropped /\ rows' = rows
    BY <1>1, <1>11, AddRequestDoes DEF Keeps, Fields, SameDocument, AddRequest, Local
  <2>2. PICK b \in BusesFor(s.payload.requests[s.ix], s.payload.distance) :
          t.added = s.added \cup {RequestRow(s.payload.requests[s.ix].project, b, s.number, s.ix)}
    BY <1>1, <1>11, AddRequestDoes DEF Item
  <2> HIDE DEF s, t
  <2>3. s.payload \in Payloads /\ s.ix <= Len(s.payload.requests)
    BY <1>1, <2>1 DEF IsTyped
  <2>4. s.ix \in DOMAIN s.payload.requests
    BY <1>1, <2>3, DocumentIs
  <2>5. Mine(t, rows') =
          Mine(s, rows) \cup {RequestRow(s.payload.requests[s.ix].project, b, s.number, s.ix)}
    BY <2>1, <2>2 DEF Mine
  <2>6. RequestsAre(s.payload, s.number, PlacedBefore(s.payload, s.ix), Mine(s, rows))
        /\ Scenarios(Mine(s, rows)) = Kept(s)
    BY <2>1 DEF Progress, s
  <2>7. RequestsAre(s.payload, s.number, PlacedBefore(s.payload, s.ix + 1), Mine(t, rows'))
        /\ Scenarios(Mine(t, rows')) = Kept(s)
    <3> DEFINE d == s.payload
               number == s.number
               n == s.ix
               mine == Mine(s, rows)
               row == RequestRow(d.requests[n].project, b, number, n)
    <3>1. RequestsAre(d, number, PlacedBefore(d, n), mine) /\ b \in BusesFor(d.requests[n], d.distance)
          /\ d \in Payloads /\ n \in DOMAIN d.requests
      BY <2>3, <2>4, <2>6
    <3>2. Mine(t, rows') = mine \cup {row}
      BY <2>5
    <3> HIDE DEF d, number, n, mine
    <3>3. /\ RequestsAre(d, number, PlacedBefore(d, n + 1), mine \cup {row})
          /\ Scenarios(mine \cup {row}) = Scenarios(mine)
      BY <3>1, OneMoreRequest
    <3> QED BY <2>6, <3>2, <3>3 DEF d, number, n, mine
  <2> QED BY <2>1, <2>7 DEF Progress, SameDocument, Kept, t
<1>12. CASE FlushRequests(i)
  <2>1. /\ s.pc = "request" /\ ~(s.ix <= Len(s.payload.requests)) /\ t.pc = "scenario" /\ t.ix = 1
        /\ SameDocument(s, t) /\ Flushes(s, t) /\ t.dropped = s.dropped /\ rows' = rows
    BY <1>1, <1>12, FlushRequestsDoes DEF Keeps, Fields, SameDocument, FlushRequests, Local
  <2> HIDE DEF s, t
  <2>2. Mine(t, rows') = Mine(s, rows) /\ s.payload \in Payloads
    BY <1>1, <2>1 DEF Mine, Flushes, IsTyped
  <2>3. PlacedBefore(s.payload, s.ix) = Placed(s.payload)
    BY <1>1, <2>1, <2>2, AllRequests
  <2>4. ScenariosFrom(s.payload, s.number, 1, Mine(s, rows)) = {}
    <3>1. DOMAIN s.payload.scenarios \subseteq Nat \ {0}
      BY <2>2, DocumentIs
    <3> QED BY <3>1 DEF ScenariosFrom
  <2> QED BY <2>1, <2>2, <2>3, <2>4 DEF Progress, SameDocument, Kept, s, t
<1>13. CASE Link(i)
  <2>1. /\ s.pc = "scenario" /\ t.pc = "author" /\ t.ix = s.ix
        /\ SameDocument(s, t) /\ Flushes(s, t) /\ t.dropped = s.dropped /\ rows' = rows
        /\ t.links = {r \in Requests(t.flushed \cup (rows \ t.dropped)) \cup Abroad :
                         r.key[1] \in s.payload.scenarios[s.ix].names}
    <3>1. /\ s.pc = "scenario" /\ t.pc = "author" /\ Flushes(s, t)
          /\ t.links = {r \in Requests(t.flushed \cup (rows \ t.dropped)) \cup Abroad :
                         r.key[1] \in s.payload.scenarios[s.ix].names}
          /\ Keeps(s, t, {"flushed", "added", "stale", "pc", "ref", "links"})
      BY <1>1, <1>2, <1>13, LinkDoes DEF Scenario
    <3> QED BY <1>13, <3>1 DEF Keeps, Fields, SameDocument, Link, Local
  <2> HIDE DEF s, t
  <2>2. /\ Mine(t, rows') = Mine(s, rows)
        /\ Mine(t, rows') = t.flushed \cup (rows \ t.dropped)
    BY <2>1 DEF Mine, Flushes
  <2>3. t.links = LinksFor(s.payload, s.ix, Mine(s, rows))
    BY <2>1, <2>2 DEF LinksFor
  <2> QED BY <2>1, <2>2, <2>3 DEF Progress, SameDocument, Kept, s, t
<1>14. CASE AddScenario(i)
  <2>1. /\ s.pc = "author" /\ t.pc = "scenario" /\ t.ix = s.ix + 1
        /\ t.added = s.added \cup
             {ScenarioRow(s.payload.scenarios[s.ix].code, s.number, s.ix, s.links)}
        /\ SameDocument(s, t) /\ t.flushed = s.flushed /\ t.dropped = s.dropped /\ rows' = rows
    BY <1>1, <1>14, AddScenarioDoes DEF Keeps, Fields, SameDocument, AddScenario, Local, Scenario
  <2> HIDE DEF s, t
  <2>2. s.payload \in Payloads /\ s.ix <= Len(s.payload.scenarios)
    BY <1>1, <2>1 DEF IsTyped
  <2>3. s.ix \in DOMAIN s.payload.scenarios
    BY <1>1, <2>2, DocumentIs
  <2>4. /\ RequestsAre(s.payload, s.number, Placed(s.payload), Mine(s, rows))
        /\ Scenarios(Mine(s, rows)) =
             Kept(s) \cup ScenariosFrom(s.payload, s.number, s.ix, Mine(s, rows))
        /\ s.links = LinksFor(s.payload, s.ix, Mine(s, rows))
    BY <2>1 DEF Progress, s
  <2>5. Mine(t, rows') = WithScenario(s.payload, s.number, s.ix, Mine(s, rows))
    BY <2>1, <2>4 DEF Mine, WithScenario, RowFor
  <2>6. /\ RequestsAre(s.payload, s.number, Placed(s.payload), Mine(t, rows'))
        /\ Scenarios(Mine(t, rows')) =
             Kept(s) \cup ScenariosFrom(s.payload, s.number, s.ix + 1, Mine(t, rows'))
    <3> DEFINE row == RowFor(s.payload, s.number, s.ix, Mine(s, rows))
    <3>1. /\ Requests(Mine(t, rows')) = Requests(Mine(s, rows))
          /\ Scenarios(Mine(t, rows')) = Scenarios(Mine(s, rows)) \cup {row}
          /\ ScenariosFrom(s.payload, s.number, s.ix + 1, Mine(t, rows')) =
               ScenariosFrom(s.payload, s.number, s.ix, Mine(s, rows)) \cup {row}
      BY <2>2, <2>3, <2>5, OneMoreScenario
    <3> QED BY <2>4, <3>1 DEF RequestsAre
  <2> QED BY <2>1, <2>6 DEF Progress, SameDocument, Kept, t
<1>15. CASE Finish(i)
  BY <1>1, <1>2, <1>15, FinishDoes
<1> QED BY <1>3, <1>4, <1>5, <1>6, <1>7, <1>8, <1>9, <1>10, <1>11, <1>12, <1>13, <1>14, <1>15
        DEF Step

LEMMA ProgressNext == TypesInv /\ AloneInv /\ ProgressInv /\ [Next]_vars => ProgressInv'
<1> SUFFICES ASSUME TypesInv, AloneInv, ProgressInv, [Next]_vars PROVE ProgressInv' OBVIOUS
<1>1. CASE SetDefault
  BY <1>1 DEF SetDefault, ProgressInv, Open
<1>2. CASE UNCHANGED vars
  BY <1>2 DEF vars, ProgressInv, Open
<1>3. ASSUME NEW i \in Importers, Begin(i) PROVE ProgressInv'
  <2>1. /\ ~Open(i) /\ session'[i].pc = "purge" /\ rows' = rows
        /\ session'[i].before = rows /\ session'[i].ix = 1
        /\ session'[i].added = {} /\ session'[i].flushed = {} /\ session'[i].dropped = {}
    BY <1>3, BeginDoes DEF TypesInv
  <2>2. Progress(session'[i], rows')
    BY <2>1 DEF Progress
  <2>3. ASSUME NEW j \in Importers \ {i}, Open(j)' PROVE ~session'[j].alone
    <3>1. session'[j].pc = session[j].pc /\ session'[j].alone = (session[j].alone /\ ~Open(j))
      BY <1>3, BeginSessions DEF TypesInv, Fields
    <3> QED BY <2>3, <3>1 DEF Open
  <2> QED BY <2>2, <2>3 DEF ProgressInv
<1>4. ASSUME NEW i \in Importers, Step(i) \/ Crash(i) PROVE ProgressInv'
  <2>1. PICK t : Turns(i, t)
    BY <1>4, Kinds DEF Quiet, Misses, Commits, TypesInv
  <2>2. /\ session'[i] = t /\ t.alone = session[i].alone /\ Open(i)
        /\ \A j \in Importers \ {i} : session'[j] = session[j]
    BY <2>1, BecomesShape DEF TypesInv, Turns, SameBeginning
  <2>3. ASSUME NEW j \in Importers \ {i}, Open(j)' PROVE ~session'[j].alone
    BY <2>2, <2>3 DEF AloneInv, NotAlone, Open
  <2>4. ASSUME Open(i)', session'[i].alone PROVE Progress(session'[i], rows')
    BY <1>4, <2>2, <2>4, StepProgress DEF ProgressInv, Open
  <2> QED BY <2>3, <2>4 DEF ProgressInv
<1>5. CASE Elsewhere
  BY <1>5, ElsewhereSame DEF ProgressInv, Open, TypesInv, Shape
<1> QED BY <1>1, <1>2, <1>3, <1>4, <1>5 DEF Next, Elsewhere

-----------------------------------------------------------------------------
(* What the API shows of such rows.                                        *)
Shown(r, set) ==
  [code |-> r.key[1], names |-> {q.key[1] : q \in r.links \cap (set \cup Abroad)}]

Wanted(p) ==
  {[code |-> x.code,
    names |-> x.names \cap ({p.requests[n].project : n \in Placed(p)}
                           \cup {r.key[1] : r \in Abroad})]
     : x \in {p.scenarios[n] : n \in DOMAIN p.scenarios}}

LEMMA RequestsShown ==
  ASSUME NEW p, NEW number, NEW placed, NEW bus, NEW set,
         Requests(set) = RowsAt(p, number, placed, bus)
  PROVE  ShownRequests(set) = {<<p.requests[m].project, bus[m]>> : m \in placed}
<1>1. \A m : RequestRow(p.requests[m].project, bus[m], number, m).key =
               <<p.requests[m].project, bus[m]>>
  BY DEF RequestRow
<1> DEFINE row(m) == RequestRow(p.requests[m].project, bus[m], number, m)
<1>2. ShownRequests(set) = {row(m).key : m \in placed}
  BY DEF ShownRequests, RowsAt
<1> HIDE DEF row
<1>3. \A m : row(m).key = <<p.requests[m].project, bus[m]>>
  BY <1>1 DEF row
<1> QED BY <1>2, <1>3

(* The scenario of the document, with the requests there are. *)
LEMMA NewScenarioShown ==
  ASSUME NEW p, NEW number, NEW bus, NEW set, NEW m,
         Requests(set) = RowsAt(p, number, Placed(p), bus)
  PROVE  Shown(RowFor(p, number, m, set), set) =
           [code |-> p.scenarios[m].code,
            names |-> p.scenarios[m].names \cap ({p.requests[n].project : n \in Placed(p)}
                                                \cup {r.key[1] : r \in Abroad})]
<1> DEFINE row == RowFor(p, number, m, set)
<1>1. row.key[1] = p.scenarios[m].code /\ row.links = LinksFor(p, m, set)
  BY DEF RowFor, ScenarioRow
<1>2. \A n : RequestRow(p.requests[n].project, bus[n], number, n).key[1] = p.requests[n].project
  BY DEF RequestRow
<1>3. {q.key[1] : q \in Requests(set)} = {p.requests[n].project : n \in Placed(p)}
  BY <1>2 DEF RowsAt
<1>4. LinksFor(p, m, set) \cap (set \cup Abroad) = LinksFor(p, m, set)
  BY DEF LinksFor, Requests
<1>5. {q.key[1] : q \in LinksFor(p, m, set)} =
        p.scenarios[m].names \cap ({q.key[1] : q \in Requests(set)} \cup {r.key[1] : r \in Abroad})
  BY DEF LinksFor
<1> HIDE DEF row
<1> QED BY <1>1, <1>3, <1>4, <1>5 DEF Shown, row

(* The scenario that was kept links to nothing of this import. *)
LEMMA KeptShown ==
  ASSUME NEW p, NEW number \in Nat, NEW n, NEW bus, NEW set, NEW kept,
         \A r \in set : IsRow(r),
         Requests(set) = RowsAt(p, number, Placed(p), bus),
         Scenarios(set) = kept \cup ScenariosFrom(p, number, n, set),
         NEW r \in kept, LinksUpTo(r.links, number - 1)
  PROVE  Shown(r, set) = Shown(r, kept)
<1>1. \A q \in Requests(set) \cup ScenariosFrom(p, number, n, set) : q.from = number
  BY DEF RowsAt, RequestRow, ScenariosFrom, ScenarioRow
<1>2. \A q \in set : q \in kept \/ q.from = number
  BY <1>1 DEF Requests, Scenarios, IsRow
<1>3. \A q \in r.links : q \in Abroad \/ q.from # number
  BY DEF LinksUpTo
<1>4. kept \subseteq set
  BY DEF Scenarios
<1>5. r.links \cap (set \cup Abroad) = r.links \cap (kept \cup Abroad)
  BY <1>2, <1>3, <1>4
<1> QED BY <1>5 DEF Shown

LEMMA ScenariosShown ==
  ASSUME NEW p \in Payloads, NEW number \in Nat, NEW n \in Nat, ~(n <= Len(p.scenarios)),
         NEW bus, NEW set, NEW kept,
         \A r \in set : IsRow(r),
         Requests(set) = RowsAt(p, number, Placed(p), bus),
         Scenarios(set) = kept \cup ScenariosFrom(p, number, n, set),
         \A r \in kept : LinksUpTo(r.links, number - 1)
  PROVE  ShownScenarios(set) = Wanted(p) \cup ShownScenarios(kept)
<1>1. DOMAIN p.scenarios = 1..Len(p.scenarios) /\ Len(p.scenarios) \in Nat
  BY DocumentIs
<1>2. {k \in DOMAIN p.scenarios : k < n} = DOMAIN p.scenarios
  BY <1>1
<1>3. ScenariosFrom(p, number, n, set) = {RowFor(p, number, m, set) : m \in DOMAIN p.scenarios}
  BY <1>2 DEF ScenariosFrom, RowFor
<1>4. {Shown(r, set) : r \in ScenariosFrom(p, number, n, set)} = Wanted(p)
  <2>1. {Shown(r, set) : r \in ScenariosFrom(p, number, n, set)} =
          {Shown(RowFor(p, number, m, set), set) : m \in DOMAIN p.scenarios}
    BY <1>3
  <2>2. \A m : Shown(RowFor(p, number, m, set), set) =
           [code |-> p.scenarios[m].code,
            names |-> p.scenarios[m].names \cap ({p.requests[k].project : k \in Placed(p)}
                                                \cup {r.key[1] : r \in Abroad})]
    BY NewScenarioShown
  <2> QED BY <2>1, <2>2 DEF Wanted
<1>5. \A r \in kept : Shown(r, set) = Shown(r, kept)
  BY KeptShown
<1>6. Scenarios(kept) = kept
  BY DEF Scenarios
<1>7. ShownScenarios(set) = {Shown(r, set) : r \in Scenarios(set)}
      /\ ShownScenarios(kept) = {Shown(r, kept) : r \in Scenarios(kept)}
  BY DEF ShownScenarios, Shown
<1> QED BY <1>4, <1>5, <1>6, <1>7

SuccessInv == TypesInv /\ AloneInv /\ FreshInv /\ ProgressInv

LEMMA SuccessAlways == Spec => []SuccessInv
<1>1. Init => SuccessInv
  BY TypesInit, AloneInit, FreshInit DEF SuccessInv, ProgressInv, Open, Init, Idle
<1>2. SuccessInv /\ [Next]_vars => SuccessInv'
  BY TypesNext, AloneNext, FreshNext, ProgressNext DEF SuccessInv
<1> QED BY <1>1, <1>2, PTL DEF Spec

(* Only the last step of an import ends it well. *)
LEMMA DoneByFinish ==
  ASSUME SuccessInv, [Next]_vars, NEW i \in Importers, Ends(i, "done")
  PROVE  Finish(i)
<1> DEFINE s == session[i]
           t == session'[i]
<1>1. Open(i) /\ t.pc = "done" /\ s.pc # "done" /\ Shape /\ s.stale \subseteq Buses
  BY DEF Ends, Open, SuccessInv, TypesInv, IsTyped
<1>2. CASE SetDefault \/ UNCHANGED vars \/ Elsewhere
  BY <1>1, <1>2, ElsewhereSame DEF SetDefault, vars, Shape
<1>3. ASSUME NEW j \in Importers, Begin(j) PROVE FALSE
  <2>1. j # i
    BY <1>1, <1>3 DEF Begin
  <2>2. session'[i].pc = session[i].pc
    <3>1. "pc" \in Fields \ {"alone"}
      BY DEF Fields
    <3>2. \A f \in Fields \ {"alone"} : session'[i][f] = session[i][f]
      BY <1>1, <1>3, <2>1, BeginSessions
    <3> QED BY <3>1, <3>2
  <2> QED BY <1>1, <2>2
<1>4. ASSUME NEW j \in Importers, Step(j) \/ Crash(j) PROVE j = i
  BY <1>1, <1>4, Kinds, BecomesShape DEF Quiet, Misses, Commits, Turns
<1>5. CASE Step(i) \/ Crash(i)
  <2>1. CASE PurgeScenarios(i) \/ PurgeRequests(i) \/ Purged(i)
    BY <1>1, <2>1, PurgeScenariosDoes, PurgeRequestsDoes, PurgedDoes
  <2>2. CASE Locate(i) \/ RefKnown(i)
    BY <1>1, <2>2, LocateDoes, RefKnownDoes DEF Keeps, Fields
  <2>3. CASE LocateRaises(i) \/ AddRaises(i) \/ FlushRaises(i) \/ Crash(i)
    BY <1>1, <2>3, FailsDoes DEF LocateRaises, AddRaises, FlushRaises, Crash, Fail
  <2>4. CASE RefSelect(i) \/ RefCreate(i)
    BY <1>1, <2>4, RefSelectDoes, RefCreateDoes DEF Keeps, Fields
  <2>5. CASE AddRequest(i) \/ FlushRequests(i) \/ AddScenario(i)
    BY <1>1, <2>5, AddRequestDoes, FlushRequestsDoes, AddScenarioDoes
  <2>6. CASE Link(i)
    <3>1. t.pc \in {"author", "failed"}
      BY <1>1, <2>6, LinkDoes
    <3> QED BY <1>1, <3>1
  <2> QED BY <1>5, <2>1, <2>2, <2>3, <2>4, <2>5, <2>6 DEF Step
<1> QED BY <1>2, <1>3, <1>4, <1>5 DEF Next, Elsewhere

(* What SuccessReplaces says of the session that ends.                     *)
ReplacedBy(s, set) ==
  \E bus \in [Placed(s.payload) -> Buses] :
    /\ \A n \in Placed(s.payload) : bus[n] \in BusesFor(s.payload.requests[n], s.payload.distance)
    /\ ShownRequests(set) = {<<s.payload.requests[n].project, bus[n]>> : n \in Placed(s.payload)}
    /\ ShownScenarios(set) = Wanted(s.payload) \cup ShownScenarios(Kept(s))

LEMMA FinishReplaces ==
  ASSUME SuccessInv, NEW i \in Importers, Finish(i), session[i].alone
  PROVE  ReplacedBy(session[i], rows')
<1> DEFINE s == session[i]
           d == s.payload
<1>1. /\ Shape /\ IsTyped(s) /\ s.stale \subseteq Buses /\ FreshSession(s, imports)
      /\ (\A r \in rows : IsRow(r)) /\ imports \in Nat
  BY BoundsAssumption DEF SuccessInv, TypesInv, IsTyped, FreshInv
<1>2. s.pc = "scenario" /\ ~(s.ix <= Len(d.scenarios)) /\ rows' = Mine(s, rows)
  BY <1>1, FinishDoes DEF Mine
<1>3. Open(i) /\ d \in Payloads /\ s.ix \in Nat /\ s.number \in Nat
  BY <1>1, <1>2 DEF Open, IsTyped
<1>4. \A r \in rows' : IsRow(r)
  BY <1>1, <1>2 DEF Mine, IsTyped
<1>5. /\ RequestsAre(d, s.number, Placed(d), rows')
      /\ Scenarios(rows') = Kept(s) \cup ScenariosFrom(d, s.number, s.ix, rows')
  BY <1>2, <1>3 DEF SuccessInv, ProgressInv, Progress
<1>6. \A r \in Kept(s) : LinksUpTo(r.links, s.number - 1)
  BY <1>1, <1>2 DEF FreshSession, UpTo, Kept, Scenarios
<1>7. PICK bus \in BusOfEach(d, Placed(d)) : Requests(rows') = RowsAt(d, s.number, Placed(d), bus)
  BY <1>5 DEF RequestsAre
<1> HIDE DEF s, d
<1>8. ShownRequests(rows') = {<<d.requests[m].project, bus[m]>> : m \in Placed(d)}
  BY <1>7, RequestsShown
<1>9. ShownScenarios(rows') = Wanted(d) \cup ShownScenarios(Kept(s))
  <2> DEFINE number == s.number
             n == s.ix
             kept == Kept(s)
             set == rows'
  <2>1. /\ d \in Payloads /\ number \in Nat /\ n \in Nat /\ ~(n <= Len(d.scenarios))
        /\ \A r \in set : IsRow(r)
        /\ Requests(set) = RowsAt(d, number, Placed(d), bus)
        /\ Scenarios(set) = kept \cup ScenariosFrom(d, number, n, set)
        /\ \A r \in kept : LinksUpTo(r.links, number - 1)
    BY <1>2, <1>3, <1>4, <1>5, <1>6, <1>7 DEF d
  <2> HIDE DEF number, n, kept, set
  <2>2. ShownScenarios(set) = Wanted(d) \cup ShownScenarios(kept)
    BY <2>1, ScenariosShown
  <2> QED BY <2>2 DEF kept, set
<1> QED BY <1>7, <1>8, <1>9 DEF ReplacedBy, BusOfEach, s, d

(* An import nobody interfered with that ends well has replaced the rows   *)
(* of the network by those of its document, whatever was there and         *)
(* however often it has committed on its way: SuccessReplaces.             *)
THEOREM SuccessReplacesAlways == Spec => SuccessReplaces
<1>1. SuccessInv /\ [Next]_vars => Replaces
  <2> SUFFICES ASSUME SuccessInv, [Next]_vars,
                      NEW i \in Importers, Ends(i, "done"), session[i].alone
               PROVE  ReplacedBy(session[i], rows')
    BY DEF Replaces, ReplacedBy, Placed, Kept, Wanted
  <2> QED BY DoneByFinish, FinishReplaces
<1> QED BY <1>1, SuccessAlways, PTL DEF Spec, SuccessReplaces

=============================================================================

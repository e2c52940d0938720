------------------------- MODULE ResponseCacheProofs -------------------------
(***************************************************************************)
(* A response cached under the stamp of a network with requests is never   *)
(* older than that stamp, for any number of clients and of stamps.         *)
(***************************************************************************)
EXTENDS ResponseCache, TLAPS

(* Every tag in use has been given; a request under way has a key, and has *)
(* its response just before it stores it.                                  *)
Given ==
  /\ stamp <= clock
  /\ import.last <= clock
  /\ \A k \in Stamps : redis[k] # None => k <= clock
  /\ \A b \in Browsers :
       /\ browser[b].key <= clock
       /\ browser[b].etag <= clock
       /\ browser[b].pc # "idle" => browser[b].key # None
       /\ browser[b].pc = "set" <=> browser[b].got # None

(* What an import is about to commit has a tag that nobody has seen. *)
NewTag ==
  import.dirty /\ import.last # Empty =>
    /\ stamp < import.last
    /\ \A k \in Stamps : redis[k] # None => k < import.last
    /\ \A b \in Browsers :
         /\ browser[b].key < import.last
         /\ browser[b].etag < import.last

(* What there is under the current tag is of the current version. *)
Current ==
  stamp # Empty =>
    /\ redis[stamp] # None => redis[stamp] >= version
    /\ \A b \in Browsers :
         /\ browser[b].key = stamp /\ browser[b].got # None => browser[b].got >= version
         /\ browser[b].etag = stamp => browser[b].copy >= version

(* What a request under way finds, or is about to find, under its key is   *)
(* not older than the moment it read the key.                              *)
InFlight ==
  \A b \in Browsers :
    /\ browser[b].since <= version
    /\ browser[b].key \notin {None, Empty} =>
         /\ redis[browser[b].key] # None => redis[browser[b].key] >= browser[b].since
         /\ \A c \in Browsers :
              browser[c].key = browser[b].key /\ browser[c].got # None
                => browser[c].got >= browser[b].since

Inv == TypeOK /\ Given /\ NewTag /\ Current /\ InFlight /\ Fresh

-----------------------------------------------------------------------------
LEMMA Initially == Init => Inv
  BY MaxClockAssumption
     DEF Init, Inv, TypeOK, Given, NewTag, Current, InFlight, Fresh, NoImport, NothingFetched,
         ImportState, BrowserState, Versions, Stamps, Empty, None

(* An import changes neither redis nor what the browsers have: what is     *)
(* current changes only together with the stamp, to a tag that is new.     *)
LEMMA ImportsKeepInv == Inv /\ ImportStep => Inv'
<1> SUFFICES ASSUME Inv, ImportStep PROVE Inv'
  OBVIOUS
<1> USE MaxClockAssumption DEF Inv, Stamps, Empty, None
<1>1. CASE Purge
  BY <1>1 DEF Purge, TypeOK, Given, NewTag, Current, InFlight, Fresh, ImportState
<1>2. CASE Insert
  <2>0. /\ clock' = clock + 1 /\ UNCHANGED <<version, stamp, redis, browser>>
        /\ import' = [import EXCEPT !.dirty = TRUE, !.last = clock + 1]
        /\ clock < MaxClock
    BY <1>2 DEF Insert
  <2>a. clock \in Nat /\ clock' \in Stamps /\ import \in ImportState
    BY <2>0 DEF TypeOK
  <2>b. import' \in ImportState /\ import'.dirty = TRUE /\ import'.last = clock + 1
    BY <2>0, <2>a DEF ImportState
  <2>1. TypeOK'
    BY <2>0, <2>a, <2>b DEF TypeOK
  <2>2. Given'
    BY <1>2 DEF Insert, TypeOK, Given, ImportState, BrowserState
  <2>3. NewTag'
    <3>1. /\ stamp \in Nat
          /\ \A b \in Browsers : browser[b].key \in Int /\ browser[b].etag \in Int
      BY DEF TypeOK, BrowserState
    <3> QED
      BY <2>0, <2>a, <2>b, <3>1 DEF Given, NewTag
  <2>4. (Current /\ InFlight /\ Fresh)'
    BY <1>2 DEF Insert, Current, InFlight, Fresh
  <2> QED
    BY <2>1, <2>2, <2>3, <2>4
<1>3. ASSUME CommitTable, import'.open \in BOOLEAN, import'.dirty = FALSE,
             import' \in ImportState, import'.last <= clock
      PROVE  Inv'
  <2>1. CASE ~import.dirty
    BY <1>3, <2>1 DEF CommitTable, TypeOK, Given, NewTag, Current, InFlight, Fresh
  <2>2. CASE import.dirty
    <3>1. version' = version + 1 /\ stamp' = import.last /\ UNCHANGED <<clock, redis, browser>>
      BY <1>3, <2>2 DEF CommitTable
    <3>2. (TypeOK /\ Given /\ NewTag)'
      BY <1>3, <3>1 DEF TypeOK, Given, NewTag, ImportState
    <3>3. Current'
      BY <2>2, <3>1 DEF TypeOK, NewTag, Current, ImportState, BrowserState
    <3>4. InFlight'
      BY <3>1 DEF TypeOK, InFlight, BrowserState
    <3>5. Fresh'
      BY <3>1 DEF Fresh
    <3> QED
      BY <3>2, <3>3, <3>4, <3>5
  <2> QED
    BY <2>1, <2>2 DEF TypeOK, ImportState
<1>4. CASE GetOrCreate
  BY <1>3, <1>4 DEF GetOrCreate, CommitTable, TypeOK, Given, ImportState
<1>5. CASE CommitImport
  BY <1>3, <1>5 DEF CommitImport, CommitTable, NoImport, TypeOK, Given, ImportState
<1>6. CASE Rollback
  BY <1>6 DEF Rollback, NoImport, TypeOK, Given, NewTag, Current, InFlight, Fresh, ImportState
<1> QED
  BY <1>1, <1>2, <1>4, <1>5, <1>6 DEF ImportStep

(* A response that a request may be given: not older than when it, or      *)
(* another request, read the key, nor, if its key is the current one, than *)
(* the current version.                                                    *)
Due(b, content) ==
  /\ content \in Nat
  /\ browser[b].key # Empty =>
       \A c \in Browsers : browser[c].key = browser[b].key => content >= browser[c].since
  /\ browser[b].key # Empty /\ browser[b].key = stamp => content >= version

LEMMA RespondingKeepsInv ==
  ASSUME Inv, NEW b \in Browsers, NEW content, Due(b, content),
         browser[b].pc # "idle", Respond(b, content), UNCHANGED database,
         \/ UNCHANGED redis
         \/ redis' = [redis EXCEPT ![browser[b].key] = content]
  PROVE  Inv'
<1> USE MaxClockAssumption DEF Stamps, Empty, None
<1>1. /\ UNCHANGED <<clock, version, stamp, import>>
      /\ browser[b].key \in Stamps
      /\ browser[b].since \in Nat
  BY DEF Inv, TypeOK, Given, BrowserState, database
<1>2. /\ browser'[b] = [pc |-> "idle", key |-> None, since |-> 0, got |-> None,
                        etag |-> browser[b].key, copy |-> content, asOf |-> browser[b].since]
      /\ \A c \in Browsers : c # b => browser'[c] = browser[c]
      /\ DOMAIN browser' = Browsers
  BY DEF Inv, TypeOK, Respond
<1>3. \A k \in Stamps : \/ redis'[k] = redis[k]
                        \/ k = browser[b].key /\ redis'[k] = content
  BY <1>1 DEF Inv, TypeOK
<1>4. TypeOK'
  <2>1. redis' \in [Stamps -> Versions]
    BY <1>1 DEF Inv, TypeOK, Versions, Due
  <2>2. browser' \in [Browsers -> BrowserState]
    BY <1>1 DEF Inv, TypeOK, Respond, Due, BrowserState, Versions
  <2> QED
    BY <1>1, <2>1, <2>2 DEF Inv, TypeOK
<1>5. Given'
  BY <1>1, <1>2, <1>3 DEF Inv, TypeOK, Given
<1>6. NewTag'
  <2> SUFFICES ASSUME import.dirty, import.last # Empty
               PROVE  /\ stamp < import.last
                      /\ \A k \in Stamps : redis'[k] # None => k < import.last
                      /\ \A c \in Browsers : /\ browser'[c].key < import.last
                                            /\ browser'[c].etag < import.last
    BY <1>1 DEF NewTag
  <2>1. /\ stamp < import.last
        /\ \A k \in Stamps : redis[k] # None => k < import.last
        /\ \A c \in Browsers : /\ browser[c].key < import.last
                              /\ browser[c].etag < import.last
    BY DEF Inv, NewTag
  <2>2. import.last \in Nat /\ import.last # 0
    BY DEF Inv, TypeOK, ImportState
  <2>3. \A k \in Stamps : redis'[k] # None => k < import.last
    BY <1>3, <2>1
  <2>4. \A c \in Browsers : browser'[c].key < import.last /\ browser'[c].etag < import.last
    BY <1>2, <2>1, <2>2
  <2> QED
    BY <2>1, <2>3, <2>4
<1>7. Current'
  BY <1>1, <1>2, <1>3 DEF Inv, TypeOK, Current, Due
<1>8. InFlight'
  <2> SUFFICES ASSUME NEW c \in Browsers
               PROVE  /\ browser'[c].since <= version
                      /\ browser'[c].key \notin {None, Empty} =>
                           /\ redis'[browser'[c].key] # None
                                => redis'[browser'[c].key] >= browser'[c].since
                           /\ \A d \in Browsers :
                                browser'[d].key = browser'[c].key /\ browser'[d].got # None
                                  => browser'[d].got >= browser'[c].since
    BY <1>1 DEF InFlight
  <2>1. CASE c = b
    BY <1>2, <2>1 DEF Inv, TypeOK
  <2>2. CASE c # b
    <3>1. browser'[c] = browser[c] /\ browser[c] \in BrowserState
      BY <1>2, <2>2 DEF Inv, TypeOK
    <3>2. browser[c].since <= version
      BY DEF Inv, InFlight
    <3>3. ASSUME browser[c].key \notin {None, Empty}, redis'[browser[c].key] # None
          PROVE  redis'[browser[c].key] >= browser[c].since
      BY <1>3, <3>1, <3>3 DEF Inv, InFlight, Due, BrowserState
    <3>4. ASSUME browser[c].key \notin {None, Empty}, NEW d \in Browsers,
                 browser'[d].key = browser[c].key, browser'[d].got # None
          PROVE  browser'[d].got >= browser[c].since
      BY <1>2, <3>4 DEF Inv, InFlight
    <3> QED
      BY <3>1, <3>2, <3>3, <3>4
  <2> QED
    BY <2>1, <2>2
<1>9. Fresh'
  BY <1>1, <1>2 DEF Inv, Fresh, Due
<1> QED
  BY <1>4, <1>5, <1>6, <1>7, <1>8, <1>9 DEF Inv

LEMMA RequestsKeepInv == ASSUME Inv, NEW b \in Browsers, RequestStep(b) PROVE Inv'
<1> USE MaxClockAssumption DEF Stamps, Empty, None
<1>0. /\ clock \in Nat /\ version \in Nat /\ stamp \in Stamps
      /\ DOMAIN browser = Browsers
      /\ \A c \in Browsers : browser[c] \in BrowserState
  BY DEF Inv, TypeOK
<1>1. CASE Revalidate(b)
  <2>1. /\ browser' = [browser EXCEPT ![b].asOf = version]
        /\ browser[b].etag = stamp
        /\ UNCHANGED <<clock, version, stamp, redis, import>>
    BY <1>1 DEF Revalidate, NotModified, database
  <2>2. browser' \in [Browsers -> BrowserState]
    BY <1>0, <2>1 DEF BrowserState
  <2>3. \A c \in Browsers :
          /\ browser'[c].pc = browser[c].pc /\ browser'[c].key = browser[c].key
          /\ browser'[c].since = browser[c].since /\ browser'[c].got = browser[c].got
          /\ browser'[c].etag = browser[c].etag /\ browser'[c].copy = browser[c].copy
          /\ \/ browser'[c].asOf = browser[c].asOf
             \/ c = b /\ browser'[c].asOf = version
    BY <1>0, <2>1 DEF BrowserState
  <2>4. (TypeOK /\ Given /\ NewTag /\ Current /\ InFlight)'
    BY <2>1, <2>2, <2>3 DEF Inv, TypeOK, Given, NewTag, Current, InFlight
  <2>5. Fresh'
    BY <2>1, <2>3 DEF Inv, Fresh, Current
  <2> QED
    BY <2>4, <2>5 DEF Inv
<1>2. ASSUME NEW pc \in {"lookup", "compute", "set"},
             NEW key \in Stamps, NEW since \in Nat, NEW got \in {None, version},
             UNCHANGED <<clock, version, stamp, redis, import>>,
             Fetch(b, pc, key, since, got),
             \/ key = stamp /\ since = version
             \/ key = browser[b].key /\ since = browser[b].since,
             pc = "set" <=> got # None
      PROVE  Inv'
  <2>1. browser' \in [Browsers -> BrowserState]
    BY <1>0, <1>2 DEF Fetch, Inv, TypeOK, BrowserState, Versions
  <2>2. \A c \in Browsers :
          /\ c # b => browser'[c] = browser[c]
          /\ browser'[c].etag = browser[c].etag
          /\ browser'[c].copy = browser[c].copy
          /\ browser'[c].asOf = browser[c].asOf
    BY <1>0, <1>2 DEF Fetch
  <2>3. /\ browser'[b].pc = pc /\ browser'[b].key = key
        /\ browser'[b].since = since /\ browser'[b].got = got
    BY <1>0, <1>2 DEF Fetch
  <2>4. (TypeOK /\ Given)'
    BY <1>0, <1>2, <2>1, <2>2, <2>3 DEF Inv, TypeOK, Given
  <2>5. (NewTag /\ Current)'
    <3>1. NewTag'
      BY <1>0, <1>2, <2>2, <2>3 DEF Inv, NewTag
    <3>2. Current'
      BY <1>0, <1>2, <2>2, <2>3 DEF Inv, Current
    <3> QED
      BY <3>1, <3>2
  <2>6. InFlight'
    BY <1>0, <1>2, <2>2, <2>3 DEF Inv, InFlight, Current, BrowserState
  <2>7. Fresh'
    BY <2>2 DEF Inv, Fresh
  <2> QED
    BY <2>4, <2>5, <2>6, <2>7 DEF Inv
<1>0b. /\ browser[b].pc \in {"lookup", "compute"} => browser[b].key \in Stamps
      /\ browser[b].since \in Nat
  BY <1>0 DEF BrowserState, Inv, Given
<1>3. CASE Request(b)
  BY <1>0, <1>2, <1>3 DEF Request, database
<1>4. CASE Miss(b)
  BY <1>0b, <1>2, <1>4 DEF Miss, database
<1>5. CASE Compute(b)
  <2>1. /\ browser[b].key \in Stamps /\ browser[b].since \in Nat
        /\ version \in {None, version} /\ version # None
        /\ UNCHANGED <<clock, version, stamp, redis, import>>
        /\ Fetch(b, "set", browser[b].key, browser[b].since, version)
    BY <1>0, <1>0b, <1>5 DEF Compute, database
  <2> QED
    BY <1>2, <2>1
<1>6. CASE Hit(b)
  <2>1. Due(b, redis[browser[b].key])
    BY <1>0, <1>0b, <1>6 DEF Hit, Due, Inv, TypeOK, Versions, Current, InFlight
  <2> QED
    BY <1>6, <2>1, RespondingKeepsInv DEF Hit
<1>7. CASE Set(b)
  <2>1. Due(b, browser[b].got)
    <3>1. browser[b].got \in Nat /\ browser[b].key \in Stamps
      BY <1>0, <1>7 DEF Set, Inv, Given, BrowserState, Versions
    <3> QED
      BY <3>1 DEF Due, Inv, Current, InFlight
  <2> QED
    BY <1>7, <2>1, RespondingKeepsInv DEF Set, StoreKey, database
<1> QED
  BY <1>1, <1>3, <1>4, <1>5, <1>6, <1>7 DEF RequestStep

LEMMA ExpiryKeepsInv == ASSUME Inv, NEW k \in Stamps, Expire(k) PROVE Inv'
  BY DEF Expire, database, Inv, TypeOK, Versions, Given, NewTag, Current, InFlight, Fresh

LEMMA InvInductive == Inv /\ [Next]_vars => Inv'
<1> SUFFICES ASSUME Inv, [Next]_vars PROVE Inv'
  OBVIOUS
<1>1. CASE ImportStep
  BY <1>1, ImportsKeepInv
<1>2. CASE \E b \in Browsers : RequestStep(b)
  BY <1>2, RequestsKeepInv
<1>3. CASE \E k \in Stamps : Expire(k)
  BY <1>3, ExpiryKeepsInv
<1>4. CASE UNCHANGED vars
  BY <1>4 DEF vars, Inv, TypeOK, Given, NewTag, Current, InFlight, Fresh
<1> QED
  BY <1>1, <1>2, <1>3, <1>4 DEF Next

LEMMA InvAlways == Spec => []Inv
  BY Initially, InvInductive, PTL DEF Spec

-----------------------------------------------------------------------------
(* Type correctness: stamps stay in their range, a request fails nowhere.  *)
THEOREM CacheTypeCorrect == Spec => []TypeOK
  BY InvAlways, PTL DEF Inv

(* A client that is shown a network with requests is shown at least what   *)
(* was committed when its request read the stamp: the endpoints of         *)
(* connections/views.py read max(updated_at) before the cache is asked and *)
(* before the response is computed.                                        *)
THEOREM FreshAlways == Spec => []Fresh
  BY InvAlways, PTL DEF Inv
=============================================================================

---------------------------- MODULE ResponseCache ----------------------------
(***************************************************************************)
(* The cached GET endpoints of connections/views.py over                   *)
(* cached_json_response of cache/dependencies.py, while an import replaces *)
(* a network's connection requests.                                        *)
(*                                                                         *)
(* A response is cached in redis, and tagged, under a key made of the URL  *)
(* and of max(updated_at) over the network's requests.  One URL of one     *)
(* network is modelled, and imports of the network that do not overlap.    *)
(* A version numbers what the commits leave in the table.  A stamp is an   *)
(* updated_at, given when rows are flushed, which is before they are       *)
(* committed; Empty is the key of a network without requests.              *)
(***************************************************************************)
EXTENDS Integers

CONSTANTS
  Browsers,   (* clients, each with one request at a time                   *)
  MaxClock    (* bound on the stamps given                                  *)

ASSUME MaxClockAssumption == MaxClock \in Nat

None == -1
Empty == 0
Stamps == 0..MaxClock

VARIABLES
  clock,     (* the last stamp given                                        *)
  version,   (* changes committed so far                                    *)
  stamp,     (* max(updated_at) as committed                                *)
  redis,     (* [Stamps -> Versions]: the version cached under a key        *)
  import,    (* ImportState                                                 *)
  browser    (* [Browsers -> BrowserState]                                  *)

database == <<clock, version, stamp, import>>
vars == <<clock, version, stamp, redis, import, browser>>

Versions == Nat \cup {None}

(* last is max(updated_at) as the import's transaction sees it, dirty that *)
(* it has changed something since its last commit.                         *)
ImportState == [open: BOOLEAN, dirty: BOOLEAN, last: Stamps]
NoImport == [open |-> FALSE, dirty |-> FALSE, last |-> Empty]

(* etag and copy are the browser's cached response, asOf the version there *)
(* was when the request for it, or its revalidation, read the stamp; since *)
(* is the version there was when the request under way read it.            *)
BrowserState == [pc: {"idle", "lookup", "compute", "set"}, key: Stamps \cup {None},
                 since: Nat, got: Versions, etag: Stamps \cup {None},
                 copy: Versions, asOf: Nat]
NothingFetched == [pc |-> "idle", key |-> None, since |-> 0, got |-> None,
                   etag |-> None, copy |-> None, asOf |-> 0]

TypeOK ==
  /\ clock \in Stamps
  /\ version \in Nat
  /\ stamp \in Stamps
  /\ redis \in [Stamps -> Versions]
  /\ import \in ImportState
  /\ browser \in [Browsers -> BrowserState]

Init ==
  /\ clock = 0
  /\ version = 0
  /\ stamp = Empty
  /\ redis = [k \in Stamps |-> None]
  /\ import = NoImport
  /\ browser = [b \in Browsers |-> NothingFetched]

-----------------------------------------------------------------------------
(* An import.                                                              *)

Purge ==
  /\ ~import.open
  /\ import' = [open |-> TRUE, dirty |-> stamp # Empty, last |-> Empty]
  /\ UNCHANGED <<clock, version, stamp, redis, browser>>

Insert ==
  /\ import.open
  /\ clock < MaxClock
  /\ clock' = clock + 1
  /\ import' = [import EXCEPT !.dirty = TRUE, !.last = clock + 1]
  /\ UNCHANGED <<version, stamp, redis, browser>>

CommitTable ==
  /\ import.open
  /\ version' = IF import.dirty THEN version + 1 ELSE version
  /\ stamp' = IF import.dirty THEN import.last ELSE stamp
  /\ UNCHANGED <<clock, redis, browser>>

(* get_or_create commits the import's session as it is when it adds a row  *)
(* of reference data, so readers see the purge, then some of the requests. *)
GetOrCreate ==
  /\ CommitTable
  /\ import' = [import EXCEPT !.dirty = FALSE]

CommitImport ==
  /\ CommitTable
  /\ import' = NoImport

(* An import that fails stays as far as it has been committed. *)
Rollback ==
  /\ import.open
  /\ import' = NoImport
  /\ UNCHANGED <<clock, version, stamp, redis, browser>>

-----------------------------------------------------------------------------
(* A request.                                                              *)

(* The comparison of If-None-Match with the tag made of the stamp. *)
NotModified(b) == browser[b].etag = stamp

Revalidate(b) ==
  /\ browser[b].pc = "idle"
  /\ NotModified(b)
  /\ browser' = [browser EXCEPT ![b].asOf = version]
  /\ UNCHANGED <<database, redis>>

(* The request goes on; the browser keeps what it has. *)
Fetch(b, pc, key, since, got) ==
  browser' = [browser EXCEPT ![b] =
                [pc |-> pc, key |-> key, since |-> since, got |-> got,
                 etag |-> @.etag, copy |-> @.copy, asOf |-> @.asOf]]

Request(b) ==
  /\ browser[b].pc = "idle"
  /\ ~NotModified(b)
  /\ Fetch(b, "lookup", stamp, version, None)
  /\ UNCHANGED <<database, redis>>

Respond(b, content) ==
  browser' = [browser EXCEPT ![b] =
                [pc |-> "idle", key |-> None, since |-> 0, got |-> None,
                 etag |-> @.key, copy |-> content, asOf |-> @.since]]

Hit(b) ==
  /\ browser[b].pc = "lookup"
  /\ redis[browser[b].key] # None
  /\ Respond(b, redis[browser[b].key])
  /\ UNCHANGED <<database, redis>>

(* Wrong on purpose: redis does not answer, and the request fails for it.  *)
MissRaises(b) ==
  /\ browser[b].pc = "lookup"
  /\ browser' = [browser EXCEPT ![b].pc = "failed"]
  /\ UNCHANGED <<database, redis>>

(* Nothing under the key, or redis does not answer, which is only logged.  *)
Miss(b) ==
  /\ browser[b].pc = "lookup"
  /\ Fetch(b, "compute", browser[b].key, browser[b].since, None)
  /\ UNCHANGED <<database, redis>>

Compute(b) ==
  /\ browser[b].pc = "compute"
  /\ Fetch(b, "set", browser[b].key, browser[b].since, version)
  /\ UNCHANGED <<database, redis>>

(* Wrong on purpose: the key as it is once the response is there. *)
StoreKeyReadLate(b) == stamp

StoreKey(b) == browser[b].key

(* The response is stored under the key read before it was computed, unless *)
(* redis does not answer, and is sent.  It is made of rows whose values     *)
(* serialise (the encoder writes null for what it does not know); one that  *)
(* did not would be sent empty, under the tag all the same.                 *)
Set(b) ==
  /\ browser[b].pc = "set"
  /\ \/ redis' = [redis EXCEPT ![StoreKey(b)] = browser[b].got]
     \/ UNCHANGED redis
  /\ Respond(b, browser[b].got)
  /\ UNCHANGED database

(* After ttl seconds, or under memory pressure. *)
Expire(k) ==
  /\ redis[k] # None
  /\ redis' = [redis EXCEPT ![k] = None]
  /\ UNCHANGED <<database, browser>>

ImportStep == Purge \/ Insert \/ GetOrCreate \/ CommitImport \/ Rollback

RequestStep(b) ==
  \/ Revalidate(b)
  \/ Request(b)
  \/ Hit(b)
  \/ Miss(b)
  \/ Compute(b)
  \/ Set(b)

Next ==
  \/ ImportStep
  \/ \E b \in Browsers : RequestStep(b)
  \/ \E k \in Stamps : Expire(k)

Spec == Init /\ [][Next]_vars

-----------------------------------------------------------------------------
(* What a browser shows of a network with requests is at least as new as   *)
(* what the database held when its request, or its last revalidation, read *)
(* the stamp: no cached response of a tag is older than the commit that    *)
(* made the tag current.  The tag of an empty network comes back with      *)
(* every purge, and is left out.                                           *)
Fresh ==
  \A b \in Browsers :
    browser[b].etag \notin {None, Empty} => browser[b].copy >= browser[b].asOf

=============================================================================

------------------------- MODULE ProgressFeedProofs -------------------------
(***************************************************************************)
(* Proof of the type correctness of ProgressFeed.  It needs to know of a   *)
(* websocket that the answers waiting to be queued are finitely many and   *)
(* that a producer which looks up has a message (Sound).                   *)
(***************************************************************************)
EXTENDS ProgressFeed, FiniteSetTheorems, TLAPS

(* The answers that wait to be put into the queue are finitely many, so    *)
(* they make a sequence; a producer that is looking up has a message.      *)
Sound(k) ==
  /\ \A t \in Tasks : k.ongoing[t] \in {ScenarioOf[t], Unknown, Nobody}
  /\ IsFiniteSet(k.items)
  /\ k.producer # "get" => k.msg \in Message

Good == {k \in SocketState : Sound(k)}

FeedInv == TypeOK /\ socket \in [Sockets -> Good]

LEMMA ObjectType ==
  ASSUME NEW t \in Tasks, NEW st \in States, NEW at \in 0..MaxReports
  PROVE  Object(t, st, at) \in Message
BY DEF Object, Message

LEMMA ClosedIsGood == Closed \in Good /\ [Closed EXCEPT !.open = TRUE] \in Good
<1>1. IsFiniteSet({})
  BY FS_EmptySet
<1>2. 0 \in 0..MaxAsked /\ <<>> \in Seq(Message)
  BY MaxAskedAssumption
<1>3. Closed \in SocketState /\ [Closed EXCEPT !.open = TRUE] \in SocketState
  BY <1>2 DEF Closed, NothingOngoing, SocketState
<1> QED BY <1>1, <1>3 DEF Closed, NothingOngoing, Good, Sound

LEMMA MergeSound ==
  ASSUME NEW k \in Good, NEW found \in SUBSET Tasks
  PROVE  /\ Merge(k.ongoing, found) \in [Tasks -> Scenarios \cup {Unknown, Nobody}]
         /\ \A t \in Tasks : Merge(k.ongoing, found)[t] \in {ScenarioOf[t], Unknown, Nobody}
BY ScenarioOfAssumption DEF Good, Sound, SocketState, Merge

LEMMA MatchGood ==
  ASSUME NEW sockets \in [Sockets -> Good], NEW m \in Message, NEW found \in BOOLEAN
  PROVE  Match(sockets, m, found) \in [Sockets -> Good]
<1> DEFINE seen(x) == IF m.at > 0 /\ x.task = m.task /\ x.at = m.at
                        THEN [x EXCEPT !.matched = found] ELSE x
           queue(h) == [i \in DOMAIN sockets[h].queue |-> seen(sockets[h].queue[i])]
<1>1. \A x \in Message : seen(x) \in Message
  BY DEF Message
<1>2. ASSUME NEW h \in Sockets
      PROVE  [sockets[h] EXCEPT !.queue = queue(h)] \in Good
  <2>1. sockets[h] \in SocketState /\ Sound(sockets[h]) /\ sockets[h].queue \in Seq(Message)
    BY DEF Good, SocketState
  <2>2. queue(h) \in Seq(Message)
    BY <1>1, <2>1
  <2> HIDE DEF queue
  <2>3. [sockets[h] EXCEPT !.queue = queue(h)] \in SocketState
    BY <2>1, <2>2 DEF SocketState
  <2>4. Sound([sockets[h] EXCEPT !.queue = queue(h)])
    BY <2>1 DEF Sound, SocketState
  <2> QED BY <2>3, <2>4 DEF Good
<1>3. Match(sockets, m, found) = [h \in Sockets |-> [sockets[h] EXCEPT !.queue = queue(h)]]
  BY DEF Match
<1> QED BY <1>2, <1>3

LEMMA SentType ==
  ASSUME FeedInv, NEW h \in Sockets, NEW m \in Message, NEW s, Send(h, m, s)
  PROVE  heard' \in [Sockets -> SUBSET Reported]
BY DEF FeedInv, TypeOK, Send, Message, Reported

(* A step that changes one websocket. *)
LEMMA OneSocket ==
  ASSUME FeedInv, NEW h \in Sockets, NEW k \in Good, socket' = [socket EXCEPT ![h] = k],
         UNCHANGED <<backend, rows, monitor, wire>>, heard' \in [Sockets -> SUBSET Reported]
  PROVE  FeedInv'
BY DEF FeedInv, TypeOK, backend, rows, Good

-----------------------------------------------------------------------------
LEMMA FeedInit == Init => FeedInv
<1> SUFFICES ASSUME Init PROVE FeedInv OBVIOUS
<1>1. socket \in [Sockets -> Good] /\ Closed \in SocketState
  BY ClosedIsGood DEF Init, Good
<1>2. 0 \in 0..MaxReports
  BY MaxReportsAssumption
<1>3. socket \in [Sockets -> SocketState]
  BY <1>1 DEF Good
<1> QED BY <1>1, <1>2, <1>3 DEF Init, FeedInv, TypeOK

LEMMA FeedCalculations ==
  ASSUME FeedInv, Calculations
  PROVE  FeedInv'
<1>1. ASSUME NEW t \in Tasks, NEW st \in States, Report(t, st) PROVE FeedInv'
  <2>1. reports[t] + 1 \in 0..MaxReports
    BY <1>1, MaxReportsAssumption DEF FeedInv, TypeOK, Report
  <2>2. Append(wire, Object(t, st, reports[t] + 1)) \in Seq(Message)
    BY <2>1, ObjectType DEF FeedInv, TypeOK
  <2>3. wire' \in Seq(Message)
    BY <1>1, <2>2 DEF FeedInv, TypeOK, Report
  <2>4. /\ meta' \in [Tasks -> States \cup {"none"}]
        /\ reports' \in [Tasks -> 0..MaxReports]
    BY <1>1, <2>1 DEF FeedInv, TypeOK, Report
  <2> QED BY <1>1, <2>3, <2>4 DEF FeedInv, TypeOK, Report, rows
<1>2. ASSUME NEW t \in Tasks, NameRow(t) \/ RowReady(t) \/ RowPending(t) PROVE FeedInv'
  <2>1. ScenarioOf[t] \in Scenarios
    BY ScenarioOfAssumption
  <2>2. named' \in [Scenarios -> Tasks \cup {NoTask}] /\ pending' \subseteq Scenarios
    BY <1>2, <2>1 DEF FeedInv, TypeOK, NameRow, RowReady, RowPending
  <2>3. UNCHANGED <<meta, reports, monitor, wire, socket, heard>>
    BY <1>2 DEF NameRow, RowReady, RowPending, backend
  <2> QED BY <2>2, <2>3 DEF FeedInv, TypeOK
<1> QED BY <1>1, <1>2 DEF Calculations

LEMMA FeedPublish ==
  ASSUME FeedInv, Publish
  PROVE  FeedInv'
<1>1. wire \in Seq(Message) /\ Head(wire) \in Message /\ wire' \in Seq(Message)
  BY DEF FeedInv, TypeOK, Publish
<1>2. ASSUME NEW h \in Sockets
      PROVE  [socket[h] EXCEPT !.queue = Append(@, Head(wire))] \in Good
  <2>1. socket[h] \in SocketState /\ Sound(socket[h]) /\ socket[h].queue \in Seq(Message)
    BY DEF FeedInv, Good, SocketState
  <2>2. Append(socket[h].queue, Head(wire)) \in Seq(Message)
    BY <1>1, <2>1
  <2> QED BY <2>1, <2>2 DEF Good, Sound, SocketState
<1>3. socket' \in [Sockets -> Good]
  BY <1>2 DEF FeedInv, Publish
<1>4. socket' \in [Sockets -> SocketState]
  BY <1>3 DEF Good
<1> QED BY <1>1, <1>3, <1>4 DEF FeedInv, TypeOK, Publish, backend, rows

LEMMA FeedMonitorEnds ==
  ASSUME FeedInv, MonitorEnds
  PROVE  FeedInv'
<1>1. <<>> \in Seq(Message)
  OBVIOUS
<1> QED BY <1>1 DEF FeedInv, TypeOK, MonitorEnds, backend, rows

LEMMA FeedBrowser ==
  ASSUME FeedInv, NEW h \in Sockets, Browser(h) \/ Close(h)
  PROVE  FeedInv'
<1>1. socket[h] \in Good /\ heard \in [Sockets -> SUBSET Reported]
  BY DEF FeedInv, TypeOK
<1>2. CASE Connect(h)
  BY <1>1, <1>2, ClosedIsGood, OneSocket DEF Connect
<1>3. CASE BrowserLeaves(h)
  <2>1. [socket[h] EXCEPT !.gone = TRUE] \in Good
    BY <1>1 DEF Good, Sound, SocketState
  <2> QED BY <1>1, <1>3, <2>1, OneSocket DEF BrowserLeaves
<1>4. CASE Close(h)
  BY <1>1, <1>4, ClosedIsGood, OneSocket DEF Close
<1>5. ASSUME NEW ids \in SUBSET Scenarios, Subscribe(h, ids) PROVE FeedInv'
  <2> DEFINE c == IF ids = {} THEN "receive" ELSE IF SessionBusy(h) THEN "failed" ELSE "query"
             k == [socket[h] EXCEPT !.times = @ + 1, !.ids = ids, !.ongoing = NothingOngoing,
                                    !.found = PendingTasks(ids), !.consumer = c]
  <2>1. socket[h].times + 1 \in 0..MaxAsked
    BY <1>1, <1>5, MaxAskedAssumption DEF Good, SocketState, Subscribe
  <2>2. PendingTasks(ids) \subseteq Tasks
    BY DEF PendingTasks
  <2>3. c \in {"receive", "query", "failed"}
    OBVIOUS
  <2>4. socket' = [socket EXCEPT ![h] = k]
    BY <1>5 DEF Subscribe
  <2> HIDE DEF c
  <2>5. k \in Good
    BY <1>1, <2>1, <2>2, <2>3 DEF Good, Sound, SocketState, NothingOngoing
  <2> QED BY <1>1, <1>5, <2>4, <2>5, OneSocket DEF Subscribe
<1> QED BY <1>2, <1>3, <1>4, <1>5 DEF Browser

LEMMA FeedConsumer ==
  ASSUME FeedInv, NEW h \in Sockets, ConsumerContinues(h)
  PROVE  FeedInv'
<1>1. /\ socket[h] \in SocketState /\ Sound(socket[h]) /\ socket[h] \in Good
      /\ heard \in [Sockets -> SUBSET Reported]
  BY DEF FeedInv, TypeOK, Good
<1>2. CASE ConsumerMaps(h)
  <2> DEFINE known == Merge(socket[h].ongoing, socket[h].found)
             k == [socket[h] EXCEPT !.ongoing = known, !.found = {t \in Tasks : known[t] # Unknown},
                                    !.consumer = "mget"]
  <2>1. socket' = [socket EXCEPT ![h] = k]
    BY <1>2 DEF ConsumerMaps
  <2>2. /\ known \in [Tasks -> Scenarios \cup {Unknown, Nobody}]
        /\ \A t \in Tasks : known[t] \in {ScenarioOf[t], Unknown, Nobody}
    BY <1>1, MergeSound DEF SocketState
  <2> HIDE DEF known
  <2>3. k \in Good
    BY <1>1, <2>2 DEF Good, Sound, SocketState
  <2> QED BY <1>1, <1>2, <2>1, <2>3, OneSocket DEF ConsumerMaps
<1>3. CASE ConsumerReads(h)
  <2> DEFINE asked == {u \in socket[h].found : meta[u] # "none"}
             items == {Object(t, meta[t], 0) : t \in asked}
             k == [socket[h] EXCEPT !.items = items, !.found = {}, !.consumer = "put"]
  <2>1. socket' = [socket EXCEPT ![h] = k]
    BY <1>3 DEF ConsumerReads
  <2>2. IsFiniteSet(asked)
    BY <1>1, TasksAssumption, FS_Subset DEF SocketState
  <2>3. IsFiniteSet(items)
    <3> DEFINE f == [t \in asked |-> Object(t, meta[t], 0)]
    <3>1. f \in Surjection(asked, items)
      BY DEF Surjection
    <3> QED BY <2>2, <3>1, FS_Surjection
  <2>4. items \subseteq Message
    <3>1. asked \subseteq Tasks /\ 0 \in 0..MaxReports
      BY <1>1, MaxReportsAssumption DEF SocketState
    <3>2. \A t \in asked : meta[t] \in States
      BY <3>1 DEF FeedInv, TypeOK
    <3> QED BY <3>1, <3>2, ObjectType
  <2> HIDE DEF items
  <2>5. k \in Good
    BY <1>1, <2>3, <2>4 DEF Good, Sound, SocketState
  <2> QED BY <1>1, <1>3, <2>1, <2>5, OneSocket DEF ConsumerReads
<1>4. CASE ConsumerPuts(h)
  <2>1. PICK items \in SetToSeqs(socket[h].items) :
          socket' = [socket EXCEPT
            ![h] = IF \A m \in socket[h].items : Readable(m)
                     THEN [socket[h] EXCEPT !.queue = @ \o items, !.items = {}, !.consumer = "receive"]
                     ELSE [socket[h] EXCEPT !.items = {}, !.consumer = "failed"]]
    BY <1>4 DEF ConsumerPuts
  <2>2. items \in Seq(Message)
    <3>1. Cardinality(socket[h].items) \in Nat /\ socket[h].items \subseteq Message
      BY <1>1, FS_CardinalityType DEF Sound, SocketState
    <3>2. items \in [1..Cardinality(socket[h].items) -> socket[h].items]
      BY DEF SetToSeqs
    <3> QED BY <3>1, <3>2
  <2>3. socket[h].queue \o items \in Seq(Message) /\ IsFiniteSet({})
    BY <1>1, <2>2, FS_EmptySet DEF SocketState
  <2>4. [socket[h] EXCEPT !.queue = @ \o items, !.items = {}, !.consumer = "receive"] \in Good
    BY <1>1, <2>3 DEF Good, Sound, SocketState
  <2>5. [socket[h] EXCEPT !.items = {}, !.consumer = "failed"] \in Good
    BY <1>1, <2>3 DEF Good, Sound, SocketState
  <2> QED BY <1>1, <1>4, <2>1, <2>4, <2>5, OneSocket DEF ConsumerPuts
<1> QED BY <1>2, <1>3, <1>4 DEF ConsumerContinues

LEMMA FeedProducer ==
  ASSUME FeedInv, NEW h \in Sockets, ProducerContinues(h)
  PROVE  FeedInv'
<1>1. /\ socket[h] \in SocketState /\ Sound(socket[h]) /\ socket[h] \in Good
      /\ socket \in [Sockets -> Good]
      /\ heard \in [Sockets -> SUBSET Reported]
  BY DEF FeedInv, TypeOK, Good
<1>2. ASSUME socket[h].queue # <<>>
      PROVE  /\ Head(socket[h].queue) \in Message /\ Tail(socket[h].queue) \in Seq(Message)
             /\ [socket[h] EXCEPT !.queue = Tail(@)] \in Good
  <2>1. Head(socket[h].queue) \in Message /\ Tail(socket[h].queue) \in Seq(Message)
    BY <1>1, <1>2 DEF SocketState
  <2> QED BY <1>1, <2>1 DEF Good, Sound, SocketState
<1>3. CASE ProducerSends(h)
  <2> DEFINE m == Head(socket[h].queue)
             rest == [socket EXCEPT ![h].queue = Tail(@)]
  <2>1. socket[h].queue # <<>> /\ m \in Message
    BY <1>2, <1>3 DEF ProducerSends
  <2>2. rest \in [Sockets -> Good]
    BY <1>1, <1>2, <2>1
  <2>3. heard' \in [Sockets -> SUBSET Reported]
    BY <1>3, <2>1, SentType DEF ProducerSends
  <2>4. socket' = rest \/ \E found \in BOOLEAN : socket' = Match(rest, m, found)
    BY <1>3 DEF ProducerSends
  <2> HIDE DEF rest, m
  <2>5. socket' \in [Sockets -> Good]
    BY <2>1, <2>2, <2>4, MatchGood
  <2>6. socket' \in [Sockets -> SocketState]
    BY <2>5 DEF Good
  <2> QED BY <1>3, <2>3, <2>5, <2>6 DEF ProducerSends, FeedInv, TypeOK, backend, rows
<1>4. CASE ProducerLooksUp(h)
  <2> DEFINE m == Head(socket[h].queue)
             nobody == [socket[h] EXCEPT !.queue = Tail(@), !.ongoing[m.task] = Nobody]
             skip == [socket[h] EXCEPT !.queue = Tail(@)]
             look == [socket[h] EXCEPT !.queue = Tail(@), !.msg = m, !.producer = "query",
                                       !.asked = PendingTasks(socket[h].ids)]
  <2>1. m \in Message /\ Tail(socket[h].queue) \in Seq(Message) /\ skip \in Good
    BY <1>2, <1>4 DEF ProducerLooksUp
  <2>2. m.task \in Tasks /\ PendingTasks(socket[h].ids) \subseteq Tasks
    BY <2>1 DEF Message, PendingTasks
  <2> HIDE DEF m
  <2>3. nobody \in Good
    BY <1>1, <2>1, <2>2 DEF Good, Sound, SocketState
  <2>4. look \in Good
    BY <1>1, <2>1, <2>2 DEF Good, Sound, SocketState
  <2>5. \E k \in {nobody, skip, look} : socket' = [socket EXCEPT ![h] = k]
    BY <1>4 DEF ProducerLooksUp, m
  <2> HIDE DEF nobody, skip, look
  <2> QED BY <1>1, <1>4, <2>1, <2>3, <2>4, <2>5, OneSocket DEF ProducerLooksUp
<1>5. CASE ProducerMaps(h)
  <2> DEFINE known == Merge(socket[h].ongoing, socket[h].asked)
             k == [socket[h] EXCEPT !.ongoing = known, !.asked = {t \in Tasks : known[t] # Unknown},
                                    !.producer = "mget"]
  <2>1. socket' = [socket EXCEPT ![h] = k]
    BY <1>5 DEF ProducerMaps
  <2>2. /\ known \in [Tasks -> Scenarios \cup {Unknown, Nobody}]
        /\ \A t \in Tasks : known[t] \in {ScenarioOf[t], Unknown, Nobody}
    BY <1>1, MergeSound DEF SocketState
  <2>3. socket[h].msg \in Message
    BY <1>1, <1>5 DEF Sound, ProducerMaps
  <2> HIDE DEF known
  <2>4. k \in Good
    BY <1>1, <2>2, <2>3 DEF Good, Sound, SocketState
  <2> QED BY <1>1, <1>5, <2>1, <2>4, OneSocket DEF ProducerMaps
<1>6. CASE ProducerReads(h)
  <2> DEFINE readable == [socket[h] EXCEPT !.asked = {}, !.producer = "match"]
             raises == [socket[h] EXCEPT !.asked = {}, !.msg = Unknown, !.producer = "get"]
  <2>1. socket[h].msg \in Message
    BY <1>1, <1>6 DEF Sound, ProducerReads
  <2>2. readable \in Good
    BY <1>1, <2>1 DEF Good, Sound, SocketState
  <2>3. raises \in Good
    BY <1>1 DEF Good, Sound, SocketState
  <2>4. \E k \in {readable, raises} : socket' = [socket EXCEPT ![h] = k]
    BY <1>6 DEF ProducerReads
  <2> HIDE DEF readable, raises
  <2> QED BY <1>1, <1>6, <2>2, <2>3, <2>4, OneSocket DEF ProducerReads
<1>7. CASE ProducerMatches(h)
  <2> DEFINE m == socket[h].msg
             s == socket[h].ongoing[m.task]
             k == [socket[h] EXCEPT !.ongoing[m.task] = IF s = Unknown THEN Nobody ELSE s,
                                    !.msg = Unknown, !.producer = "get"]
             after == [socket EXCEPT ![h] = k]
  <2>1. m \in Message /\ m.task \in Tasks
    BY <1>1, <1>7 DEF Sound, ProducerMatches, Message
  <2>2. \E found \in BOOLEAN : socket' = Match(after, m, found)
    <3>1. socket' = Match(after, m, s \in Scenarios)
      BY <1>7 DEF ProducerMatches
    <3>2. (s \in Scenarios) \in BOOLEAN
      OBVIOUS
    <3> HIDE DEF after, m, s
    <3> QED BY <3>1, <3>2
  <2>3. heard' \in [Sockets -> SUBSET Reported]
    BY <1>7, <2>1, SentType DEF ProducerMatches
  <2>4. k \in Good
    BY <1>1, <2>1 DEF Good, Sound, SocketState
  <2>5. after \in [Sockets -> Good]
    BY <1>1, <2>4
  <2> HIDE DEF after, m
  <2>6. socket' \in [Sockets -> Good]
    BY <2>1, <2>2, <2>5, MatchGood
  <2>7. socket' \in [Sockets -> SocketState]
    BY <2>6 DEF Good
  <2> QED BY <1>7, <2>3, <2>6, <2>7 DEF ProducerMatches, FeedInv, TypeOK, backend, rows
<1> QED BY <1>3, <1>4, <1>5, <1>6, <1>7 DEF ProducerContinues

LEMMA FeedNext == FeedInv /\ [Next]_vars => FeedInv'
<1> SUFFICES ASSUME FeedInv, [Next]_vars PROVE FeedInv' OBVIOUS
<1>1. CASE UNCHANGED vars
  BY <1>1 DEF FeedInv, TypeOK, vars, backend, rows
<1> QED BY <1>1, FeedCalculations, FeedPublish, FeedMonitorEnds, FeedBrowser, FeedConsumer,
           FeedProducer DEF Next

LEMMA FeedAlways == Spec => []FeedInv
BY FeedInit, FeedNext, PTL DEF Spec

(* Every state of the feed has its type, for any number of scenarios,      *)
(* tasks, websockets, reports and subscriptions.                           *)
THEOREM FeedTypeCorrect == Spec => []TypeOK
<1>1. FeedInv => TypeOK
  BY DEF FeedInv
<1> QED BY <1>1, FeedAlways, PTL

=============================================================================

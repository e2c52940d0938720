------------------------- MODULE ScenarioViewProofs -------------------------
(***************************************************************************)
(* Proofs about ScenarioView, for any networks, scenarios, requests,       *)
(* default scenarios and pages and any number of clicks.  The properties   *)
(* speak of the view at rest; the invariants below say of every moment in  *)
(* between which effect is still due to set right what is not right yet.   *)
(***************************************************************************)
EXTENDS ScenarioView, TLAPS

(* Whether an effect is due for an object, or for a dependency.            *)
Fresh(object) == fresh \cap {"mount", object} # {}
NetDue == "mount" \in fresh \/ ui.net # seen.net
UrlDue == "mount" \in fresh \/ ui.url # seen.url
ScenarioDue == "mount" \in fresh \/ ui.scenario # seen.scenario

(* Before the first effects. *)
MountInv ==
  "mount" \in fresh =>
    /\ ui.scenario = None
    /\ ui.last = None
    /\ visited = {ui.url}
    /\ ui.url \in {ui.net, None}

(* The address is right or the effect of the network is due, and when both *)
(* are due they do not go on for ever correcting each other.               *)
AddressInv ==
  /\ ~UrlDue => ui.url \in {ui.net, None} \/ (NetDue /\ ui.net \notin {None, ui.last})
  /\ ~NetDue => ui.net \in {ui.last, None}
  /\ UrlDue /\ NetDue =>
       ui.net = ui.url \/ "mount" \in fresh \/ (ui.net = None /\ ui.url = ui.last)

(* What the details set, unless they are new. *)
DetailsInv ==
  /\ ui.details # None /\ ~Fresh("details") =>
       ui.headroom = ui.details /\ ui.current = ui.details
  /\ ui.details # None /\ ~Fresh("details") /\ ~Fresh("current") =>
       RequestsIn(ui.current) \subseteq ui.selected

(* What may be selected: when the current requests are new, those of the   *)
(* scenario before are still there.                                        *)
SelectionInv ==
  /\ "current" \notin fresh => ui.selected \subseteq chosen \cup RequestsIn(ui.current)
  /\ "current" \in fresh => ui.selected \subseteq chosen \cup RequestsIn(ui.prev)

(* The selected scenario is of the network entered last, and as long as no *)
(* networks are listed there is only one to enter.                         *)
HomeInv ==
  /\ ~strayed /\ ui.scenario # None => NetOf[ui.scenario] = ui.last
  /\ ui.networks = Empty /\ "mount" \notin fresh =>
       visited \cup {ui.net, ui.url} \subseteq {None, ui.last}

Awaited == \E f \in DOMAIN flight : f.kind = "details"

ShownInv ==
  ~ScenarioDue /\ ui.scenario # None /\ crossed = "no" /\ ~strayed /\ ~Awaited =>
    ui.details = ui.scenario

SocketInv ==
  /\ "tab" \in fresh => socket = "none"
  /\ socket \in {"none", "connecting"} => seen.ready # "open"
  /\ ui.ws /\ socket = "open" /\ seen.ready = "open" /\ "list" \notin fresh =>
       subscribed = ui.list

-----------------------------------------------------------------------------
(* Requests come and go one at a time. *)
LEMMA BagAdd ==
  ASSUME NEW b, NEW S, IsABag(b)
  PROVE  IsABag(b (+) SetToBag(S)) /\ DOMAIN (b (+) SetToBag(S)) = DOMAIN b \cup S
BY DEF IsABag, (+), SetToBag

LEMMA BagAddIn ==
  ASSUME NEW b, NEW S, NEW R, IsABag(b), DOMAIN b \subseteq R, S \subseteq R
  PROVE  IsABag(b (+) SetToBag(S)) /\ DOMAIN (b (+) SetToBag(S)) \subseteq R
BY BagAdd

LEMMA BagTake ==
  ASSUME NEW b, NEW f, IsABag(b)
  PROVE  /\ IsABag(b (-) SetToBag({f}))
         /\ DOMAIN (b (-) SetToBag({f})) \subseteq DOMAIN b
         /\ DOMAIN b \ {f} \subseteq DOMAIN (b (-) SetToBag({f}))
BY DEF IsABag, (-), SetToBag

(* The effects in terms of what is due. *)
LEMMA DueIs ==
  ASSUME NEW o, NEW k
  PROVE  /\ Due({o}, {}) <=> Fresh(o)
         /\ Due({}, {k}) <=> "mount" \in fresh \/ ui[k] # seen[k]
         /\ Due({o}, {k}) <=> Fresh(o) \/ ui[k] # seen[k]
BY DEF Due, Fresh

LEMMA Effects ==
  /\ EntersNetwork <=> NetDue /\ ui.net \notin {None, ui.last}
  /\ FollowsAddress <=> UrlDue /\ ui.net # ui.url
  /\ FetchesDetails <=> ScenarioDue /\ ui.scenario # None
  /\ LosesDetails <=> ScenarioDue /\ ui.scenario = None
  /\ TakesDetails <=> Fresh("details") /\ ui.details # None
  /\ MergesCurrent <=> Fresh("current")
  /\ Subscribes <=> Mounted /\ (Fresh("list") \/ Fresh("tab") \/ Ready # seen.ready)
  /\ DefaultScenario = IF (Fresh("networks") \/ NetDue) /\ ui.networks # Empty /\ ui.net # None
                         THEN ui.networks[ui.net] ELSE ui.scenario
<1>1. EntersNetwork <=> NetDue /\ ui.net \notin {None, ui.last}
  BY DueIs DEF EntersNetwork, NetDue
<1>2. FollowsAddress <=> UrlDue /\ ui.net # ui.url
  BY DueIs DEF FollowsAddress, UrlDue
<1>3. Due({}, {"scenario"}) <=> ScenarioDue
  BY DueIs DEF ScenarioDue
<1>4. TakesDetails <=> Fresh("details") /\ ui.details # None
  BY DueIs DEF TakesDetails
<1>5. MergesCurrent <=> Fresh("current")
  BY DueIs DEF MergesCurrent
<1>6. Due({"list", "tab"}, {}) <=> Fresh("list") \/ Fresh("tab")
  BY DEF Due, Fresh
<1>7. Due({"networks"}, {"net"}) <=> Fresh("networks") \/ NetDue
  BY DueIs DEF NetDue, Fresh
<1> QED BY <1>1, <1>2, <1>3, <1>4, <1>5, <1>6, <1>7
        DEF FetchesDetails, LosesDetails, Subscribes, DefaultScenario

(* What a render makes of the view. *)
LEMMA RenderView ==
  ASSUME TypeOK, Render
  PROVE  /\ ui'.net = IF FollowsAddress THEN ui.url ELSE ui.net
         /\ ui'.url = IF EntersNetwork THEN ui.net ELSE ui.url
         /\ ui'.last = IF EntersNetwork THEN ui.net ELSE ui.last
         /\ ui'.networks = ui.networks
         /\ ui'.scenario = DefaultScenario
         /\ ui'.details = IF LosesDetails \/ EntersNetwork THEN None ELSE ui.details
         /\ ui'.headroom = IF TakesDetails THEN ui.details ELSE ui.headroom
         /\ ui'.current = IF TakesDetails THEN ui.details ELSE ui.current
         /\ ui'.prev = IF TakesDetails THEN ui.current ELSE ui.prev
         /\ ui'.selected = Selected
         /\ ui'.list = ui.list
         /\ ui'.ws = (ui.ws \/ "tab" \in fresh)
<1>1. ui \in View /\ ui' = After
  BY DEF TypeOK, Render
<1> QED BY <1>1 DEF After, View

Inv == MountInv /\ AddressInv /\ DetailsInv /\ SelectionInv /\ HomeInv /\ ShownInv /\ SocketInv

LEMMA RequestsInType == ASSUME NEW s \in Scenario PROVE RequestsIn(s) \subseteq Requests
BY ScenariosAssumption DEF RequestsIn, Scenario

(* The view with some of its fields replaced. *)
LEMMA ViewSet ==
  ASSUME ui \in View
  PROVE  /\ \A v \in Network : [ui EXCEPT !.net = v] \in View /\ [ui EXCEPT !.url = v] \in View
         /\ \A v \in Defaults : [ui EXCEPT !["networks"] = v] \in View
         /\ \A v \in Scenario :
              [ui EXCEPT !.scenario = v] \in View /\ [ui EXCEPT !["details"] = v] \in View
         /\ \A v \in SUBSET Requests : [ui EXCEPT !["selected"] = v] \in View
         /\ \A v \in SUBSET Scenarios : [ui EXCEPT !["list"] = v] \in View
         /\ [ui EXCEPT !["ws"] = FALSE] \in View
BY DEF View

LEMMA RenderType == TypeOK /\ Render => TypeOK'
<1> SUFFICES ASSUME TypeOK, Render PROVE TypeOK' OBVIOUS
<1>1. ui \in View
  BY DEF TypeOK
<1>2. DefaultScenario \in Scenario
  <2>1. ui.networks # Empty /\ ui.net # None => ui.networks[ui.net] \in Scenario
    BY <1>1, DefaultsAssumption DEF View, Network, Scenario
  <2> QED BY <1>1, <2>1 DEF DefaultScenario, View
<1>3. Selected \subseteq Requests
  <2>1. ui.current \in Scenario /\ ui.selected \subseteq Requests
    BY <1>1 DEF View
  <2>2. RequestsIn(ui.current) \subseteq Requests
    BY <2>1, RequestsInType
  <2> QED BY <2>1, <2>2 DEF Selected
<1>4. After \in View
  <2> DEFINE b == IF LosesDetails \/ EntersNetwork THEN None ELSE ui.details
             c == IF TakesDetails THEN ui.details ELSE ui.headroom
             d == IF TakesDetails THEN ui.details ELSE ui.current
             e == IF TakesDetails THEN ui.current ELSE ui.prev
             g == IF FollowsAddress THEN ui.url ELSE ui.net
             h == IF EntersNetwork THEN ui.net ELSE ui.url
             i == IF EntersNetwork THEN ui.net ELSE ui.last
             j == ui.ws \/ "tab" \in fresh
  <2>1. b \in Scenario /\ c \in Scenario /\ d \in Scenario /\ e \in Scenario
    BY <1>1 DEF View, Scenario
  <2>2. g \in Network /\ h \in Network /\ i \in Network
    BY <1>1 DEF View
  <2>3. j \in BOOLEAN
    OBVIOUS
  <2>4. After = [ui EXCEPT !.scenario = DefaultScenario, !.details = b, !.headroom = c,
                           !.current = d, !.prev = e, !.selected = Selected, !.net = g,
                           !.url = h, !.last = i, !.ws = j]
    BY DEF After
  <2> HIDE DEF b, c, d, e, g, h, i, j
  <2> HIDE DEF After
  <2> QED BY <1>1, <1>2, <1>3, <2>1, <2>2, <2>3, <2>4 DEF View
<1>5. Replaced \subseteq Objects
  BY DEF Replaced, When, Objects
<1>6. NewRequests \subseteq Request
  <2>1. Asked("list", ui.net, None) \in Request
    BY <1>1 DEF Asked, Request, View, Scenario
  <2>2. Asked("details", ui.net, ui.scenario) \in Request
    BY <1>1 DEF Asked, Request, View
  <2> QED BY <2>1, <2>2 DEF NewRequests, When
<1>7. IsABag(flight') /\ DOMAIN flight' \subseteq Request
  BY <1>6, BagAddIn DEF Render, TypeOK
<1>8. Ready \in {"none", "connecting", "open", "closed"}
  BY DEF Ready, TypeOK
<1>9. seen' \in [net: Network \cup {Undefined}, url: Network \cup {Undefined},
                 scenario: Scenario \cup {Undefined},
                 ready: {"none", "connecting", "open", "closed"}]
  BY <1>1, <1>8 DEF Render, View
<1>10. subscribed' \subseteq Scenarios /\ visited' \subseteq Network
  BY <1>1, <1>4 DEF Render, TypeOK, View
<1> QED BY <1>4, <1>5, <1>7, <1>9, <1>10 DEF Render, TypeOK

LEMMA AnswersType == TypeOK /\ Answers => TypeOK'
<1> SUFFICES ASSUME TypeOK, Answers PROVE TypeOK' OBVIOUS
<1> USE DEF link, bounds, history, Event
<1>1. ui \in View
  BY DEF TypeOK
<1>2. ASSUME NEW f \in DOMAIN flight, Answered(f)
      PROVE  IsABag(flight') /\ DOMAIN flight' \subseteq Request
  BY <1>2, BagTake DEF Answered, TypeOK
<1>3. CASE NetworksArrive
  <2>1. PICK d \in Defaults : Replaces("networks", "networks", d)
    BY <1>3 DEF NetworksArrive
  <2>2. ui' \in View /\ fresh' \subseteq Objects
    BY <1>1, <2>1, ViewSet DEF Replaces, TypeOK, Objects
  <2> QED BY <1>2, <1>3, <2>2 DEF NetworksArrive, Answered, TypeOK
<1>4. CASE DetailsArrive
  <2>1. PICK f \in DOMAIN flight :
          /\ Answered(f)
          /\ Replaces("details", "details", f.scenario)
          /\ crossed' = IF f.scenario = ui.scenario THEN "no" ELSE "late"
    BY <1>4 DEF DetailsArrive
  <2>2. f.scenario \in Scenario
    BY DEF TypeOK, Request
  <2>3. ui' \in View /\ fresh' \subseteq Objects
    BY <1>1, <2>1, <2>2, ViewSet DEF Replaces, TypeOK, Objects
  <2>4. crossed' \in {"no", "failed", "late"}
    BY <2>1
  <2> QED BY <1>2, <1>4, <2>1, <2>3, <2>4 DEF DetailsArrive, Answered, TypeOK
<1>5. CASE ListArrives
  <2>1. PICK items \in Pages : Replaces("list", "list", items)
    BY <1>5 DEF ListArrives
  <2>2. ui' \in View /\ fresh' \subseteq Objects
    BY <1>1, <2>1, ViewSet, PagesAssumption DEF Replaces, TypeOK, Objects
  <2> QED BY <1>2, <1>5, <2>2 DEF ListArrives, Answered, TypeOK
<1>6. CASE CreationArrives
  BY <1>2, <1>6 DEF CreationArrives, TypeOK, Objects, Answered
<1>7. CASE DeletionArrives
  <2>1. PICK f \in DOMAIN flight :
          flight' = (flight (-) SetToBag({f})) (+) SetToBag({Asked("list", f.net, None)})
    BY <1>7 DEF DeletionArrives
  <2>2. Asked("list", f.net, None) \in Request
    <3>1. f.net \in Network
      BY DEF TypeOK, Request
    <3> QED BY <3>1 DEF Asked, Request, Scenario
  <2>3. IsABag(flight (-) SetToBag({f})) /\ DOMAIN (flight (-) SetToBag({f})) \subseteq Request
    BY BagTake DEF TypeOK
  <2>4. {Asked("list", f.net, None)} \subseteq Request
    BY <2>2
  <2>5. IsABag(flight') /\ DOMAIN flight' \subseteq Request
    BY <2>1, <2>3, <2>4, BagAddIn
  <2> QED BY <1>7, <2>5 DEF DeletionArrives, TypeOK, Objects
<1>8. CASE Fails
  BY <1>2, <1>8 DEF Fails, TypeOK, Objects, Answered, When
<1> QED BY <1>3, <1>4, <1>5, <1>6, <1>7, <1>8 DEF Answers

LEMMA WebsocketType == TypeOK /\ Websocket => TypeOK'
<1> SUFFICES ASSUME TypeOK, Websocket PROVE TypeOK' OBVIOUS
<1> USE DEF link, bounds, history, Event
<1>1. CASE SocketOpens
  BY <1>1 DEF SocketOpens, TypeOK
<1>2. CASE SocketEnds
  BY <1>2, ViewSet DEF SocketEnds, Replaces, TypeOK, Objects
<1>3. CASE SocketTells
  BY <1>3 DEF SocketTells, TypeOK, Objects
<1> QED BY <1>1, <1>2, <1>3 DEF Websocket

LEMMA UserType == TypeOK /\ User => TypeOK'
<1> SUFFICES ASSUME TypeOK, User PROVE TypeOK' OBVIOUS
<1> USE DEF link, bounds, history
<1>1. ui \in View
  BY DEF TypeOK
<1>2. Click => clicks' \in 0..MaxClicks /\ renders' \in Nat
  BY BoundsAssumption DEF Click, Event, TypeOK
<1>3. ASSUME NEW k \in {"create", "delete", "networks"}, NEW n \in Network,
             flight' = flight (+) SetToBag({Asked(k, n, None)})
      PROVE  IsABag(flight') /\ DOMAIN flight' \subseteq Request
  <2>1. {Asked(k, n, None)} \subseteq Request
    BY DEF Asked, Request, Scenario
  <2> QED BY <1>3, <2>1, BagAddIn DEF TypeOK
<1>4. ASSUME NEW n \in Networks, SelectNetwork(n) PROVE TypeOK'
  BY <1>2, <1>4, ViewSet DEF SelectNetwork, TypeOK, Network
<1>5. ASSUME NEW u \in Network, Navigate(u) PROVE TypeOK'
  BY <1>2, <1>5, ViewSet DEF Navigate, TypeOK
<1>6. ASSUME NEW s \in Scenarios, SelectScenario(s) PROVE TypeOK'
  <2>1. ui' \in View
    BY <1>1, <1>6, ViewSet DEF SelectScenario, Scenario
  <2>2. strayed' \in BOOLEAN
    BY <1>6 DEF SelectScenario
  <2> QED BY <1>2, <1>6, <2>1, <2>2 DEF SelectScenario, TypeOK
<1>7. ASSUME NEW r \in Requests, Tick(r) PROVE TypeOK'
  <2> DEFINE toggled(set) == IF r \in ui.selected THEN set \ {r} ELSE set \cup {r}
  <2>1. toggled(ui.selected) \subseteq Requests /\ toggled(chosen) \subseteq Requests
    BY DEF TypeOK, View
  <2>2. Replaces("other", "selected", toggled(ui.selected)) /\ chosen' = toggled(chosen)
    BY <1>7 DEF Tick
  <2> HIDE DEF toggled
  <2>3. ui' \in View /\ fresh' \subseteq Objects
    BY <1>1, <2>1, <2>2, ViewSet DEF Replaces, TypeOK, Objects
  <2> QED BY <1>2, <1>7, <2>1, <2>2, <2>3 DEF Tick, TypeOK
<1>8. CASE Pick \/ OpenTab
  BY <1>2, <1>8 DEF Pick, OpenTab, TypeOK, Objects
<1>9. CASE CreateScenario
  <2>1. flight' = flight (+) SetToBag({Asked("create", ui.net, None)}) /\ ui.net \in Network
    BY <1>1, <1>9 DEF CreateScenario, View, Network
  <2>2. IsABag(flight') /\ DOMAIN flight' \subseteq Request
    BY <1>3, <2>1
  <2> QED BY <1>2, <1>9, <2>2 DEF CreateScenario, TypeOK
<1>10. CASE DeleteScenario
  <2>1. flight' = flight (+) SetToBag({Asked("delete", ui.net, None)}) /\ ui.net \in Network
    BY <1>1, <1>10 DEF DeleteScenario, View, Network
  <2>2. IsABag(flight') /\ DOMAIN flight' \subseteq Request
    BY <1>3, <2>1
  <2> QED BY <1>2, <1>10, <2>2 DEF DeleteScenario, TypeOK
<1>11. CASE SaveSettings
  <2>1. flight' = flight (+) SetToBag({Asked("networks", None, None)}) /\ None \in Network
    BY <1>1, <1>11 DEF SaveSettings, View, Network
  <2>2. IsABag(flight') /\ DOMAIN flight' \subseteq Request
    BY <1>3, <2>1
  <2> QED BY <1>2, <1>11, <2>2 DEF SaveSettings, TypeOK
<1> QED BY <1>4, <1>5, <1>6, <1>7, <1>8, <1>9, <1>10, <1>11 DEF User

LEMMA TypeStep == TypeOK /\ [Next]_vars => TypeOK'
<1>1. TypeOK /\ UNCHANGED vars => TypeOK'
  BY DEF vars, TypeOK
<1> QED BY <1>1, RenderType, AnswersType, WebsocketType, UserType DEF Next

LEMMA TypeInit == Init => TypeOK
<1> SUFFICES ASSUME Init PROVE TypeOK OBVIOUS
<1>1. ui \in View
  BY NamesAssumption DEF Init, View, Network, Scenario
<1>2. Asked("networks", None, None) \in Request
  BY DEF Asked, Request, Network, Scenario
<1>3. IsABag(flight) /\ DOMAIN flight \subseteq Request
  BY <1>2 DEF Init, IsABag, SetToBag
<1>4. /\ seen \in [net: Network \cup {Undefined}, url: Network \cup {Undefined},
                   scenario: Scenario \cup {Undefined},
                   ready: {"none", "connecting", "open", "closed"}]
      /\ clicks \in 0..MaxClicks
      /\ visited \subseteq Network
  BY BoundsAssumption DEF Init
<1> QED BY <1>1, <1>3, <1>4 DEF Init, TypeOK, Objects

-----------------------------------------------------------------------------
(* What is due after a render is what the effects have set. *)
LEMMA RenderDue ==
  ASSUME TypeOK, Render
  PROVE  /\ fresh' \cap {"mount", "tab", "networks", "list"} = {}
         /\ NetDue' <=> FollowsAddress
         /\ UrlDue' <=> EntersNetwork /\ ui.net # ui.url
         /\ ScenarioDue' <=> DefaultScenario # ui.scenario
         /\ "details" \in fresh' <=> (LosesDetails \/ EntersNetwork) /\ ui.details # None
         /\ "current" \in fresh' <=> TakesDetails
<1>1. fresh' = Replaced
  BY DEF Render
<1>2. /\ fresh' \cap {"mount", "tab", "networks", "list"} = {}
      /\ "details" \in fresh' <=> (LosesDetails \/ EntersNetwork) /\ ui.details # None
      /\ "current" \in fresh' <=> TakesDetails
  BY <1>1 DEF Replaced, When
<1>3. seen'.net = ui.net /\ seen'.url = ui.url /\ seen'.scenario = ui.scenario
  BY DEF Render
<1>4. NetDue' <=> FollowsAddress
  BY <1>2, <1>3, RenderView, Effects DEF NetDue
<1>5. UrlDue' <=> EntersNetwork /\ ui.net # ui.url
  BY <1>2, <1>3, RenderView DEF UrlDue
<1>6. ScenarioDue' <=> DefaultScenario # ui.scenario
  BY <1>2, <1>3, RenderView DEF ScenarioDue
<1> QED BY <1>2, <1>4, <1>5, <1>6

LEMMA RenderAddress == TypeOK /\ MountInv /\ AddressInv /\ Render => AddressInv'
<1> SUFFICES ASSUME TypeOK, MountInv, AddressInv, Render PROVE AddressInv' OBVIOUS
<1>1. CASE EntersNetwork /\ FollowsAddress
  <2>1. "mount" \in fresh
    BY <1>1, Effects DEF AddressInv
  <2>2. ui.url = None
    BY <1>1, <2>1, Effects DEF MountInv
  <2> QED BY <1>1, <2>2, RenderView, RenderDue DEF AddressInv
<1>2. CASE EntersNetwork /\ ~FollowsAddress
  BY <1>2, RenderView, RenderDue DEF AddressInv
<1>3. CASE ~EntersNetwork /\ FollowsAddress
  BY <1>3, RenderView, RenderDue DEF AddressInv
<1>4. CASE ~EntersNetwork /\ ~FollowsAddress
  <2>1. ui.url \in {ui.net, None} /\ ui.net \in {ui.last, None}
    BY <1>4, Effects DEF AddressInv
  <2> QED BY <1>4, <2>1, RenderView, RenderDue DEF AddressInv
<1> QED BY <1>1, <1>2, <1>3, <1>4

LEMMA RenderDetails == TypeOK /\ DetailsInv /\ Render => DetailsInv'
<1> SUFFICES ASSUME TypeOK, DetailsInv, Render, ui'.details # None PROVE DetailsInv'
  BY DEF DetailsInv
<1>1. ~LosesDetails /\ ~EntersNetwork /\ ui'.details = ui.details
  BY RenderView
<1>2. ui'.headroom = ui'.details /\ ui'.current = ui'.details
  BY <1>1, RenderView, Effects DEF DetailsInv
<1>3. CASE TakesDetails
  BY <1>2, <1>3, RenderDue DEF DetailsInv, Fresh
<1>4. CASE ~TakesDetails
  <2>1. ~Fresh("details") /\ ui'.current = ui.current
    BY <1>1, <1>4, RenderView, Effects
  <2>2. RequestsIn(ui.current) \subseteq Selected
    BY <1>1, <2>1, Effects DEF DetailsInv, Selected
  <2> QED BY <1>2, <2>1, <2>2, RenderView DEF DetailsInv, RequestsIn
<1> QED BY <1>3, <1>4

LEMMA RenderSelection == TypeOK /\ SelectionInv /\ Render => SelectionInv'
<1> SUFFICES ASSUME TypeOK, SelectionInv, Render PROVE SelectionInv' OBVIOUS
<1>1. Selected \subseteq chosen' \cup RequestsIn(ui.current)
  <2>1. CASE EntersNetwork
    BY <2>1 DEF Selected
  <2>2. CASE ~EntersNetwork
    <3>1. chosen' = chosen
      BY <2>2 DEF Render
    <3> QED BY <2>2, <3>1, Effects DEF Selected, SelectionInv, Fresh
  <2> QED BY <2>1, <2>2
<1>2. ui'.selected = Selected
  BY RenderView
<1>3. CASE TakesDetails
  <2>1. ui'.prev = ui.current /\ "current" \in fresh'
    BY <1>3, RenderView, RenderDue
  <2> QED BY <1>1, <1>2, <2>1 DEF SelectionInv, RequestsIn
<1>4. CASE ~TakesDetails
  <2>1. ui'.current = ui.current /\ "current" \notin fresh'
    BY <1>4, RenderView, RenderDue
  <2> QED BY <1>1, <1>2, <2>1 DEF SelectionInv, RequestsIn
<1> QED BY <1>3, <1>4

(* Once networks are listed, entering one selects its default scenario;    *)
(* before that there is none to enter but the first.                       *)
LEMMA EntersListed ==
  ASSUME TypeOK, MountInv, HomeInv, EntersNetwork, "mount" \notin fresh
  PROVE  ui.networks # Empty /\ DefaultScenario = ui.networks[ui.net]
BY Effects DEF HomeInv

LEMMA DefaultOfNetwork ==
  ASSUME TypeOK, ui.networks # Empty, ui.net # None, ui.networks[ui.net] # None
  PROVE  NetOf[ui.networks[ui.net]] = ui.net
BY DefaultsAssumption DEF TypeOK, View, Network

LEMMA RenderHome == TypeOK /\ MountInv /\ AddressInv /\ HomeInv /\ Render => HomeInv'
<1> SUFFICES ASSUME TypeOK, MountInv, AddressInv, HomeInv, Render PROVE HomeInv' OBVIOUS
<1>0. strayed' = strayed /\ ui'.scenario = DefaultScenario /\ visited' = visited \cup {ui'.url}
  BY RenderView DEF Render
<1>1. ASSUME ~strayed, DefaultScenario # None
      PROVE  NetOf[DefaultScenario] = ui'.last
  <2>1. CASE (Fresh("networks") \/ NetDue) /\ ui.networks # Empty /\ ui.net # None
    <3>1. DefaultScenario = ui.networks[ui.net] /\ NetOf[DefaultScenario] = ui.net
      BY <1>1, <2>1, Effects, DefaultOfNetwork
    <3>2. ui'.last = ui.net
      BY <2>1, RenderView, Effects DEF AddressInv
    <3> QED BY <3>1, <3>2
  <2>2. CASE ~((Fresh("networks") \/ NetDue) /\ ui.networks # Empty /\ ui.net # None)
    <3>1. DefaultScenario = ui.scenario /\ NetOf[ui.scenario] = ui.last
      BY <1>1, <2>2, Effects DEF HomeInv
    <3>2. ~EntersNetwork
      BY <1>1, <2>2, <3>1, Effects, EntersListed DEF MountInv
    <3> QED BY <3>1, <3>2, RenderView
  <2> QED BY <2>1, <2>2
<1>2. ASSUME ui.networks = Empty
      PROVE  visited' \cup {ui'.net, ui'.url} \subseteq {None, ui'.last}
  <2>1. CASE "mount" \in fresh
    BY <1>0, <2>1, RenderView, Effects DEF MountInv, NetDue
  <2>2. CASE "mount" \notin fresh
    <3>1. ~EntersNetwork
      BY <1>2, <2>2, EntersListed
    <3> QED BY <1>0, <1>2, <2>2, <3>1, RenderView DEF HomeInv
  <2> QED BY <2>1, <2>2
<1> QED BY <1>0, <1>1, <1>2, RenderView DEF HomeInv

LEMMA RenderShown == TypeOK /\ MountInv /\ HomeInv /\ ShownInv /\ Render => ShownInv'
<1> SUFFICES ASSUME TypeOK, MountInv, HomeInv, ShownInv, Render,
                    ~ScenarioDue', ui'.scenario # None, crossed' = "no",
                    ~strayed', ~Awaited'
             PROVE  ui'.details = ui'.scenario
  BY DEF ShownInv
<1>1. ui'.scenario = ui.scenario /\ DefaultScenario = ui.scenario /\ ~strayed
  BY RenderView, RenderDue DEF Render
<1>2. DOMAIN flight' = DOMAIN flight \cup NewRequests
  BY BagAdd DEF Render, TypeOK
<1>3. ~FetchesDetails
  <2> SUFFICES ASSUME FetchesDetails PROVE FALSE OBVIOUS
  <2>1. Asked("details", ui.net, ui.scenario) \in DOMAIN flight'
    BY <1>2 DEF NewRequests, When
  <2>2. Asked("details", ui.net, ui.scenario).kind = "details"
    BY DEF Asked
  <2> QED BY <2>1, <2>2 DEF Awaited
<1>4. ~ScenarioDue /\ crossed = "no" /\ ~Awaited
  BY <1>1, <1>2, <1>3, Effects DEF Render, Awaited
<1>5. ui.details = ui.scenario
  BY <1>1, <1>4 DEF ShownInv
<1>6. ~EntersNetwork
  <2> SUFFICES ASSUME EntersNetwork PROVE FALSE OBVIOUS
  <2>1. ui.networks # Empty /\ ui.networks[ui.net] = ui.scenario
    BY <1>1, EntersListed DEF MountInv
  <2>2. NetOf[ui.scenario] = ui.net
    BY <1>1, <2>1, Effects, DefaultOfNetwork
  <2> QED BY <1>1, <2>2, Effects DEF HomeInv
<1>7. ~LosesDetails
  BY <1>1, Effects
<1> QED BY <1>1, <1>5, <1>6, <1>7, RenderView

LEMMA RenderSocket == TypeOK /\ SocketInv /\ Render => SocketInv'
<1> SUFFICES ASSUME TypeOK, SocketInv, Render PROVE SocketInv' OBVIOUS
<1>1. seen'.ready = Ready /\ fresh' \cap {"tab", "list"} = {} /\ ui'.list = ui.list
  BY RenderView, RenderDue DEF Render
<1>2. socket' = IF "tab" \in fresh THEN "connecting" ELSE socket
  BY DEF Render
<1>3. Ready = "open" => ui.ws /\ socket = "open" /\ socket' = "open" /\ "tab" \notin fresh
  BY <1>2 DEF Ready, SocketInv
<1>4. Ready = "open" => subscribed' = ui.list
  <2> SUFFICES ASSUME Ready = "open" PROVE subscribed' = ui.list OBVIOUS
  <2>1. CASE Subscribes
    BY <2>1 DEF Render
  <2>2. CASE ~Subscribes
    <3>1. Mounted
      BY <1>3 DEF Mounted
    <3>2. ~Fresh("list") /\ seen.ready = "open"
      BY <2>2, <3>1, Effects
    <3> QED BY <1>3, <2>2, <3>2 DEF Render, SocketInv, Fresh
  <2> QED BY <2>1, <2>2
<1> QED BY <1>1, <1>2, <1>3, <1>4 DEF SocketInv

LEMMA RenderInv == TypeOK /\ Inv /\ Render => Inv'
<1> SUFFICES ASSUME TypeOK, Inv, Render PROVE Inv' OBVIOUS
<1>1. MountInv'
  BY RenderDue DEF MountInv
<1> QED BY <1>1, RenderAddress, RenderDetails, RenderSelection, RenderHome, RenderShown,
           RenderSocket DEF Inv

-----------------------------------------------------------------------------
(* Between two renders most events leave what the invariants speak of as   *)
(* it is, or make an effect due that sets it right.                        *)
Same(k) == ui'[k] = ui[k]

ViewKept ==
  /\ Same("net") /\ Same("url") /\ Same("last") /\ Same("scenario")
  /\ ui'.networks = ui.networks \/ ui'.networks # Empty
  /\ "mount" \in fresh' <=> "mount" \in fresh
  /\ seen' = seen
  /\ visited' = visited

SelectionKept ==
  /\ Same("details") /\ Same("headroom") /\ Same("current") /\ Same("prev") /\ Same("selected")
  /\ chosen' = chosen
  /\ "details" \in fresh' <=> "details" \in fresh
  /\ "current" \in fresh' <=> "current" \in fresh

FlightKept ==
  /\ Same("details")
  /\ strayed' = strayed
  /\ crossed # "no" => crossed' # "no"
  /\ Awaited => Awaited' \/ crossed' # "no"

SocketKept ==
  /\ Same("ws")
  /\ Same("list") \/ "list" \in fresh'
  /\ "list" \in fresh => "list" \in fresh'
  /\ "tab" \in fresh' => "tab" \in fresh \/ socket = "none"
  /\ socket' = socket
  /\ subscribed' = subscribed
  /\ seen' = seen

LEMMA Kept ==
  /\ ViewKept /\ MountInv => MountInv'
  /\ ViewKept /\ AddressInv => AddressInv'
  /\ ViewKept /\ strayed' = strayed /\ HomeInv => HomeInv'
  /\ ViewKept /\ FlightKept /\ ShownInv => ShownInv'
  /\ ViewKept /\ SelectionKept /\ DetailsInv => DetailsInv'
  /\ SelectionKept /\ SelectionInv => SelectionInv'
  /\ SocketKept /\ SocketInv => SocketInv'
<1> USE DEF Same
<1>1. ViewKept /\ MountInv => MountInv'
  BY DEF ViewKept, MountInv
<1>2. ViewKept => /\ NetDue' <=> NetDue
                  /\ UrlDue' <=> UrlDue
                  /\ ScenarioDue' <=> ScenarioDue
  BY DEF ViewKept, NetDue, UrlDue, ScenarioDue
<1>3. ViewKept /\ AddressInv => AddressInv'
  BY <1>2 DEF ViewKept, AddressInv
<1>4. ViewKept /\ strayed' = strayed /\ HomeInv => HomeInv'
  BY DEF ViewKept, HomeInv
<1>5. ViewKept /\ FlightKept /\ ShownInv => ShownInv'
  BY <1>2 DEF ViewKept, FlightKept, ShownInv
<1>6. ViewKept /\ SelectionKept /\ DetailsInv => DetailsInv'
  BY DEF ViewKept, SelectionKept, DetailsInv, Fresh, RequestsIn
<1>7. SelectionKept /\ SelectionInv => SelectionInv'
  BY DEF SelectionKept, SelectionInv, RequestsIn
<1>8. SocketKept /\ SocketInv => SocketInv'
  BY DEF SocketKept, SocketInv
<1> QED BY <1>1, <1>3, <1>4, <1>5, <1>6, <1>7, <1>8

LEMMA AllKept ==
  ASSUME Inv, ViewKept, SelectionKept, FlightKept, SocketKept
  PROVE  Inv'
BY Kept DEF Inv, FlightKept

(* An answer takes one request from those that are awaited. *)
LEMMA AnsweredOne ==
  ASSUME TypeOK, NEW f \in DOMAIN flight,
         DOMAIN flight \ {f} \subseteq DOMAIN flight', f.kind # "details"
  PROVE  Awaited => Awaited'
BY DEF Awaited

LEMMA AnswersInv == TypeOK /\ Inv /\ Answers => Inv'
<1> SUFFICES ASSUME TypeOK, Inv, Answers PROVE Inv' OBVIOUS
<1> USE DEF link, bounds, history, Same
<1>1. ui \in View
  BY DEF TypeOK
<1>2. ASSUME NEW f \in DOMAIN flight, Answered(f)
      PROVE  DOMAIN flight \ {f} \subseteq DOMAIN flight'
  BY <1>2, BagTake DEF Answered, TypeOK
<1>3. CASE NetworksArrive
  <2>1. PICK f \in DOMAIN flight, d \in Defaults :
          /\ f.kind = "networks"
          /\ Answered(f)
          /\ Replaces("networks", "networks", d)
          /\ UNCHANGED <<seen, link, bounds, history>>
    BY <1>3 DEF NetworksArrive
  <2>2. ViewKept /\ SelectionKept /\ SocketKept
    BY <1>1, <2>1, NamesAssumption
    DEF Replaces, ViewKept, SelectionKept, SocketKept, View
  <2>3. FlightKept
    BY <1>1, <1>2, <2>1, AnsweredOne DEF Replaces, FlightKept, View
  <2> QED BY <2>2, <2>3, AllKept
<1>4. CASE DetailsArrive
  <2>1. PICK f \in DOMAIN flight :
          /\ Replaces("details", "details", f.scenario)
          /\ crossed' = IF f.scenario = ui.scenario THEN "no" ELSE "late"
          /\ UNCHANGED <<seen, link, bounds, chosen, strayed>>
    BY <1>4 DEF DetailsArrive
  <2>2. ViewKept /\ SocketKept
    BY <1>1, <2>1 DEF Replaces, ViewKept, SocketKept, View
  <2>3. ui'.details = f.scenario /\ "details" \in fresh'
    BY <1>1, <2>1 DEF Replaces, View
  <2>4. DetailsInv'
    BY <2>3 DEF DetailsInv, Fresh
  <2>5. SelectionInv'
    BY <1>1, <2>1 DEF Replaces, View, Inv, SelectionInv, RequestsIn
  <2>6. ShownInv'
    BY <2>1, <2>2, <2>3 DEF ShownInv, ViewKept
  <2> QED BY <2>1, <2>2, <2>4, <2>5, <2>6, Kept DEF Inv
<1>5. CASE ListArrives
  <2>1. PICK f \in DOMAIN flight, items \in Pages :
          /\ f.kind = "list"
          /\ Answered(f)
          /\ Replaces("list", "list", items)
          /\ UNCHANGED <<seen, link, bounds, history>>
    BY <1>5 DEF ListArrives
  <2>2. ViewKept /\ SelectionKept /\ SocketKept
    BY <1>1, <2>1 DEF Replaces, ViewKept, SelectionKept, SocketKept, View
  <2>3. FlightKept
    BY <1>1, <1>2, <2>1, AnsweredOne DEF Replaces, FlightKept, View
  <2> QED BY <2>2, <2>3, AllKept
<1>6. CASE CreationArrives
  <2>1. PICK f \in DOMAIN flight :
          /\ f.kind = "create"
          /\ Answered(f)
    BY <1>6 DEF CreationArrives
  <2>2. ViewKept /\ SelectionKept /\ SocketKept
    BY <1>6 DEF CreationArrives, ViewKept, SelectionKept, SocketKept
  <2>3. FlightKept
    BY <1>2, <1>6, <2>1, AnsweredOne DEF CreationArrives, FlightKept
  <2> QED BY <2>2, <2>3, AllKept
<1>7. CASE DeletionArrives
  <2>1. PICK f \in DOMAIN flight :
          /\ f.kind = "delete"
          /\ flight' = (flight (-) SetToBag({f})) (+) SetToBag({Asked("list", f.net, None)})
    BY <1>7 DEF DeletionArrives
  <2>2. ViewKept /\ SelectionKept /\ SocketKept
    BY <1>7 DEF DeletionArrives, ViewKept, SelectionKept, SocketKept
  <2>3. DOMAIN flight \ {f} \subseteq DOMAIN flight'
    <3> DEFINE b == flight (-) SetToBag({f})
    <3>1. IsABag(b) /\ DOMAIN flight \ {f} \subseteq DOMAIN b
      BY BagTake DEF TypeOK
    <3> HIDE DEF b
    <3>2. DOMAIN b \subseteq DOMAIN (b (+) SetToBag({Asked("list", f.net, None)}))
      BY <3>1, BagAdd
    <3>3. flight' = b (+) SetToBag({Asked("list", f.net, None)})
      BY <2>1 DEF b
    <3> QED BY <3>1, <3>2, <3>3
  <2>4. Awaited => Awaited'
    <3>1. f.kind # "details"
      BY <2>1
    <3> QED BY <2>3, <3>1, AnsweredOne
  <2>5. FlightKept
    BY <1>7, <2>4 DEF DeletionArrives, FlightKept
  <2> QED BY <2>2, <2>5, AllKept
<1>8. CASE Fails
  <2>1. PICK f \in DOMAIN flight :
          /\ Answered(f)
          /\ fresh' = fresh \cup When(f.kind = "list", {"other"})
          /\ crossed' = IF f.kind = "details" THEN "failed" ELSE crossed
    BY <1>8 DEF Fails
  <2>2. ViewKept /\ SelectionKept /\ SocketKept
    BY <1>8, <2>1 DEF Fails, When, ViewKept, SelectionKept, SocketKept
  <2>3. FlightKept
    BY <1>2, <1>8, <2>1, AnsweredOne DEF Fails, FlightKept
  <2> QED BY <2>2, <2>3, AllKept
<1> QED BY <1>3, <1>4, <1>5, <1>6, <1>7, <1>8 DEF Answers

-----------------------------------------------------------------------------
LEMMA AtRest ==
  ASSUME TypeOK, Inv, Settled
  PROVE  /\ fresh = {} /\ ~NetDue /\ ~UrlDue /\ ~ScenarioDue
         /\ ui.url \in {ui.net, None} /\ ui.net \in {ui.last, None}
<1>1. fresh = {} /\ ~NetDue /\ ~UrlDue /\ ~ScenarioDue
  BY DEF Settled, NetDue, UrlDue, ScenarioDue
<1> QED BY <1>1 DEF Inv, AddressInv

LEMMA WebsocketInv == TypeOK /\ Inv /\ Websocket => Inv'
<1> SUFFICES ASSUME TypeOK, Inv, Websocket PROVE Inv' OBVIOUS
<1> USE DEF link, bounds, history, Same
<1>1. CASE SocketOpens
  <2>1. ViewKept /\ SelectionKept /\ FlightKept
    BY <1>1 DEF SocketOpens, ViewKept, SelectionKept, FlightKept, Awaited
  <2>2. fresh' = {} /\ seen' = seen /\ seen.ready # "open" /\ socket' = "open"
    BY <1>1, AtRest DEF SocketOpens, Inv, SocketInv
  <2>3. SocketInv'
    BY <2>2 DEF SocketInv
  <2> QED BY <2>1, <2>3, Kept DEF Inv, FlightKept
<1>2. CASE SocketEnds
  <2>1. ui \in View /\ Replaces("other", "ws", FALSE)
    BY <1>2 DEF SocketEnds, TypeOK
  <2>2. ViewKept /\ SelectionKept /\ FlightKept
    BY <1>2, <2>1
    DEF SocketEnds, Replaces, ViewKept, SelectionKept, FlightKept, Awaited, View
  <2>3. fresh' = {"other"} /\ socket' = "closed"
    BY <1>2, <2>1, AtRest DEF SocketEnds, Replaces
  <2>4. SocketInv'
    BY <2>3 DEF SocketInv
  <2> QED BY <2>2, <2>4, Kept DEF Inv, FlightKept
<1>3. CASE SocketTells
  <2>1. ViewKept /\ SelectionKept /\ FlightKept /\ SocketKept
    BY <1>3 DEF SocketTells, ViewKept, SelectionKept, FlightKept, SocketKept, Awaited
  <2> QED BY <2>1, AllKept
<1> QED BY <1>1, <1>2, <1>3 DEF Websocket

LEMMA UserInv == TypeOK /\ Inv /\ User => Inv'
<1> SUFFICES ASSUME TypeOK, Inv, User PROVE Inv' OBVIOUS
<1> USE DEF link, history, Same
<1>1. ui \in View
  BY DEF TypeOK
<1>2. Click => Settled
  BY DEF Click
<1>3. ASSUME NEW n \in Networks, SelectNetwork(n) PROVE Inv'
  <2>1. Settled /\ UNCHANGED <<fresh, seen, flight, link, visited, history>>
    BY <1>2, <1>3 DEF SelectNetwork
  <2>2. ui' = [ui EXCEPT !.net = n] /\ n # ui.net /\ ui.networks # Empty /\ n # None
    BY <1>3, NamesAssumption DEF SelectNetwork
  <2>3. ui'.net = n /\ Same("url") /\ Same("last") /\ Same("networks") /\ Same("scenario")
        /\ Same("ws") /\ Same("list")
    BY <1>1, <2>2 DEF View
  <2>4. SelectionKept /\ FlightKept /\ SocketKept
    BY <1>1, <2>1, <2>2 DEF SelectionKept, FlightKept, SocketKept, Awaited, View
  <2>5. MountInv' /\ HomeInv'
    BY <2>1, <2>2, <2>3, AtRest DEF Inv, MountInv, HomeInv
  <2>6. AddressInv'
    BY <2>1, <2>2, <2>3, AtRest DEF AddressInv, NetDue, UrlDue
  <2>7. ShownInv'
    BY <2>1, <2>3, <2>4 DEF Inv, ShownInv, FlightKept, ScenarioDue
  <2>8. DetailsInv'
    BY <2>1, <2>4 DEF Inv, DetailsInv, SelectionKept, Fresh, RequestsIn
  <2> QED BY <2>4, <2>5, <2>6, <2>7, <2>8, Kept DEF Inv
<1>4. ASSUME NEW u \in Network, Navigate(u) PROVE Inv'
  <2>1. Settled /\ u \in visited /\ UNCHANGED <<fresh, seen, flight, link, visited, history>>
    BY <1>2, <1>4 DEF Navigate
  <2>2. ui' = [ui EXCEPT !.url = u]
    BY <1>4 DEF Navigate
  <2>3. ui'.url = u /\ Same("net") /\ Same("last") /\ Same("networks") /\ Same("scenario")
    BY <1>1, <2>2 DEF View
  <2>4. SelectionKept /\ FlightKept /\ SocketKept
    BY <1>1, <2>1, <2>2 DEF SelectionKept, FlightKept, SocketKept, Awaited, View
  <2>5. MountInv' /\ HomeInv'
    BY <2>1, <2>3, AtRest DEF Inv, MountInv, HomeInv
  <2>6. AddressInv'
    BY <2>1, <2>3, AtRest DEF AddressInv, NetDue, UrlDue
  <2>7. ShownInv'
    BY <2>1, <2>3, <2>4 DEF Inv, ShownInv, FlightKept, ScenarioDue
  <2>8. DetailsInv'
    BY <2>1, <2>4 DEF Inv, DetailsInv, SelectionKept, Fresh, RequestsIn
  <2> QED BY <2>4, <2>5, <2>6, <2>7, <2>8, Kept DEF Inv
<1>5. ASSUME NEW s \in Scenarios, SelectScenario(s) PROVE Inv'
  <2>1. Settled /\ UNCHANGED <<fresh, seen, flight, link, visited, chosen, crossed>>
    BY <1>2, <1>5 DEF SelectScenario
  <2>2. ui' = [ui EXCEPT !.scenario = s] /\ strayed' = (strayed \/ NetOf[s] # ui.net)
    BY <1>5 DEF SelectScenario
  <2>3. ui'.scenario = s /\ Same("net") /\ Same("url") /\ Same("last") /\ Same("networks")
        /\ Same("details")
    BY <1>1, <2>2 DEF View
  <2>4. SelectionKept /\ SocketKept
    BY <1>1, <2>1, <2>2 DEF SelectionKept, SocketKept, View
  <2>5. MountInv'
    BY <2>1, AtRest DEF MountInv
  <2>6. HomeInv'
    <3>1. NetOf[s] # None
      BY ScenariosAssumption, NamesAssumption
    <3> QED BY <2>1, <2>2, <2>3, <3>1, AtRest DEF Inv, HomeInv
  <2>7. AddressInv'
    BY <2>1, <2>3, AtRest DEF Inv, AddressInv, NetDue, UrlDue
  <2>8. ShownInv'
    BY <2>1, <2>2, <2>3, AtRest DEF Inv, ShownInv, ScenarioDue, Awaited
  <2>9. DetailsInv'
    BY <2>1, <2>4 DEF Inv, DetailsInv, SelectionKept, Fresh, RequestsIn
  <2> QED BY <2>4, <2>5, <2>6, <2>7, <2>8, <2>9, Kept DEF Inv
<1>6. ASSUME NEW r \in Requests, Tick(r) PROVE Inv'
  <2> DEFINE toggled(set) == IF r \in ui.selected THEN set \ {r} ELSE set \cup {r}
  <2>1. /\ Settled /\ r \notin RequestsIn(ui.current)
        /\ UNCHANGED <<seen, flight, link, visited, crossed, strayed>>
    BY <1>2, <1>6 DEF Tick
  <2>2. Replaces("other", "selected", toggled(ui.selected)) /\ chosen' = toggled(chosen)
    BY <1>6 DEF Tick
  <2>3. ui'.selected = toggled(ui.selected) /\ Same("details") /\ Same("headroom")
        /\ Same("current")
    BY <1>1, <2>2 DEF Replaces, View
  <2>4. fresh' = {"other"}
    BY <2>1, <2>2, AtRest DEF Replaces
  <2>5. ViewKept /\ FlightKept /\ SocketKept
    BY <1>1, <2>1, <2>2, <2>4, AtRest
    DEF Replaces, ViewKept, FlightKept, SocketKept, Awaited, View
  <2>6. DetailsInv'
    BY <2>1, <2>3, <2>4, AtRest DEF Inv, DetailsInv, Fresh, RequestsIn
  <2>7. SelectionInv'
    BY <2>1, <2>2, <2>3, <2>4, AtRest DEF Inv, SelectionInv, RequestsIn
  <2> QED BY <2>5, <2>6, <2>7, Kept DEF Inv, FlightKept
<1>7. CASE Pick \/ OpenTab
  <2>1. ViewKept /\ SelectionKept /\ FlightKept /\ SocketKept
    BY <1>7
    DEF Pick, OpenTab, Mounted, ViewKept, SelectionKept, FlightKept, SocketKept, Awaited
  <2> QED BY <2>1, AllKept
<1>8. CASE CreateScenario \/ DeleteScenario \/ SaveSettings
  <2>1. PICK f \in {Asked(k, ui.net, None) : k \in {"create", "delete"}}
                   \cup {Asked("networks", None, None)} :
          flight' = flight (+) SetToBag({f})
    BY <1>8 DEF CreateScenario, DeleteScenario, SaveSettings
  <2>2. Awaited => Awaited'
    <3>1. DOMAIN (flight (+) SetToBag({f})) = DOMAIN flight \cup {f}
      BY BagAdd DEF TypeOK
    <3> QED BY <2>1, <3>1 DEF Awaited
  <2>3. UNCHANGED <<ui, fresh, seen, link, visited, history>>
    BY <1>8 DEF CreateScenario, DeleteScenario, SaveSettings
  <2>4. ViewKept /\ SelectionKept /\ FlightKept /\ SocketKept
    <3>1. ViewKept /\ SelectionKept /\ SocketKept
      BY <2>3 DEF ViewKept, SelectionKept, SocketKept
    <3>2. Same("details") /\ strayed' = strayed /\ crossed' = crossed
      BY <2>3
    <3> QED BY <2>2, <3>1, <3>2 DEF FlightKept
  <2> QED BY <2>4, AllKept
<1> QED BY <1>3, <1>4, <1>5, <1>6, <1>7, <1>8 DEF User

-----------------------------------------------------------------------------
LEMMA InitInv == Init => Inv
<1> SUFFICES ASSUME Init PROVE Inv OBVIOUS
<1>1. PICK u \in Network :
        /\ ui = [net |-> IF u # None THEN u ELSE Home, url |-> u, last |-> None,
                 networks |-> Empty, scenario |-> None, details |-> None,
                 headroom |-> None, current |-> None, prev |-> None,
                 selected |-> {}, list |-> {}, ws |-> FALSE]
        /\ visited = {u}
  BY DEF Init
<1>2. "mount" \in fresh /\ "current" \notin fresh /\ seen.ready = "none" /\ socket = "none"
  BY DEF Init
<1>3. MountInv /\ AddressInv
  BY <1>1, <1>2 DEF MountInv, AddressInv, NetDue, UrlDue
<1>4. DetailsInv /\ SelectionInv /\ HomeInv
  BY <1>1, <1>2 DEF DetailsInv, SelectionInv, HomeInv
<1>5. ShownInv /\ SocketInv
  BY <1>1, <1>2 DEF ShownInv, ScenarioDue, SocketInv
<1> QED BY <1>3, <1>4, <1>5 DEF Inv

LEMMA Inductive == TypeOK /\ Inv /\ [Next]_vars => Inv'
<1>1. ASSUME Inv, UNCHANGED vars PROVE Inv'
  BY <1>1, AllKept
  DEF vars, ViewKept, SelectionKept, FlightKept, SocketKept, Same, Awaited
<1> QED BY <1>1, RenderInv, AnswersInv, WebsocketInv, UserInv DEF Next

LEMMA Always == Spec => [](TypeOK /\ Inv)
<1>1. Init => TypeOK /\ Inv
  BY TypeInit, InitInv
<1>2. TypeOK /\ Inv /\ [Next]_vars => (TypeOK /\ Inv)'
  BY TypeStep, Inductive
<1> QED BY <1>1, <1>2, PTL DEF Spec

-----------------------------------------------------------------------------
(* The interfaces of MainContext say of every value they hold.             *)
THEOREM TypeCorrect == Spec => []TypeOK
BY Always, PTL

(* At rest the map is coloured by the details at hand, and the requests of *)
(* their scenario are selected: MainContext, the effects of the details    *)
(* and of the current requests.                                            *)
THEOREM DetailsShown == Spec => []DetailsAreShown
<1>1. TypeOK /\ Inv => DetailsAreShown
  <2> SUFFICES ASSUME TypeOK, Inv, Settled, ui.details # None
               PROVE  /\ ui.headroom = ui.details
                      /\ ui.current = ui.details
                      /\ RequestsOf[ui.details] \subseteq ui.selected
    BY DEF DetailsAreShown
  <2> QED BY AtRest DEF Inv, DetailsInv, Fresh, RequestsIn
<1> QED BY <1>1, Always, PTL

(* At rest the address does not name another network than the one shown,   *)
(* though one effect sets the network by the address and another the       *)
(* address by the network.                                                 *)
THEOREM AddressIsFollowed == Spec => []AddressFollows
<1>1. TypeOK /\ Inv => AddressFollows
  BY AtRest DEF AddressFollows
<1> QED BY <1>1, Always, PTL

(* At rest the details are those of the selected scenario, but for a       *)
(* failure, an answer to an earlier selection or a row of another network. *)
THEOREM SelectedShown == Spec => []SelectedIsShown
<1>1. TypeOK /\ Inv => SelectedIsShown
  BY AtRest DEF Inv, ShownInv, Awaited, Arrived, SelectedIsShown
<1> QED BY <1>1, Always, PTL

(* And then no request of a scenario that was shown before is selected any *)
(* more: MainContext, the effect that takes the requests of the scenario   *)
(* before from the selection, and the one that clears it.                  *)
THEOREM NothingLeft == Spec => []NothingLeftSelected
<1>1. TypeOK /\ Inv => NothingLeftSelected
  <2> SUFFICES ASSUME TypeOK, Inv, Arrived, crossed = "no"
               PROVE  ui.selected \subseteq chosen \cup RequestsOf[ui.scenario]
    BY DEF NothingLeftSelected
  <2>1. fresh = {} /\ ~ScenarioDue /\ ~Awaited /\ ui.scenario # None /\ ~strayed
    BY AtRest DEF Arrived, Awaited
  <2>2. ui.details = ui.scenario
    BY <2>1 DEF Inv, ShownInv
  <2>3. ui.current = ui.scenario
    BY <2>1, <2>2 DEF Inv, DetailsInv, Fresh
  <2> QED BY <2>1, <2>3 DEF Inv, SelectionInv, RequestsIn
<1> QED BY <1>1, Always, PTL

(* At rest the server has been sent the list that is shown:                *)
(* useScenarioProgress, the effect of the list and the readyState.         *)
THEOREM Subscribed == Spec => []SubscribedToList
<1>1. TypeOK /\ Inv => SubscribedToList
  BY AtRest DEF Inv, SocketInv, SubscribedToList
<1> QED BY <1>1, Always, PTL

-----------------------------------------------------------------------------
(* The effects come to rest.  What is left to do after one, two and three  *)
(* renders, when nothing has happened in between: the network of the       *)
(* address is shown, then entered or its default scenario selected, then   *)
(* the details of what is selected no longer are lost.  One render more    *)
(* is needed only before the first, where the address and the network are  *)
(* exchanged for one another.                                              *)
Quiet ==
  /\ fresh \subseteq {"details", "current", "other"}
  /\ "details" \in fresh => ui.details = None

Exchanged == ui.net = None /\ ui.url = ui.last /\ ui.details = None

AfterOne ==
  /\ Quiet
  /\ (UrlDue \/ NetDue) /\ ui.net # ui.url => Exchanged

AfterTwo ==
  /\ Quiet /\ "current" \notin fresh /\ Ready = seen.ready
  /\ ~UrlDue
  /\ NetDue => ui.net = ui.last /\ ui.details = None /\ ~ScenarioDue

AfterThree ==
  /\ Quiet /\ "current" \notin fresh /\ Ready = seen.ready
  /\ ~UrlDue /\ ~NetDue
  /\ ScenarioDue => ui.details = None

RestInv ==
  \/ renders = 0
  \/ renders = 1 /\ AfterOne
  \/ renders = 2 /\ AfterTwo
  \/ renders = 3 /\ AfterThree
  \/ renders = 4 /\ Settled

LEMMA RenderQuiet == TypeOK /\ Render => Quiet'
<1> SUFFICES ASSUME TypeOK, Render PROVE Quiet' OBVIOUS
<1>1. fresh' \subseteq {"details", "current", "other"}
  BY DEF Render, Replaced, When
<1>2. "details" \in fresh' => ui'.details = None
  BY RenderDue, RenderView
<1> QED BY <1>1, <1>2 DEF Quiet

(* Nothing takes details that are not there, so that requests are replaced *)
(* in the first render or not at all.                                      *)
LEMMA QuietRender ==
  ASSUME TypeOK, Render, Quiet
  PROVE  /\ "current" \notin fresh'
         /\ Ready' = seen'.ready
         /\ ScenarioDue' => NetDue /\ ui.net # None
<1>1. ~TakesDetails /\ ~Fresh("networks") /\ "tab" \notin fresh
  BY Effects DEF Quiet, Fresh
<1>2. "current" \notin fresh'
  BY <1>1, RenderDue
<1>3. seen'.ready = Ready /\ socket' = socket
  BY <1>1 DEF Render
<1>4. ui'.ws <=> ui.ws
  BY <1>1, RenderView
<1>5. Ready' = Ready
  BY <1>3, <1>4 DEF Ready
<1>6. ScenarioDue' => NetDue /\ ui.net # None
  BY <1>1, RenderDue, Effects
<1> QED BY <1>2, <1>3, <1>5, <1>6

LEMMA FirstRender == TypeOK /\ Inv /\ Render => AfterOne'
<1> SUFFICES ASSUME TypeOK, Inv, Render, (UrlDue \/ NetDue)', ui'.net # ui'.url
             PROVE  Exchanged'
  BY RenderQuiet DEF AfterOne
<1>1. EntersNetwork /\ FollowsAddress
  BY RenderDue, RenderView
<1>2. "mount" \in fresh
  BY <1>1, Effects DEF Inv, AddressInv
<1>3. ui.url = None
  BY <1>1, <1>2, Effects DEF Inv, MountInv
<1> QED BY <1>1, <1>3, RenderView DEF Exchanged

LEMMA SecondRender == TypeOK /\ AfterOne /\ Render => AfterTwo'
<1> SUFFICES ASSUME TypeOK, AfterOne, Render PROVE AfterTwo' OBVIOUS
<1>1. Quiet' /\ "current" \notin fresh' /\ Ready' = seen'.ready
  BY RenderQuiet, QuietRender DEF AfterOne
<1>2. ~UrlDue'
  BY RenderDue, Effects DEF AfterOne, Exchanged
<1>3. NetDue' => FollowsAddress /\ Exchanged /\ ~EntersNetwork
  BY RenderDue, Effects DEF AfterOne, Exchanged
<1>4. NetDue' => ui'.net = ui'.last /\ ui'.details = None
  BY <1>3, RenderView DEF Exchanged
<1>5. NetDue' => ~ScenarioDue'
  BY <1>3, QuietRender DEF AfterOne, Exchanged
<1> QED BY <1>1, <1>2, <1>4, <1>5 DEF AfterTwo

LEMMA ThirdRender == TypeOK /\ AfterTwo /\ Render => AfterThree'
<1> SUFFICES ASSUME TypeOK, AfterTwo, Render PROVE AfterThree' OBVIOUS
<1>1. Quiet' /\ "current" \notin fresh' /\ Ready' = seen'.ready
  BY RenderQuiet, QuietRender DEF AfterTwo
<1>2. ~EntersNetwork /\ ~FollowsAddress
  BY Effects DEF AfterTwo
<1>3. ~UrlDue' /\ ~NetDue'
  BY <1>2, RenderDue
<1>4. ScenarioDue' => ui'.details = None
  BY RenderView, QuietRender DEF AfterTwo
<1> QED BY <1>1, <1>3, <1>4 DEF AfterThree

LEMMA FourthRender == TypeOK /\ AfterThree /\ Render => Settled'
<1> SUFFICES ASSUME TypeOK, AfterThree, Render PROVE Settled' OBVIOUS
<1>1. ~EntersNetwork /\ ~FollowsAddress /\ ~TakesDetails /\ ~MergesCurrent
  BY Effects DEF AfterThree, Quiet, Fresh
<1>2. LosesDetails => ui.details = None
  BY Effects DEF AfterThree
<1>3. ~Subscribes
  BY Effects DEF AfterThree, Quiet, Fresh
<1>4. ~FetchesList
  BY DEF FetchesList, Due, AfterThree, Quiet, NetDue
<1>5. fresh' = {}
  BY <1>1, <1>2, <1>3, <1>4 DEF Render, Replaced, When
<1>6. ~NetDue' /\ ~UrlDue' /\ ~ScenarioDue'
  BY <1>1, RenderDue, QuietRender DEF AfterThree
<1> QED BY <1>5, <1>6 DEF Settled, NetDue, UrlDue, ScenarioDue

LEMMA RestStep == TypeOK /\ Inv /\ RestInv /\ [Next]_vars => RestInv'
<1> SUFFICES ASSUME TypeOK, Inv, RestInv, [Next]_vars PROVE RestInv' OBVIOUS
<1>1. CASE Render
  <2>1. renders' = renders + 1 /\ ~Settled
    BY <1>1 DEF Render
  <2> QED BY <1>1, <2>1, FirstRender, SecondRender, ThirdRender, FourthRender DEF RestInv
<1>2. CASE Answers \/ Websocket \/ User
  <2>1. renders' = 0
    BY <1>2
    DEF Answers, NetworksArrive, DetailsArrive, ListArrives, CreationArrives, DeletionArrives,
        Fails, Answered, Websocket, SocketOpens, SocketEnds, SocketTells, User, SelectNetwork,
        Navigate, SelectScenario, Tick, Pick, OpenTab, CreateScenario, DeleteScenario,
        SaveSettings, Click, Event
  <2> QED BY <2>1 DEF RestInv
<1>3. CASE UNCHANGED vars
  BY <1>3
  DEF vars, RestInv, AfterOne, AfterTwo, AfterThree, Quiet, Exchanged, NetDue, UrlDue,
      ScenarioDue, Ready, Settled
<1> QED BY <1>1, <1>2, <1>3 DEF Next

(* Four renders after any event are enough, for any networks and whatever  *)
(* has been answered: the effects of MainContext that set what others of   *)
(* them depend on do not set each other off for ever.                      *)
THEOREM RestsSoon ==
  ASSUME MaxRenders >= 4
  PROVE  Spec => []ComesToRest
<1>1. Init => RestInv
  BY DEF Init, RestInv
<1>2. TypeOK /\ Inv /\ RestInv /\ [Next]_vars => RestInv'
  BY RestStep
<1>3. RestInv => ComesToRest
  BY BoundsAssumption DEF RestInv, ComesToRest
<1> QED BY <1>1, <1>2, <1>3, Always, PTL DEF Spec

=============================================================================

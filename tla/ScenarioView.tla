---------------------------- MODULE ScenarioView ----------------------------
(***************************************************************************)
(* What a browser shows of a network and a scenario: the state and the     *)
(* effects of context/MainContext.tsx, of components/ScenariosTab and of   *)
(* hooks/useScenarioProgress.ts.                                           *)
(*                                                                         *)
(* An event (a click, an answer of the API, something of the websocket)    *)
(* sets state; React then renders and runs the effects whose dependencies  *)
(* have changed, which read the rendered state, ask the API, and set state *)
(* again, until nothing changes.  Answers come in any order, or fail, and  *)
(* may come between two renders; nothing cancels a request or compares its *)
(* answer with what is selected by then.  A person is slower than React.   *)
(***************************************************************************)
EXTENDS Naturals, Bags

CONSTANTS
  Networks, Scenarios, Requests,
  NetOf,         (* [Scenarios -> Networks]                                 *)
  RequestsOf,    (* [Scenarios -> SUBSET Requests]                          *)
  ListedIn,      (* [Requests -> Networks]                                  *)
  Defaults,      (* the default scenarios listNetworks may answer           *)
  Pages,         (* the pages listConnectionScenarios may answer            *)
  Home,          (* VITE_DEFAULT_NETWORK_ID, a network or None              *)
  None, Empty, Undefined,
  MaxClicks,     (* bound on what the user does                             *)
  MaxRenders     (* renders after an event until nothing changes            *)

ASSUME ScenariosAssumption ==
  /\ NetOf \in [Scenarios -> Networks]
  /\ RequestsOf \in [Scenarios -> SUBSET Requests]
  /\ ListedIn \in [Requests -> Networks]
ASSUME DefaultsAssumption ==
  \A d \in Defaults : /\ d \in [Networks -> Scenarios \cup {None}]
                      /\ \A n \in Networks : d[n] # None => NetOf[d[n]] = n
ASSUME PagesAssumption == Pages \subseteq SUBSET Scenarios
ASSUME NamesAssumption ==
  /\ Home \in Networks \cup {None}
  /\ {None, Undefined} \cap (Networks \cup Scenarios) = {} /\ None # Undefined
  /\ Empty \notin Defaults
ASSUME BoundsAssumption == MaxClicks \in Nat /\ MaxRenders \in Nat

VARIABLES
  ui,          (* the state of the components, see View                     *)
  fresh,       (* objects and arrays replaced since the last render         *)
  seen,        (* the other dependencies, as the effects last saw them      *)
  flight,      (* bag of the requests the API has not answered yet          *)
  socket,      (* readyState of the websocket                               *)
  subscribed,  (* the scenarios the server was last sent                    *)
  visited,     (* the addresses in the history of the browser               *)
  clicks,
  chosen,      (* history: requests the user has ticked in this network     *)
  renders,     (* history: renders since the last event                     *)
  crossed,     (* history: "failed" or "late" when the last that was heard   *)
               (* of details is a failure, or is of a scenario that was not *)
               (* selected by then, else "no"                               *)
  strayed      (* history: a row of another network's list was selected     *)

vars == <<ui, fresh, seen, flight, socket, subscribed, visited, clicks,
          chosen, renders, crossed, strayed>>
link == <<socket, subscribed>>
history == <<chosen, crossed, strayed>>
bounds == <<visited, clicks>>

Network == Networks \cup {None}
Scenario == Scenarios \cup {None}

(* Details, headroom and current requests are represented by the scenario  *)
(* they are of.                                                            *)
View == [
  net: Network,             (* currentNetworkId                             *)
  url: Network,             (* searchParams.get('netId')                    *)
  last: Network,            (* lastNetworkId                                *)
  networks: Defaults \cup {Empty},
  scenario: Scenario,       (* currentScenarioId                            *)
  details: Scenario,        (* currentScenarioDetails                       *)
  headroom: Scenario,
  current: Scenario,        (* currentScenarioConnectionRequestsUnified     *)
  prev: Scenario,           (* prevScenarioConnectionRequestsUnified        *)
  selected: SUBSET Requests,(* selectedConnectionRequestsUnified            *)
  list: SUBSET Scenarios,   (* connectionScenariosList                      *)
  ws: BOOLEAN]              (* scenariosWS is not null                      *)

Objects == {"mount", "tab", "networks", "details", "current", "list", "created", "other"}
Request == [kind: {"networks", "details", "list", "create", "delete"},
            net: Network, scenario: Scenario]

(* What the interfaces of MainContext and the hook say of their values: an *)
(* id is null rather than undefined, a network shown is one there is.      *)
TypeOK ==
  /\ ui \in View
  /\ fresh \subseteq Objects
  /\ seen \in [net: Network \cup {Undefined}, url: Network \cup {Undefined},
               scenario: Scenario \cup {Undefined},
               ready: {"none", "connecting", "open", "closed"}]
  /\ IsABag(flight) /\ DOMAIN flight \subseteq Request
  /\ socket \in {"none", "connecting", "open", "closed"}
  /\ subscribed \subseteq Scenarios
  /\ visited \subseteq Network
  /\ clicks \in 0..MaxClicks
  /\ chosen \subseteq Requests
  /\ renders \in Nat
  /\ crossed \in {"no", "failed", "late"}
  /\ strayed \in BOOLEAN

Asked(kind, net, scenario) == [kind |-> kind, net |-> net, scenario |-> scenario]

(* Before the first render, with the tab of the scenarios or without: all  *)
(* effects are to run; the one that lists the networks is taken to have.   *)
Init ==
  /\ \E u \in Network :
       /\ ui = [net |-> IF u # None THEN u ELSE Home, url |-> u, last |-> None,
                networks |-> Empty, scenario |-> None, details |-> None,
                headroom |-> None, current |-> None, prev |-> None,
                selected |-> {}, list |-> {}, ws |-> FALSE]
       /\ visited = {u}
  /\ fresh \in {{"mount"}, {"mount", "tab"}}
  /\ seen = [net |-> Undefined, url |-> Undefined, scenario |-> Undefined, ready |-> "none"]
  /\ flight = SetToBag({Asked("networks", None, None)})
  /\ socket = "none"
  /\ subscribed = {}
  /\ clicks = 0
  /\ chosen = {}
  /\ renders = 0
  /\ crossed = "no"
  /\ strayed = FALSE

-----------------------------------------------------------------------------
(* The effects.  An effect is due when one of its dependencies is.         *)
Due(objects, keys) ==
  \/ fresh \cap (objects \cup {"mount"}) # {}
  \/ \E k \in keys : ui[k] # seen[k]

Settled == fresh = {} /\ \A k \in {"net", "url", "scenario"} : ui[k] = seen[k]

Ready == IF ui.ws THEN socket ELSE "none"
Mounted == socket # "none" \/ "tab" \in fresh
RequestsIn(s) == IF s = None THEN {} ELSE RequestsOf[s]
When(condition, set) == IF condition THEN set ELSE {}

(* [networks, currentNetworkId]; wrong on purpose without the || null. *)
DefaultOrUndefined ==
  IF Due({"networks"}, {"net"}) /\ ui.networks # Empty /\ ui.net # None
    THEN IF ui.networks[ui.net] = None THEN Undefined ELSE ui.networks[ui.net]
    ELSE ui.scenario

DefaultScenario ==
  IF Due({"networks"}, {"net"}) /\ ui.networks # Empty /\ ui.net # None
    THEN ui.networks[ui.net]
    ELSE ui.scenario

(* [currentScenarioId]; wrong on purpose, for the first scenario only. *)
FetchesFirstDetails ==
  Due({}, {"scenario"}) /\ ui.scenario # None /\ ui.details = None

FetchesDetails == Due({}, {"scenario"}) /\ ui.scenario # None
LosesDetails == Due({}, {"scenario"}) /\ ui.scenario = None

(* [currentScenarioDetails] *)
TakesDetails == Due({"details"}, {}) /\ ui.details # None

(* [currentScenarioConnectionRequestsUnified]; wrong on purpose, with the  *)
(* dependency of the one before.                                           *)
MergesBeforeAnswer == Due({}, {"scenario"})

MergesCurrent == Due({"current"}, {})

(* [searchParams]; wrong on purpose, only where no network is shown. *)
FollowsFirstAddress == Due({}, {"url"}) /\ ui.net = None

FollowsAddress == Due({}, {"url"}) /\ ui.net # ui.url

(* [currentNetworkId]; wrong on purpose, for no network as well. *)
EntersAnything == Due({}, {"net"}) /\ ui.net # ui.last

EntersNetwork == Due({}, {"net"}) /\ ui.net \notin {None, ui.last}

(* [scenariosList, scenariosWS?.readyState] of the hook; wrong on purpose  *)
(* without the readyState.                                                 *)
SubscribesToNewList == Mounted /\ Due({"list", "tab"}, {})

Subscribes == Mounted /\ (Due({"list", "tab"}, {}) \/ Ready # seen.ready)

(* [currentNetworkId, createdScenariosIds, ...] of the tab *)
FetchesList == Mounted /\ Due({"tab", "created"}, {"net"}) /\ ui.net # None

(* The effects run in their order: the merge of the current requests       *)
(* precedes the clearing of all.  Wrong on purpose, without the requests   *)
(* of the scenario before.                                                 *)
SelectedMore ==
  IF EntersNetwork THEN {}
  ELSE IF MergesCurrent THEN ui.selected \cup RequestsIn(ui.current)
  ELSE ui.selected

Selected ==
  IF EntersNetwork THEN {}
  ELSE IF MergesCurrent
    THEN (ui.selected \ RequestsIn(ui.prev)) \cup RequestsIn(ui.current)
  ELSE ui.selected

(* The state after the effects. *)
After ==
  [ui EXCEPT
     !.scenario = DefaultScenario,
     !.details = IF LosesDetails \/ EntersNetwork THEN None ELSE @,
     !.headroom = IF TakesDetails THEN ui.details ELSE @,
     !.current = IF TakesDetails THEN ui.details ELSE @,
     !.prev = IF TakesDetails THEN ui.current ELSE @,
     !.selected = Selected,
     !.net = IF FollowsAddress THEN ui.url ELSE @,
     !.url = IF EntersNetwork THEN ui.net ELSE @,
     !.last = IF EntersNetwork THEN ui.net ELSE @,
     !.ws = @ \/ "tab" \in fresh]

(* What that replaces, of the state that is modelled.  The sources of the  *)
(* map, the warnings and the tables have setters of their own, whose       *)
(* renders change nothing an effect above depends on.                      *)
Replaced ==
  When((LosesDetails \/ EntersNetwork) /\ ui.details # None, {"details"})
  \cup When(TakesDetails, {"current"})
  \cup When(MergesCurrent \/ EntersNetwork \/ Subscribes \/ FetchesList, {"other"})

NewRequests ==
  When(FetchesList, {Asked("list", ui.net, None)})
  \cup When(FetchesDetails, {Asked("details", ui.net, ui.scenario)})

(* A render, and the effects after it. *)
Render ==
  /\ ~Settled
  /\ ui' = After
  /\ fresh' = Replaced
  /\ seen' = [net |-> ui.net, url |-> ui.url, scenario |-> ui.scenario, ready |-> Ready]
  /\ flight' = flight (+) SetToBag(NewRequests)
  /\ socket' = IF "tab" \in fresh THEN "connecting" ELSE socket
  /\ subscribed' = IF Subscribes /\ Ready = "open" THEN ui.list ELSE subscribed
  /\ visited' = visited \cup {After.url}
  /\ chosen' = IF EntersNetwork THEN {} ELSE chosen
  /\ renders' = renders + 1
  /\ crossed' = IF FetchesDetails THEN "no" ELSE crossed
  /\ UNCHANGED <<clicks, strayed>>

-----------------------------------------------------------------------------
(* Answers.                                                                *)

Event == renders' = 0

Answered(f) == Event /\ flight' = flight (-) SetToBag({f})

Replaces(object, key, value) ==
  /\ ui' = [ui EXCEPT ![key] = value]
  /\ fresh' = fresh \cup {object}

NetworksArrive ==
  \E f \in DOMAIN flight, d \in Defaults :
    /\ f.kind = "networks"
    /\ Answered(f)
    /\ Replaces("networks", "networks", d)
    /\ UNCHANGED <<seen, link, bounds, history>>

(* The API looks for the scenario in the network, see Fails. *)
DetailsArrive ==
  \E f \in DOMAIN flight :
    /\ f.kind = "details"
    /\ NetOf[f.scenario] = f.net
    /\ Answered(f)
    /\ Replaces("details", "details", f.scenario)
    /\ crossed' = IF f.scenario = ui.scenario THEN "no" ELSE "late"
    /\ UNCHANGED <<seen, link, bounds, chosen, strayed>>

(* A page of the list of the network asked for. *)
ListArrives ==
  \E f \in DOMAIN flight : \E items \in Pages :
    /\ f.kind = "list"
    /\ \A s \in items : NetOf[s] = f.net
    /\ Answered(f)
    /\ Replaces("list", "list", items)
    /\ UNCHANGED <<seen, link, bounds, history>>

CreationArrives ==
  \E f \in DOMAIN flight :
    /\ f.kind = "create"
    /\ Answered(f)
    /\ fresh' = fresh \cup {"created"}
    /\ UNCHANGED <<ui, seen, link, bounds, history>>

(* What follows the deletion has been bound with it: the list of the       *)
(* network it was asked in.                                                *)
DeletionArrives ==
  \E f \in DOMAIN flight :
    /\ f.kind = "delete"
    /\ Event
    /\ flight' = (flight (-) SetToBag({f})) (+) SetToBag({Asked("list", f.net, None)})
    /\ fresh' = fresh \cup {"other"}
    /\ UNCHANGED <<ui, seen, link, bounds, history>>

(* A message is shown; a list that was loading is not any more. *)
Fails ==
  \E f \in DOMAIN flight :
    /\ Answered(f)
    /\ fresh' = fresh \cup When(f.kind = "list", {"other"})
    /\ crossed' = IF f.kind = "details" THEN "failed" ELSE crossed
    /\ UNCHANGED <<ui, seen, link, bounds, chosen, strayed>>

-----------------------------------------------------------------------------
(* The websocket.  Its opening is logged and no more; once it has closed,  *)
(* scenariosWS is null, and nothing makes a new one: the timer that should *)
(* sees the one that failed.  Between two renders it is quiet.             *)

SocketOpens ==
  /\ Settled
  /\ socket = "connecting"
  /\ Event
  /\ socket' = "open"
  /\ UNCHANGED <<ui, fresh, seen, flight, subscribed, bounds, history>>

SocketEnds ==
  /\ Settled
  /\ socket \in {"connecting", "open"}
  /\ Event
  /\ socket' = "closed"
  /\ subscribed' = {}
  /\ Replaces("other", "ws", FALSE)
  /\ UNCHANGED <<seen, flight, bounds, history>>

(* Progress of a scenario is kept for its row, which is rendered. *)
SocketTells ==
  /\ Settled
  /\ socket = "open"
  /\ subscribed # {}
  /\ Event
  /\ fresh' = fresh \cup {"other"}
  /\ UNCHANGED <<ui, seen, flight, link, bounds, history>>

-----------------------------------------------------------------------------
(* The user.                                                               *)

Click == Settled /\ clicks < MaxClicks /\ clicks' = clicks + 1 /\ Event

(* NetworkSelect offers the networks once they are listed. *)
SelectNetwork(n) ==
  /\ Click
  /\ ui.networks # Empty
  /\ n # ui.net
  /\ ui' = [ui EXCEPT !.net = n]
  /\ UNCHANGED <<fresh, seen, flight, link, visited, history>>

(* Back and forward. *)
Navigate(u) ==
  /\ Click
  /\ u \in visited
  /\ ui' = [ui EXCEPT !.url = u]
  /\ UNCHANGED <<fresh, seen, flight, link, visited, history>>

(* A row of the list as it is shown. *)
SelectScenario(s) ==
  /\ Click
  /\ s \in ui.list
  /\ ui' = [ui EXCEPT !.scenario = s]
  /\ strayed' = (strayed \/ NetOf[s] # ui.net)
  /\ UNCHANGED <<fresh, seen, flight, link, visited, chosen, crossed>>

(* Requests of the current scenario cannot be unticked.  The table shows   *)
(* what was answered last: its rows may be of any network whose requests   *)
(* were ever asked for, when the answers cross or the newest one failed.   *)
Tick(r) ==
  /\ Click
  /\ ListedIn[r] \in visited
  /\ r \notin RequestsIn(ui.current)
  /\ LET toggled(set) == IF r \in ui.selected THEN set \ {r} ELSE set \cup {r}
     IN  /\ Replaces("other", "selected", toggled(ui.selected))
         /\ chosen' = toggled(chosen)
  /\ UNCHANGED <<seen, flight, link, visited, crossed, strayed>>

(* An element of the map is picked: all is rendered once more. *)
Pick ==
  /\ Click
  /\ fresh' = fresh \cup {"other"}
  /\ UNCHANGED <<ui, seen, flight, link, visited, history>>

OpenTab ==
  /\ Click
  /\ ~Mounted
  /\ fresh' = fresh \cup {"tab"}
  /\ UNCHANGED <<ui, seen, flight, link, visited, history>>

(* Offered for a selection longer than the current scenario's list.  What  *)
(* is ticked and of the scenario is in it twice, which the set leaves out. *)
CreateScenario ==
  /\ Click
  /\ ui.selected # {}
  /\ flight' = flight (+) SetToBag({Asked("create", ui.net, None)})
  /\ UNCHANGED <<ui, fresh, seen, link, visited, history>>

DeleteScenario ==
  /\ Click
  /\ ui.list # {}
  /\ ui.net # None
  /\ flight' = flight (+) SetToBag({Asked("delete", ui.net, None)})
  /\ UNCHANGED <<ui, fresh, seen, link, visited, history>>

(* The settings of the network are stored, and the networks listed again. *)
SaveSettings ==
  /\ Click
  /\ ui.net # None
  /\ flight' = flight (+) SetToBag({Asked("networks", None, None)})
  /\ UNCHANGED <<ui, fresh, seen, link, visited, history>>

-----------------------------------------------------------------------------
Answers ==
  \/ NetworksArrive \/ DetailsArrive \/ ListArrives
  \/ CreationArrives \/ DeletionArrives \/ Fails
Websocket == SocketOpens \/ SocketEnds \/ SocketTells
User ==
  \/ \E n \in Networks : SelectNetwork(n)
  \/ \E u \in Network : Navigate(u)
  \/ \E s \in Scenarios : SelectScenario(s)
  \/ \E r \in Requests : Tick(r)
  \/ Pick \/ OpenTab \/ CreateScenario \/ DeleteScenario \/ SaveSettings

Next == Render \/ Answers \/ Websocket \/ User

Spec == Init /\ [][Next]_vars

-----------------------------------------------------------------------------
(* At rest, the details at hand are those the map is coloured by and the   *)
(* requests of their scenario are all selected.                            *)
DetailsAreShown ==
  Settled /\ ui.details # None =>
    /\ ui.headroom = ui.details
    /\ ui.current = ui.details
    /\ RequestsOf[ui.details] \subseteq ui.selected

(* At rest, the address names no other network than the one that is shown; *)
(* it may name none, when the user has gone back to such an address and    *)
(* selects the network that was shown last.                                *)
AddressFollows == Settled => ui.url \in {ui.net, None}

(* At rest, with no details on their way, the details are those of the     *)
(* selected scenario, unless the last word was a failure or the answer to  *)
(* an earlier selection.  When a row of another network's list was         *)
(* selected, the next change of network may take the details and leave the *)
(* selection, for which nothing asks again.                                *)
Arrived ==
  /\ Settled
  /\ ui.scenario # None
  /\ ~strayed
  /\ \A f \in DOMAIN flight : f.kind # "details"

SelectedIsShown == Arrived /\ crossed = "no" => ui.details = ui.scenario

(* Then what is selected is of that scenario or was ticked since the       *)
(* network was entered: no request of a scenario that was shown before is  *)
(* left, in whatever order scenarios and networks were selected.           *)
NothingLeftSelected ==
  Arrived /\ crossed = "no" =>
    ui.selected \subseteq chosen \cup RequestsOf[ui.scenario]

(* At rest, the server has the list that is shown, if anything has been    *)
(* rendered since the websocket opened.                                    *)
SubscribedToList ==
  Settled /\ ui.ws /\ socket = "open" /\ seen.ready = "open" => subscribed = ui.list

(* The effects come to rest after any event, and soon: they do not set     *)
(* each other off for ever.  The renders counted are those after a state   *)
(* that is modelled was set.                                               *)
ComesToRest == renders <= MaxRenders

=============================================================================

CONSTANTS
  n1 = n1
  n2 = n2
  s1 = s1
  s2 = s2
  s3 = s3
  r1 = r1
  Networks = {n1, n2}
  Scenarios = {s1, s2, s3}
  Requests = {r1}
  NetOf <- TwoNets
  RequestsOf <- Shared
  ListedIn <- Listed
  Defaults <- OneDefault
  Pages <- OnePage
  Home = n1
  None = None
  Empty = Empty
  Undefined = Undefined
  MaxClicks = 3
  MaxRenders = 4
SPECIFICATION Spec
CHECK_DEADLOCK FALSE
INVARIANTS
  TypeOK
  DetailsAreShown
  NothingLeftSelected
  AddressFollows
  SelectedIsShown
  SubscribedToList
  ComesToRest

SPECIFICATION Spec
CONSTANTS
  p1 = p1
  p2 = p2
  p3 = p3
  alice = alice
  bob = bob
  h1 = h1
  h2 = h2
  NoOne = NoOne
  Intents = {p1, p2, p3}
  Calls = {h1, h2}
  Consumers <- MCConsumers
  Scopes <- MCScopes
  Targets = {"invoice 1", "invoice 2"}
  Request <- MCRequest
  Risk <- MCRisk
  Action <- MCAction
  Prechecked = {}
  Destructive = {}
  Confirmed = {}
  Blocked = {}
  StrictScopes = {}
  Executors = {alice}
  Approvers = {alice, bob}
  DistinctApprover = TRUE
  Elicitation = FALSE
  PerActionCap = 1
  DailyCap = 1
  StoreDurable = TRUE
  LedgerDurable = TRUE
  TallyDurable = TRUE
  Window = 1
  TTL = 3
  DayLength = 1
  Edited = {"billing:payment:add"}
  MaxTime = 1
  MaxCrashes = 0
SYMMETRY MCSymmetry
INVARIANTS
  NoReplayInWindow
  DailySpendBounded
PROPERTIES
  DispatchAuthorized

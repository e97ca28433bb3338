SPECIFICATION Spec
CONSTANTS
  r1 = r1
  r2 = r2
  alice = alice
  bob = bob
  h1 = h1
  h2 = h2
  NoOne = NoOne
  Intents = {r1, r2}
  Calls = {h1, h2}
  Consumers <- MCConsumers
  Scopes <- MCScopes
  Targets = {"svc"}
  Request <- MCRename
  Risk <- MCRisk
  Action <- MCAction
  Prechecked = {"service:domain_rename"}
  Destructive = {}
  Confirmed = {}
  Blocked = {}
  StrictScopes = {}
  Executors = {alice}
  Approvers = {alice, bob}
  DistinctApprover = TRUE
  Elicitation = TRUE
  PerActionCap = 0
  DailyCap = 0
  StoreDurable = TRUE
  LedgerDurable = TRUE
  TallyDurable = TRUE
  Window = 1
  TTL = 1
  DayLength = 9
  Edited = {}
  MaxTime = 1
  MaxCrashes = 0
INVARIANT
  ConcurrentAttemptIsReplay
CHECK_DEADLOCK FALSE

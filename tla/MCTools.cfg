SPECIFICATION ToolsSpec
CONSTANTS
  ToolCalls = {"k1", "k2"}
  Asks <- MCAsks
  LookAlikes <- MCLookAlikes
  Rate = 1
  KeyWindow = 2
  CacheLimit = 1
  Evicted = 1
  Total = 2
  MaxSeconds = 3
  Events = {"e1", "e2"}
  Window = 3
  MaxEventTime = 9
  MaxRestarts = 1
  Drafts <- MCDrafts
  Family = "9.x"
  Cap = 4
  Due = 6
  Rows <- MCToolRows
  Worlds <- MCToolWorlds
  Users <- MCUsers
  JobRows <- MCOthersDo
  JobCalls <- MCJobCalls
  StaffIds = {"desk"}
  StaffSubs = {"operator"}
  Callers = {"ask", "draft"}
  Releases <- MCReleases
  ProfileTtl = 2
  SharedStages = {1}
  StageLag = 1
  MaxInstant = 3
  Page = 2
  MaxMoves = 1
  Clients = {"ann"}
  Reports <- MCReports
  Touched <- MCRows
  Limit = 1
  Granted <- MCGranted
  ListIds = {1, 2, 3, 4}
  Limits = {1, 2}
  FetchSizes = {2}
  ScanLimits = {3, 9}
  MaxPageSize = 2
  MaxScanPages = 2
  MaxScanItems = 9
  MaxListMoves = 1
  Setups <- MCSetups
  Versions <- MCVersions
  Requests <- MCRequests
  Leaves <- MCLeaves
  Families <- MCFamilies
  Ttl = 1
  MaxMoment = 3
  MaxEdits = 1
  Preflights = {"p1", "p2"}
  Planners = {"ops"}
  Catalog <- MCCatalog
  Probeable = {"aging"}
  Candidates <- MCCandidates
  GrantSets <- MCGrantSets
  Processes <- MCProcesses
  EvidenceTtl = 1
  SharedReads = {"GetInvoices"}
  AnswerLag = 1
  PlanTtls = {2}
  PreflightTtl = 2
  MaxPlanTtl = 2
  MaxFanOut = 8
  MaxPlanCalls = 1
  MaxTick = 3
  MaxUpheavals = 1
INVARIANTS
  RepeatsJudged
  AdmittedBounded
  SettledOnce
  JudgedInFull
  AnswersExplained
  MatchesAccounted
  ChainComplete
  RevocationBites
  PrincipalBacked
  FamilyCurrent
PROPERTIES
  DraftsBacked
CHECK_DEADLOCK FALSE

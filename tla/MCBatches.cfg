SPECIFICATION BatchesSpec
CONSTANTS
  b1 = b1
  b2 = b2
  b3 = b3
  b4 = b4
  c1 = c1
  c2 = c2
  NoBatch = NoBatch
  Batches = {b1, b2, b3, b4}
  Runs = {c1, c2}
  Services <- MCServices
  Asked <- MCAsked
  NaturalKey <- MCNaturalKey
  DryRun = {b3}
  StartPrice <- MCStartPrice
  AnyPrice <- MCAnyPrice
  PerTargetCap = 2
  RestoreCap = 1
  DedupeWindow = 2
  LedgerDurable = TRUE
  DayDurable = FALSE
  MaxClock = 2
  MaxEvents = 1
  t1 = t1
  t2 = t2
  i1 = i1
  i2 = i2
  i3 = i3
  Free = Free
  Transfers = {t1, t2}
  Executions = {c1, c2}
  Clients <- MCClients
  Hosting <- MCHosting
  Invoices = {i1, i2, i3}
  Wanted <- MCWanted
  FirstOwner <- MCFirstOwner
  FirstInvoices <- MCFirstInvoices
  MaxOutside = 3
  MaxBatch = 2
  Nobody = Nobody
  CreditIntents = {b1, b2}
  CreditCalls = {c1, c2}
  Move <- MCMove
  Drafter = "ann"
  CreditApprovers = {"ann", "cfo"}
  FinanceApprovers = {"ann", "cfo"}
  FinanceAlways = FALSE
  FinanceWhenTaxed = TRUE
  TransferCap = 1
  TransferDailyCap = 2
  RecordsOnDisk = TRUE
  MaxMishaps = 1
  r1 = r1
  r2 = r2
  r3 = r3
  r4 = r4
  w1 = w1
  w2 = w2
  NoOne = NoOne
  Calls = {r1, r2, r4, w1}
  Effect <- MCEffect
  AttemptBudget = 1
  AutoHeal = TRUE
  Cooldown = 2
  MaxTime = 2
  Entities = {"client", "shop"}
  Keys = {"details", "products"}
  EntityOf <- MCEntityOf
  Tagged = {"details"}
  Input <- MCInput
  MaxEntries = 1
SYMMETRY BatchesSymmetry
INVARIANTS
  TargetOnce
  TallyTrue
  InvoicesFollow
  TransfersAccounted
  ReadsFresh
  CacheFresh
PROPERTIES
  TransferWhole
CHECK_DEADLOCK FALSE

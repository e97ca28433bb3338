SPECIFICATION GatewaySpec
CONSTANTS
  n1 = n1
  n2 = n2
  q1 = q1
  m1 = m1
  Requests = {}
  Kind <- MCKind
  Target <- MCTarget
  Consumer <- MCConsumer
  MaxSessions = 1
  IdleLimit = 0
  MaxClock = 1
  a1 = a1
  a2 = a2
  b1 = b1
  c1 = c1
  cat = cat
  r1 = r1
  r2 = r2
  w1 = w1
  ann = ann
  ben = ben
  NoOne = NoOne
  ReadCalls = {a1, a2, b1, c1}
  Consumers = {ann, ben, cat}
  Keys = {"k", "m"}
  Input <- MCOwn
  MaxConcurrency = 1
  Calls = {}
  Effect <- MCEffect
  AttemptBudget = 2
  AutoHeal = TRUE
  Cooldown = 2
  MaxTime = 1
PROPERTIES
  QueuedReadRuns
CHECK_DEADLOCK FALSE

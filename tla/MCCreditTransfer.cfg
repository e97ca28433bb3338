SPECIFICATION Spec
CONSTANTS
  t = t
  u = u
  v = v
  w = w
  ann = ann
  ben = ben
  cat = cat
  NoOne = NoOne
  Calls = {t, u, v, w}
  Clients = {ann, ben, cat}
  Requests = {"A", "B", "R"}
  Input <- MCInput
  Opening <- MCOpening
  StateDurable = TRUE
  MaxCrashes = 1
INVARIANTS
  OneDebitPerRequest
  LossOnRecord
  RecordMatchesRows
CHECK_DEADLOCK FALSE

SPECIFICATION Spec
CONSTANTS
  t = t
  u = u
  v = v
  w = w
  ann = ann
  ben = ben
  cat = cat
  NoOne = NoOne
  Calls = {t, u, v}
  Clients = {ann, ben, cat}
  Requests = {"A", "B", "R"}
  Input <- MCInput
  Opening <- MCOpening
  StateDurable = TRUE
  MaxCrashes = 1
PROPERTIES
  CalledReturns
  SettlesOnce
CHECK_DEADLOCK FALSE

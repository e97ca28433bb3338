SPECIFICATION Spec
CONSTANTS
  r1 = r1
  r2 = r2
  r3 = r3
  r4 = r4
  w1 = w1
  w2 = w2
  NoOne = NoOne
  Calls = {r2, r3, w2}
  Effect <- MCEffect
  AttemptBudget = 2
  AutoHeal = FALSE
  Cooldown = 1
  MaxTime = 1
  Entities = {"client", "shop"}
  Keys = {"details", "products"}
  EntityOf <- MCEntityOf
  Tagged = {"details"}
  Input <- MCInput
  MaxEntries = 1
INVARIANTS
  SharedCacheFresh

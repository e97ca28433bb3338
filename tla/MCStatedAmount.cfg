SPECIFICATION ParamsSpec
CONSTANTS
  Drafts <- MCCaptures
  Family = "9.x"
  Cap = 4
  Due = 6
INVARIANT PerActionCapHolds
CHECK_DEADLOCK FALSE

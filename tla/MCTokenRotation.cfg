SPECIFICATION GovernanceSpec
CONSTANTS
  Setups <- MCOverHttp
  Versions <- MCRotation
  Requests <- MCRequests
  Leaves <- MCLeaves
  Families <- MCFamilies
  Ttl = 1
  MaxMoment = 3
  MaxEdits = 1
INVARIANTS
  RotationBites
CHECK_DEADLOCK FALSE

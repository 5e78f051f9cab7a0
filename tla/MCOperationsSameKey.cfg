CONSTANTS
  o1 = o1
  o2 = o2
  k1 = k1
  NoKey = NoKey
  NoOrg = NoOrg
  NoId = 0
  MaxRequests = 2
  Orgs <- MCOneOrg
  Keys <- MCKeys
  Fallible <- NoneFallible
SPECIFICATION Spec
INVARIANTS
  SameKeySameOp

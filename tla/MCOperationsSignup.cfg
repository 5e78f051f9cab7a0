CONSTANTS
  o1 = o1
  o2 = o2
  k1 = k1
  NoKey = NoKey
  NoOrg = NoOrg
  NoId = 0
  MaxRequests = 0
  Orgs <- MCOneOrg
  Keys <- MCKeys
  Fallible <- SignupFallible
SPECIFICATION Spec
INVARIANTS
  SignupIsAtomic

CONSTANTS
  o1 = o1
  o2 = o2
  k1 = k1
  NoKey = NoKey
  NoOrg = NoOrg
  NoId = 0
  MaxRequests = 3
  Orgs <- MCOrgs
  Keys <- MCKeys
  Fallible <- MCFallible
SPECIFICATION Spec
ACTION_CONSTRAINT SignupsFirst
SYMMETRY MCSymmetry
INVARIANTS
  TypeOK
  SucceededIsReady
  BranchInOwnProject
  EndpointOnReadyBranch
  StoredOrgsAreComplete
  MeteringMatches
  UriLeadsBack
  ReplyNamesOperation
PROPERTIES
  OpSettlesOnce
  RetryReplays
  DeliveryIsAtomic

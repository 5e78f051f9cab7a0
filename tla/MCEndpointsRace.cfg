CONSTANTS
  e1 = e1
  e2 = e2
  b1 = b1
  b2 = b2
  c1 = c1
  c2 = c2
  s1 = s1
  s2 = s2
  NoBranch = NoBranch
  NoConn = NoConn
  NoEndpoint = NoEndpoint
  EndpointIds <- MCOneEndpoint
  Branches <- MCOneBranch
  Conns <- MCConns
  Suspends <- MCSuspends
  Policy = "load-proportional"
  FixedSize = 0
  BufferNum = 1
  BufferDen = 1
  MinReady = 0
  MaxReady = 1
  Fallible <- NoneFallible
  MaxAcquires = 0
SPECIFICATION EndpointSpec
INVARIANTS
  RegistryRaceFree

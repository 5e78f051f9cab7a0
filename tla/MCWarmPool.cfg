CONSTANTS
  Policy = "load-proportional"
  FixedSize = 0
  BufferNum = 3
  BufferDen = 2
  MinReady = 1
  MaxReady = 3
  Fallible <- MCFallible
  MaxAcquires = 4
SPECIFICATION PoolSpec
INVARIANTS
  PoolTypeOK
  PoolPartition
  PoolWithinCapacity
  FilledToTarget
  PoolAccounting
PROPERTIES
  MissOnlyWhenShort

SPECIFICATION Spec
CONSTANTS
  Permits <- OneCorePermits
  PoolSize <- OneCorePoolSize
  BatchLen = 1
PROPERTY EveryTaskEnds
CHECK_DEADLOCK FALSE

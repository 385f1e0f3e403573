SPECIFICATION Spec
CONSTANTS
  Permits = 3
  PoolSize = 3
  BatchLen = 2
INVARIANTS TypeOK NoCircularWait
PROPERTIES BatchDrains EveryTaskEnds

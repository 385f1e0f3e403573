SPECIFICATION Spec
CONSTANTS
  None = None
  Second = 2
  TimeLimits <- HalfSeconds
  SetUpTime = 3
  Burst = 1
  Retries = 2
  MaxFaults = 2
INVARIANTS SandboxInv StoppedForTimeIsTold MemoryIsMemory LimitWasGranted NoOrphan GroupIsRemoved
PROPERTY JudgementEnds

SPECIFICATION FairServerSpec
CONSTANTS
  None = None
  Requests = {p1, p2}
  Polls = {g1}
  PoolSize = 2
  Limit = 1
  Window = 2
  MaxDelay = 2
  Horizon = 5
INVARIANTS ServerInv SecondPoolFree NothingUncounted RetryIsSafe LimiterInv BucketBound PairBound
PROPERTIES ShutdownEnds

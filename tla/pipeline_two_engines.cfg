SPECIFICATION Spec
CONSTANTS
  Submissions = {s1, s2, s3}
  Malformed = {}
  Engines = {e1, e2}
  NoEngine = NoEngine
  Verdicts = {"success"}
  Permits = 1
  BatchLen = 1
  Crashes = 1
  Panics = 1
  LostReads = 1
  LostWrites = 0
  Flushes = 1
  MaxFaults <- MCMaxFaults
SYMMETRY Symmetry
INVARIANTS AtMostOnce Backpressure BlastRadius
PROPERTIES StrandedForGood ImplementsService

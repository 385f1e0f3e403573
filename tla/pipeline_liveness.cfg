SPECIFICATION OperatedSpec
CONSTANTS
  Submissions = {s1, s2, s3}
  Malformed = {s3}
  Engines = {e1}
  NoEngine = NoEngine
  Verdicts = {"success"}
  Permits = 1
  BatchLen = 0
  Crashes = 1
  Panics = 1
  LostReads = 0
  LostWrites = 1
  Flushes = 0
  MaxFaults <- MCMaxFaults
PROPERTY DeliverableServed

SPECIFICATION OperatedSpec
CONSTANTS
  Submissions = {s1}
  Malformed = {}
  Engines = {e1}
  NoEngine = NoEngine
  Verdicts = {"success"}
  Permits = 1
  BatchLen = 1
  Crashes = 1
  Panics = 0
  LostReads = 0
  LostWrites = 0
  Flushes = 0
  MaxFaults <- MCMaxFaults
PROPERTY TakenIsJudged

SPECIFICATION Spec
CONSTANTS
  Submissions = {s1, s2, s3}
  Malformed = {}
  Engines = {e1}
  NoEngine = NoEngine
  Verdicts = {"success"}
  Permits = 1
  BatchLen = 2
  Crashes = 1
  Panics = 1
  LostReads = 1
  LostWrites = 1
  Flushes = 1
  MaxFaults <- MCMaxFaults
SYMMETRY Symmetry
INVARIANTS TypeOK PipelineInv PermitsBalance StreamOrder ResultIsOwn NoUnjudgedDeletion
PROPERTIES ForwardStatus ResultStable

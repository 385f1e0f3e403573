SPECIFICATION Spec
CONSTANTS
  None = None
  Blank = Blank
  Lines <- Tokens
  OutputLimit = 3
  Executions <- MCExecutions
INVARIANT RunMarksAgree

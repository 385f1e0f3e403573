SPECIFICATION Spec
CONSTANTS
  None = None
  Blank = Blank
  Lines <- Tokens
  OutputLimit = 3
  Executions <- MCExecutions
INVARIANTS OneWriter PolledIsJudged VerdictIsComparison ConsoleShown ScoreIsPrefix BlamesFirst
PROPERTY FinalAnswer

SPECIFICATION FairSpec
CONSTANTS
  Lines <- MCLines
  Main = "main"
  Programs <- AllPrograms
  Funs <- MCFuns
  Statuses = {0, 1}
  MAX_ITERATIONS = 2
  None = None
INVARIANTS TypeOK CallsUnwind TrapIsLexical EveryExitTrapRuns
PROPERTIES Terminates

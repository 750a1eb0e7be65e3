CONSTANTS
  None = None
  NaN = NaN
  Letters = 2
  IntMax = 9
  Tasks <- MCTasks
SPECIFICATION Spec
INVARIANTS
  ArgumentsAsWritten
  LinesAccountedFor
  SortIsSound
  PiecesCoverInput
  PatchUndoesDiff
  GlobMatches
  FindIsExact
  ShellReadsAsWritten
CHECK_DEADLOCK FALSE

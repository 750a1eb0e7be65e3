SPECIFICATION PartsSpec
CONSTANTS
  Vecs = {v1, v2}
  Blocks = {b1, b2, b3}
  Values = {0, 1}
  Default = 0
  Dead = Dead
  InlineSize = 1
  MaxSize = 3
  Durations = {0, 1, 2, 3, 5, 6}
  DwordMod = 4
  MaxClock = 6
  ChildCodes = {0, 1, 124}
  TeeFiles = {"f", "g"}
  Dash = "-"
  TeeArgs <- MCTeeArgs
  MaxLines = 2
  Callers = {t1, t2}
  MaxCalls = 3
  PipeSize = 2
  Outputs <- MCOutputs
  Shells = {s1, s2}
  MaxVersion = 2
  Chars <- MCChars
  Clips <- MCClips
  MaxBytes = 3
  MaxHistory = 2
  Packages <- MCPackages
  WpmRuns = {w1, w2}
  MaxStarts = 3
  Absent = "absent"
  Partial = "partial"
INVARIANTS
  StorageSound StatusesAreTrue
  CapturedIsOwn CompletionsCurrent LineIntact PackagesAsTold
PROPERTIES
  ImplementsVectors EveryCallReturns
CHECK_DEADLOCK FALSE

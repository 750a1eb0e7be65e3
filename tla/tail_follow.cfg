SPECIFICATION TailSpec
CONSTANTS
  Paths = {"a", "b"}
  Operands <- OneOrTwo
  Options <- Modes
  MaxWrites = 2
  MaxFiles = 3
  MaxChurn <- TwiceForOne
INVARIANTS TailTypeOK
PROPERTIES OnceInOrder Delivers TruncationNoticed EndsWithProcess
CHECK_DEADLOCK FALSE

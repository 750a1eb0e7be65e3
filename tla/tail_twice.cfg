SPECIFICATION TailSpec
CONSTANTS
  Paths = {"a"}
  Operands <- One
  Options <- Descriptor
  MaxWrites = 2
  MaxFiles = 1
  MaxChurn <- TwiceForOne
INVARIANTS PrintedOnce
CHECK_DEADLOCK FALSE

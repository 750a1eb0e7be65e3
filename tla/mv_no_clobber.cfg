SPECIFICATION Spec
CONSTANTS
  Jobs <- Moves
  MaxFaults = 0
PROPERTIES NoClobber

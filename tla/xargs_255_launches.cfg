SPECIFICATION Spec
CONSTANTS
  Items <- MCItems
  Weight <- MCWeight
  BaseWeight <- MCBaseWeight
  Inputs <- Lines
  Options <- LinesOptions
  Statuses = {0, 1, 255}
PROPERTY Child255StopsLaunches

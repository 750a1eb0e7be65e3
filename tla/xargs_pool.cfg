SPECIFICATION FairSpec
CONSTANTS
  Items <- MCItems
  Weight <- MCWeight
  BaseWeight <- MCBaseWeight
  Inputs <- AllInputs
  Options <- AllOptions
  Statuses = {0, 1, 126, 255}
INVARIANTS TypeOK LimitsRespected StatusTellsTruth SlotsSound
PROPERTIES ImplementsDelivery Terminates

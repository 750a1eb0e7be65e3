SPECIFICATION Spec
CONSTANTS
  Jobs <- AllJobs
  MaxFaults = 2
INVARIANTS TypeOK NothingLost EndsAsSaid

SPECIFICATION FairSpec
CONSTANTS
  None = None
  Discovery = TRUE
  Faults = {"mountinfo","mount","race","setup","component","signal","kill"}
  MaxFaults = 3
INVARIANTS TypeOK CleanReturn ServingIsReachable MountedWhenRunning
PROPERTIES LostRaceIsNoFailure NoHalfDeadAgent Recovers
CHECK_DEADLOCK FALSE

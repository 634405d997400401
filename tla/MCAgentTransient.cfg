SPECIFICATION FairSpec
CONSTANTS
  None = None
  Apps = {a1}
  Progs = {p1}
  Points = {x1,x2}
  Silent = {}
  StateIds = {s1}
  ProgIds = {1,2}
  LinkIds = {1,2,3,4}
  Faults = {"load","attach","detach","links"}
  MaxFaults = 1
  MaxCreates = 1
  MaxEdits = 2
  MaxUpdates = 7
INVARIANTS NoOrphanProgram NoOrphanLink SuccessIsTrue
PROPERTIES OnlyUnwantedDetached Converges
CHECK_DEADLOCK FALSE

SPECIFICATION FairSpec
CONSTANTS
  None = None
  Apps = {a1}
  Progs = {p1}
  Points = {x1}
  Silent = {}
  StateIds = {s1}
  ProgIds = {1,2}
  LinkIds = {1}
  Faults = {"select"}
  MaxFaults = 0
  MaxCreates = 1
  MaxEdits = 1
  MaxUpdates = 5
PROPERTY DeselectionReported
CHECK_DEADLOCK FALSE

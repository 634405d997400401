SPECIFICATION FairSpec
CONSTANTS
  None = None
  Apps = {a1,a2}
  Progs = {p1}
  Points = {x1}
  Silent = {}
  StateIds = {s1,s2}
  ProgIds = {1,2}
  LinkIds = {1,2}
  Faults = {"selector"}
  MaxFaults = 0
  MaxCreates = 1
  MaxEdits = 0
  MaxUpdates = 3
INVARIANTS TypeOK AtMostOneState
PROPERTIES Converges DeletedGoes
CHECK_DEADLOCK FALSE

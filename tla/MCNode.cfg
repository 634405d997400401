SPECIFICATION NodeSpec
CONSTANTS
  None = None
  Apps = {a1}
  NsApps = {n1}
  Progs = {p1}
  Points = {x1}
  Silent = {}
  StateIds = {s1}
  NsStateIds = {t1}
  ProgIds = {1,2}
  LinkIds = {1,2}
  Faults = {}
  MaxFaults = 0
  MaxCreates = 1
  MaxEdits = 0
  MaxUpdates = 4
INVARIANTS OneMaster BothReportTruly
PROPERTY HandsOff
CHECK_DEADLOCK FALSE

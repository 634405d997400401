SPECIFICATION Spec
CONSTANTS
  None = None
  App = App
  Nodes = {n1,n2}
  Faults = {"write"}
  MaxFaults = 1
  MaxReports = 2
  MaxLag = 2
INVARIANTS TypeOK RestingStatusIsTrue
SYMMETRY NodeSymmetry
CHECK_DEADLOCK FALSE

SPECIFICATION ResyncSpec
CONSTANTS
  None = None
  App = App
  Nodes = {n1}
  Faults = {"write","crash","relist","nodes"}
  MaxFaults = 2
  MaxReports = 2
  MaxLag = 3
PROPERTIES StatusConverges DeletionWaitsOnlyForLostNodes
CHECK_DEADLOCK FALSE

SPECIFICATION ResyncSpec
CONSTANTS
  None = None
  Namespaces = {bpfman,other}
  BpfmanNamespace = bpfman
  Kept <- OneOfEachShape
  Faults = {"write","crash","tamper","override","move"}
  MaxFaults = 1
  MaxEdits = 1
  MaxCreates = 2
INVARIANTS TypeOK RestingDeploymentIsComplete
PROPERTIES DeploymentConverges NothingOutlivesConfig
CHECK_DEADLOCK FALSE

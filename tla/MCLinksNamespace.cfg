SPECIFICATION Spec
CONSTANTS
  None = None
  Host = Host
  p1 = p1
  p2 = p2
  p3 = p3
  nsA = nsA
  nsB = nsB
  web = web
  db = db
  eth0 = eth0
  eth1 = eth1
  Specs <- TwinSpecs
  OwnNs = nsA
  Pods <- TwinPods
  PodNs <- TwinNs
  PodName <- TwinName
  HostNetwork = {}
  CtrNames = {"app"}
  Starts <- TwinStarts
  PrimaryIface = eth0
  IfaceKeys = {}
  LinkIds = {1, 2}
  MaxPids = 3
  MaxChanges = 1
  Faults = {}
  MaxFaults = 0
INVARIANT OwnNamespaceOnly

SPECIFICATION Spec
CONSTANTS
  None = None
  Host = Host
  p1 = p1
  p2 = p2
  p3 = p3
  nsA = nsA
  nsB = nsB
  web = web
  db = db
  eth0 = eth0
  eth1 = eth1
  Specs <- PassSpecs
  OwnNs = nsA
  Pods <- PassPods
  PodNs <- PassNs
  PodName <- PassName
  HostNetwork = {p2}
  CtrNames = {"app", "side"}
  Starts <- PassStarts
  PrimaryIface = eth0
  IfaceKeys <- PassIfaces
  LinkIds = {1, 2, 3, 4, 5, 6}
  MaxPids = 3
  MaxChanges = 2
  Faults = {"cri", "node", "attach", "detach", "get", "reply", "read", "reset"}
  MaxFaults = 1
INVARIANTS TypeOK LinksRecorded OncePerPoint AttachedIsWanted RecordedIsWanted LostByFailure
INVARIANT WantedIsAttached

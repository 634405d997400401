------------------------------ MODULE BpfLinks ------------------------------
(***************************************************************************)
(* How the bpfman-agent turns the links of one loaded program into attach  *)
(* points of its node: interface, pod and container selectors are expanded *)
(* (common.go, containers.go, pkg/crictl), every expected link is looked   *)
(* up among the recorded ones (findLink of each program type), and the     *)
(* recorded list is reconciled with bpfman entry by entry.                 *)
(*                                                                         *)
(* Pods, containers and interfaces come and go at any moment.  Where the   *)
(* program's list is kept between two reconciles, and what crashes, stale  *)
(* caches and failed status writes do to it, is the subject of BpfAgent.   *)
(***************************************************************************)
EXTENDS ProgramTypes, FiniteSetsExt

CONSTANTS
  Specs,       \* the programs a user may submit, see ProgramTypes
  OwnNs,       \* namespace of a namespaced application
  Pods,        \* pod objects; the id of a pod's network namespace is the pod
  PodNs,       \* the Kubernetes namespace of each pod
  PodName,     \* the name of each pod
  HostNetwork, \* pods that run in the node's network namespace
  CtrNames,    \* names of containers
  Starts,      \* how a behaviour may start: [specs |-> its programs, run |-> pods
               \* that run one container, gone |-> deleted pods that the runtime
               \* has not forgotten yet]
  PrimaryIface,\* the interface that carries the node's address
  IfaceKeys,   \* interfaces the watcher may report: [name, netns, index]
  LinkIds,     \* ids bpfman gives to links
  MaxPids,     \* bound: containers started in a behaviour
  MaxChanges,  \* bound: changes of the node and of the spec
  Faults,      \* what may go wrong, see FaultKinds
  MaxFaults    \* bound: steps in which something goes wrong

FaultKinds ==
  {"cri",    \* the container runtime or the API server does not list what is asked for
   "node",   \* the primary interface of the node is not found
   "attach", \* bpfman refuses to attach
   "detach", \* bpfman refuses to detach
   "get",    \* bpfman's Get fails
   "reply",  \* bpfman attaches or detaches, but the agent gets an error
   "read",   \* the other application controller reads a path through NetNsCache
   "reset"}  \* the other application controller resets NetNsCache

\* A list the user may leave out.
IsListOrNone(ls) == ls = None \/ (Len(ls) \in Nat /\ DOMAIN ls = 1..Len(ls))

\* The fields of an attachInfo of a program of type t; names are not nil.  The
\* pods of network types are selected without naming containers.
IsAttachInfo(t, ai) ==
  /\ ai = [ifs |-> ai.ifs, sel |-> ai.sel, attrs |-> ai.attrs]
  /\ ai.sel = None \/ ai.sel = [ns |-> ai.sel.ns, pods |-> ai.sel.pods, names |-> ai.sel.names]
  /\ t \in NetTypes =>
       /\ ai.ifs = [discovery |-> ai.ifs.discovery, names |-> ai.ifs.names,
                    primary |-> ai.ifs.primary]
       /\ ai.ifs.names # None => None \notin ai.ifs.names
       /\ ai.ifs.discovery # None => IsListOrNone(ai.ifs.discovery.allowed)
       /\ ai.sel # None => ai.sel.names = {}
       /\ {"priority", "proceedOn", "direction"} \subseteq DOMAIN ai.attrs
       /\ IsListOrNone(ai.attrs.proceedOn)
  /\ t \in {"uprobe", "uretprobe"} => {"function", "offset", "target", "pid"} \subseteq DOMAIN ai.attrs
  /\ t = "kprobe" => {"function", "offset"} \subseteq DOMAIN ai.attrs

\* A document has the fields of a program.
IsProgram(s) ==
  /\ s = [type |-> s.type, scope |-> s.scope, links |-> s.links, function |-> s.function]
  /\ s.scope \in {"cluster", "namespace"}
  /\ Len(s.links) \in Nat /\ DOMAIN s.links = 1..Len(s.links)
  /\ \A j \in DOMAIN s.links : IsAttachInfo(s.type, s.links[j])

ASSUME BpfLinksAssumption ==
  /\ IsFiniteSet(Pods) /\ HostNetwork \subseteq Pods /\ CtrNames # {} /\ OwnNs # None
  /\ \A b \in Starts : b.run \cup b.gone \subseteq Pods /\ b.specs \subseteq Specs
  /\ \A b \in Starts : \A p, q \in b.run : PodNs[p] = PodNs[q] /\ PodName[p] = PodName[q] => p = q
  /\ \A s \in Specs : IsProgram(s)
  /\ PrimaryIface # None /\ \A key \in IfaceKeys : key.name # None
  /\ Host \notin Pods \cup Nat /\ None \notin Pods \cup Nat \cup {Host} /\ None # TRUE
  /\ None \notin {"ns", "pid"} \X (Nat \cup {key.netns : key \in IfaceKeys})
  /\ LinkIds \subseteq Nat /\ MaxPids \in Nat /\ MaxChanges \in Nat /\ MaxFaults \in Nat
  /\ Faults \subseteq FaultKinds

VARIABLES
  spec,      \* the program as the API server stored it
  stage,     \* [Pods -> "new", "listed" by the API server, "deleted"]
  sandbox,   \* pods whose sandbox the container runtime lists
  ctrs,      \* containers the runtime lists: [pid, pod, name, up]
  nextPid,   \* the next process id; ids are not reused
  ifmap,     \* keys of r.Interfaces, the map interface discovery maintains
  links,     \* the Links list of the program's state
  linkStatus,\* ProgramLinkStatus of the program's state
  attached,  \* bpfman: where each of its links really is; its domain are their ids
  pc,        \* where Reconcile() stands: "idle", "update", "process"
  cur,       \* the program the running reconcile works for
  pos,       \* index of the next attachInfo or of the next link
  expected,  \* links of the attachInfo at hand that are still to be looked up
  cache,     \* NetNsCache: [path -> id] for the paths read so far
  dirty,     \* something changed since the last reconcile began
  changes,
  faults     \* [count |-> steps in which something went wrong, kinds |-> what it was]

nodeVars  == <<stage, sandbox, ctrs, nextPid, ifmap>>
agentVars == <<links, linkStatus, pc, cur, pos, expected, cache>>
vars == <<spec, nodeVars, agentVars, attached, dirty, changes, faults>>

(***************************************************************************)
(* Network namespaces.  A path names the host, a process or a file below   *)
(* /var/run/netns; several paths may lead to one namespace.                *)
(***************************************************************************)
netnsPathFromPID(pid) == <<"pid", pid>>
NamedPath(ns) == IF ns = Host THEN HostPath ELSE <<"ns", ns>>

PodNet(p) == IF p \in HostNetwork THEN Host ELSE p

Running(pid) == \E c \in ctrs : c.pid = pid /\ c.up

\* os.Stat on the path now: the namespace, or None when the path is dead.
Stat(path) ==
  CASE path[1] = "host" -> Host
    [] path[1] = "ns"   -> IF path[2] \in sandbox THEN path[2] ELSE None
    [] path[1] = "pid"  -> IF Running(path[2])
                           THEN PodNet((CHOOSE c \in ctrs : c.pid = path[2]).pod)
                           ELSE None

\* Slip: every call reads the path afresh.
GetNetNsIdUncached(c, path) == Stat(path)

\* GetNetNsId: what the cache knows, or else what the path leads to now.
GetNetNsId(c, path) == IF path \in DOMAIN c THEN c[path] ELSE Stat(path)

\* The cache after the paths in P were asked for; failures are not kept.
Remember(c, P) ==
  LET found == {x \in P : GetNetNsId(c, x) # None}
  IN  [x \in DOMAIN c \cup found |-> GetNetNsId(c, x)]

NoPaths == [x \in {} |-> None]

(***************************************************************************)
(* The containers of selected pods.                                        *)
(***************************************************************************)
\* getPodsForNode: the API server's pods that a selector asks for.
getPodsForNode(sel) ==
  {p \in Pods : /\ stage[p] = "listed" /\ p \in sel.pods
                /\ sel.ns = None \/ sel.ns = PodNs[p]}

\* findPodByNameWithNamespace: the sandboxes that may be found for a pod.  The
\* runtime lists them in any order, and only the name is compared.
findPodByNameWithNamespace(p) == {q \in sandbox : PodName[q] = PodName[p]}

\* filterContainersByNames over the containers of sandbox q: no names, all.
filterContainersByNames(q, names) ==
  {c \in ctrs : c.pod = q /\ (names = {} \/ c.name \in names)}

\* The process id inspecting a container yields; 0 once it has exited.
extractPIDFromInspectInfo(c) == IF c.up THEN c.pid ELSE 0

\* GetContainers: the sets of containers the call may return, one for each
\* choice of sandboxes; none at all, an error, when a pod has no sandbox.
GetContainers(sel) ==
  LET pods == getPodsForNode(sel)
      found == {f \in [pods -> sandbox] : \A p \in pods : f[p] \in findPodByNameWithNamespace(p)}
  IN  {UNION {filterContainersByNames(f[p], sel.names) : p \in pods} : f \in found}

\* GetOneContainerPerPod: the first container listed under each pod name.
GetOneContainerPerPod(cs) ==
  {d \in SUBSET cs :
     \A n \in {PodName[c.pod] : c \in cs} : Cardinality({c \in d : PodName[c.pod] = n}) = 1}

(***************************************************************************)
(* Interfaces.                                                             *)
(***************************************************************************)
\* setupAllowedInterfacesLists: definitions up to the first bad expression.
setupAllowedInterfacesLists(defs) ==
  LET bad == {j \in DOMAIN defs : defs[j].bad}
  IN  IF bad = {} THEN defs ELSE SubSeq(defs, 1, Min(bad) - 1)

interfaceInAllowedList(name, defs) ==
  defs = <<>> \/ \E j \in DOMAIN defs : name \in defs[j].matches

interfaceInExcludeList(name, d) == name \in d.exclude

\* getDiscoveredInterfaces: <<interface, path>> of every interface that is not
\* excluded and is allowed.
getDiscoveredInterfaces(d) ==
  {<<key.name, NamedPath(key.netns)>> :
     key \in {x \in ifmap : /\ ~interfaceInExcludeList(x.name, d)
                            /\ interfaceInAllowedList(x.name,
                                 setupAllowedInterfacesLists(d.allowed))}}

isInterfacesDiscoveryEnabled(ifs) == ifs.discovery # None /\ ifs.discovery.auto

\* getInterfaces: the names listed, or else the primary interface if that field
\* is given, whatever its value; none is an error.
getInterfaces(ifs) ==
  IF ifs.names \notin {None, {}} THEN ifs.names
  ELSE IF ifs.primary # None THEN {PrimaryIface} ELSE {}

(***************************************************************************)
(* getExpectedLinks of each program type: the sets of links an attachInfo  *)
(* may expand into, none of them when the expansion fails.                 *)
(***************************************************************************)
DefaultAttachPriority == 1000
GetPriority(priority) == IF priority = None THEN DefaultAttachPriority ELSE priority

\* What a link of each type keeps of its attachInfo, apart from where it is.
xdpAttrs(a)        == [priority |-> GetPriority(a.priority), proceedOn |-> a.proceedOn]
tcAttrs(a)         == [priority |-> GetPriority(a.priority), proceedOn |-> a.proceedOn,
                       direction |-> a.direction]
tcxAttrs(a)        == [priority |-> GetPriority(a.priority), direction |-> a.direction]
uprobeAttrs(a)     == [function |-> a.function, offset |-> a.offset, target |-> a.target,
                       pid |-> a.pid]
kprobeAttrs(a)     == [function |-> a.function, offset |-> a.offset]
kretprobeAttrs(a)  == [function |-> a.function]
tracepointAttrs(a) == [name |-> a.name]
fentryAttrs(a)     == <<>>
fexitAttrs(a)      == <<>>

\* A link that bpfman does not have yet.
NewLink(attrs) ==
  [iface |-> None, path |-> HostPath, containerPid |-> None, attrs |-> attrs,
   should |-> TRUE, id |-> None, status |-> "NotAttached"]

createLinkEntry(attrs, iface, path) == [NewLink(attrs) EXCEPT !.iface = iface, !.path = path]

\* One link for each interface in the network namespace of each pod.
LinksInPods(attrs, ifs, sel) ==
  {{createLinkEntry(attrs, x, netnsPathFromPID(extractPIDFromInspectInfo(c))) :
      x \in getInterfaces(ifs), c \in d} :
      d \in UNION {GetOneContainerPerPod(cs) : cs \in GetContainers(sel)}}

\* Cluster scope: discovered interfaces, interfaces in pods or those of the host.
clNetLinks(attrs, ai) ==
  IF isInterfacesDiscoveryEnabled(ai.ifs)
  THEN {{createLinkEntry(attrs, x[1], x[2]) : x \in getDiscoveredInterfaces(ai.ifs.discovery)}}
  ELSE IF getInterfaces(ai.ifs) = {} THEN {}
  ELSE IF ai.sel # None THEN LinksInPods(attrs, ai.ifs, ai.sel)
  ELSE {{createLinkEntry(attrs, x, HostPath) : x \in getInterfaces(ai.ifs)}}

\* Namespace scope: only pods of the application's own namespace, no discovery.
nsNetLinks(attrs, ai) ==
  IF getInterfaces(ai.ifs) = {} THEN {}
  ELSE LinksInPods(attrs, ai.ifs, [ai.sel EXCEPT !.ns = OwnNs])

\* One link for each container, wherever its pod's network is.
LinksInContainers(attrs, sel) ==
  {{[NewLink(attrs) EXCEPT !.containerPid = extractPIDFromInspectInfo(c)] : c \in cs} :
      cs \in GetContainers(sel)}

\* The attachInfo of a kernel probe is the link.
KernelLink(attrs) == {{NewLink(attrs)}}

clXdpLinks(ai)        == clNetLinks(xdpAttrs(ai.attrs), ai)
clTcLinks(ai)         == clNetLinks(tcAttrs(ai.attrs), ai)
clTcxLinks(ai)        == clNetLinks(tcxAttrs(ai.attrs), ai)
clUprobeLinks(ai)     == IF ai.sel # None THEN LinksInContainers(uprobeAttrs(ai.attrs), ai.sel)
                                          ELSE KernelLink(uprobeAttrs(ai.attrs))
clKprobeLinks(ai)     == KernelLink(kprobeAttrs(ai.attrs))
clKretprobeLinks(ai)  == KernelLink(kretprobeAttrs(ai.attrs))
clTracepointLinks(ai) == KernelLink(tracepointAttrs(ai.attrs))
clFentryLinks(ai)     == KernelLink(fentryAttrs(ai.attrs))
clFexitLinks(ai)      == KernelLink(fexitAttrs(ai.attrs))
nsXdpLinks(ai)        == nsNetLinks(xdpAttrs(ai.attrs), ai)
nsTcLinks(ai)         == nsNetLinks(tcAttrs(ai.attrs), ai)
nsTcxLinks(ai)        == nsNetLinks(tcxAttrs(ai.attrs), ai)
nsUprobeLinks(ai)     == LinksInContainers(uprobeAttrs(ai.attrs), [ai.sel EXCEPT !.ns = OwnNs])

(***************************************************************************)
(* findLink of each program type: the fields in which an entry must agree  *)
(* with an expected link.  Network types compare the ids of the namespaces *)
(* behind the paths, so an entry survives a change of the path.            *)
(***************************************************************************)
\* Slip: the namespace is not compared.
xdpKeyOfName(l, c) == <<l.iface, l.attrs.priority, l.attrs.proceedOn>>

xdpKey(l, c) == <<l.iface, l.attrs.priority, l.attrs.proceedOn, GetNetNsId(c, l.path)>>
tcKey(l, c)  == <<l.iface, l.attrs.direction, l.attrs.priority, l.attrs.proceedOn,
                  GetNetNsId(c, l.path)>>
tcxKey(l, c) == <<l.iface, l.attrs.direction, l.attrs.priority, GetNetNsId(c, l.path)>>
uprobeKey(l, c)     == <<l.attrs.function, l.attrs.offset, l.attrs.target, l.attrs.pid,
                         l.containerPid>>
kprobeKey(l, c)     == <<l.attrs.function, l.attrs.offset>>
kretprobeKey(l, c)  == <<l.attrs.function>>
tracepointKey(l, c) == <<l.attrs.name>>
fentryKey(l, c)     == <<>>
fexitKey(l, c)      == <<>>

\* The paths findLink asks the cache for when it accepts the entries found: that
\* of link l, and those of the entries it meets with the same interface and
\* parameters.
Asked(l, found) ==
  {l.path} \cup {links[j].path : j \in {h \in DOMAIN links :
     /\ links[h].iface = l.iface /\ links[h].attrs = l.attrs
     /\ \A f \in found : h <= f}}

\* findLink fails when the path of a network link cannot be read.
findLinkFails(l) == cur.type \in NetTypes /\ GetNetNsId(cache, l.path) = None

\* The list after findLink has accepted the entries found for link l: it returns
\* the first, which is marked; with none a new entry is appended.
AddExpected(l, found) ==
  IF found = {} THEN Append(links, l)
  ELSE [j \in DOMAIN links |->
          [links[j] EXCEPT !.should = @ \/ (j \in found /\ \A f \in found : j <= f)]]

(***************************************************************************)
(* The reconciler.  One step is the expansion of one attachInfo, the       *)
(* lookup of one link it asks for or the reconciliation of one link; the   *)
(* node may change between any two.                                        *)
(***************************************************************************)
\* The calls in K go wrong in this step, and no others.
Fault(K) ==
  /\ K \subseteq Faults
  /\ IF K = {} THEN UNCHANGED faults
     ELSE /\ faults.count < MaxFaults
          /\ faults' = [count |-> faults.count + 1, kinds |-> faults.kinds \cup K]

\* Slip: entries keep ShouldAttach from the last reconcile.
ShouldAttachKept(ls) == ls

\* The first loop of updateLinks.
ClearShouldAttach(ls) == [j \in DOMAIN ls |-> [ls[j] EXCEPT !.should = FALSE]]

\* Reconcile() begins: it reads the program and resets NetNsCache; updateLinks
\* begins.
ReconcileStart ==
  /\ pc = "idle"
  /\ pc' = "update" /\ cur' = spec /\ pos' = 1
  /\ expected' = {} /\ cache' = NoPaths
  /\ links' = ClearShouldAttach(links)
  /\ dirty' = FALSE
  /\ UNCHANGED <<spec, nodeVars, linkStatus, attached, changes, faults>>

\* The running reconcile is one of reconciler r.
Working(r) == r.scope = cur.scope /\ cur.type \in r.types

\* The outer loop of updateLinks: the next attachInfo is expanded, in one of the
\* ways getExpectedLinks may return.
ExpandLinks(expansions) ==
  /\ expected = {} /\ pos <= Len(cur.links)
  /\ expected' \in expansions
  /\ pos' = pos + 1
  /\ UNCHANGED <<links, cache>>

\* The inner loop, for expected link l, which agrees with the entries found: it
\* is skipped, found or appended.
FindLink(l, found) ==
  /\ expected' = expected \ {l}
  /\ links' = IF findLinkFails(l) THEN links ELSE AddExpected(l, found)
  /\ cache' = IF findLinkFails(l) \/ cur.type \notin NetTypes THEN cache
              ELSE Remember(cache, Asked(l, found))
  /\ UNCHANGED pos

\* updateLinks of reconciler r.
UpdateLinks(r, getExpectedLinks(_), Key(_, _)) ==
  /\ pc = "update" /\ Working(r)
  /\ \/ ExpandLinks(getExpectedLinks(cur.links[pos]))
     \/ \E l \in expected :
          FindLink(l, {j \in DOMAIN links : Key(links[j], cache) = Key(l, cache)})
  /\ UNCHANGED <<spec, nodeVars, linkStatus, attached, pc, cur, dirty, changes, faults>>

clXdpUpdateLinks == UpdateLinks(ClXdpProgramReconciler, clXdpLinks, xdpKey)
clTcUpdateLinks == UpdateLinks(ClTcProgramReconciler, clTcLinks, tcKey)
clTcxUpdateLinks == UpdateLinks(ClTcxProgramReconciler, clTcxLinks, tcxKey)
clUprobeUpdateLinks == UpdateLinks(ClUprobeProgramReconciler, clUprobeLinks, uprobeKey)
clKprobeUpdateLinks == UpdateLinks(ClKprobeProgramReconciler, clKprobeLinks, kprobeKey)
clKretprobeUpdateLinks ==
  UpdateLinks(ClKretprobeProgramReconciler, clKretprobeLinks, kretprobeKey)
clTracepointUpdateLinks ==
  UpdateLinks(ClTracepointProgramReconciler, clTracepointLinks, tracepointKey)
clFentryUpdateLinks == UpdateLinks(ClFentryProgramReconciler, clFentryLinks, fentryKey)
clFexitUpdateLinks == UpdateLinks(ClFexitProgramReconciler, clFexitLinks, fexitKey)
nsXdpUpdateLinks == UpdateLinks(NsXdpProgramReconciler, nsXdpLinks, xdpKey)
nsTcUpdateLinks == UpdateLinks(NsTcProgramReconciler, nsTcLinks, tcKey)
nsTcxUpdateLinks == UpdateLinks(NsTcxProgramReconciler, nsTcxLinks, tcxKey)
nsUprobeUpdateLinks == UpdateLinks(NsUprobeProgramReconciler, nsUprobeLinks, uprobeKey)

\* Interfaces are discovered and no pod is looked up.
Discovers(s, ai) ==
  s.type \in NetTypes /\ s.scope = "cluster" /\ isInterfacesDiscoveryEnabled(ai.ifs)

\* getExpectedLinks returns an error: no interface is selected, or a selected
\* pod has no sandbox.
NoExpectedLinks(s, ai) ==
  /\ ~Discovers(s, ai)
  /\ \/ s.type \in NetTypes /\ getInterfaces(ai.ifs) = {}
     \/ /\ ai.sel # None
        /\ GetContainers([ai.sel EXCEPT !.ns = IF s.scope = "cluster" THEN @ ELSE OwnNs]) = {}

\* The calls of getExpectedLinks that may fail whatever is selected: the pods
\* and containers are listed, and the primary interface is looked up.
ExpansionCalls(s, ai) ==
  IF Discovers(s, ai) THEN {}
  ELSE (IF ai.sel # None THEN {"cri"} ELSE {})
       \cup (IF /\ s.type \in NetTypes /\ ai.ifs.names \in {None, {}}
                /\ ai.ifs.primary # None
             THEN {"node"} ELSE {})

\* updateLinks returns an error, of its own or of a call, and reconcileProgram
\* processes no link.
updateLinksFails ==
  /\ pc = "update" /\ expected = {} /\ pos <= Len(cur.links)
  /\ LET ai == cur.links[pos] IN
       IF NoExpectedLinks(cur, ai) THEN Fault({})
                                   ELSE \E k \in ExpansionCalls(cur, ai) : Fault({k})
  /\ linkStatus' = "UpdateAttachInfoError"
  /\ pc' = "idle" /\ pos' = 1 /\ cache' = NoPaths
  /\ UNCHANGED <<spec, nodeVars, links, attached, cur, expected, dirty, changes>>

\* Slip: processLinks takes up the index where updateLinks left it.
updateLinksDoneKeepsIndex ==
  /\ pc = "update" /\ expected = {} /\ pos > Len(cur.links)
  /\ pc' = "process" /\ cache' = NoPaths
  /\ UNCHANGED <<spec, nodeVars, links, linkStatus, cur, pos, expected, attached, dirty, changes,
                 faults>>

\* updateLinks returns; processLinks begins and uses no network namespace ids.
updateLinksDone ==
  /\ pc = "update" /\ expected = {} /\ pos > Len(cur.links)
  /\ pc' = "process" /\ pos' = 1 /\ cache' = NoPaths
  /\ UNCHANGED <<spec, nodeVars, links, linkStatus, cur, expected, attached, dirty, changes, faults>>

(***************************************************************************)
(* bpfman.                                                                 *)
(***************************************************************************)
\* The kind of attach request bpfman takes for a loaded program.
InfoFor == [XDP |-> "Xdp", TC |-> "Tc", TCX |-> "Tcx", UPROBE |-> "Uprobe", KPROBE |-> "Kprobe",
            TRACEPOINT |-> "Tracepoint", FENTRY |-> "Fentry", FEXIT |-> "Fexit"]

\* What bpfman reads the numbers of a request as.
XdpActions ==
  [n \in {0, 1, 2, 3, 4, 31} |->
     CASE n = 0 -> "Aborted" [] n = 1 -> "Drop" [] n = 2 -> "Pass" [] n = 3 -> "TX"
       [] n = 4 -> "ReDirect" [] n = 31 -> "DispatcherReturn"]
TcActions ==
  [n \in (-1..8) \cup {30} |->
     CASE n = -1 -> "UnSpec" [] n = 0 -> "OK" [] n = 1 -> "ReClassify" [] n = 2 -> "Shot"
       [] n = 3 -> "Pipe" [] n = 4 -> "Stolen" [] n = 5 -> "Queued" [] n = 6 -> "Repeat"
       [] n = 7 -> "ReDirect" [] n = 8 -> "Trap" [] n = 30 -> "DispatcherReturn"]
Directions == [ingress |-> "Ingress", egress |-> "Egress"]

\* The namespace or process the request leads to, None when there is none.
Place(req) ==
  CASE "netns" \in DOMAIN req -> IF req.netns = None THEN Host ELSE Stat(req.netns)
    [] "containerPid" \in DOMAIN req -> IF req.containerPid = None THEN Host ELSE
                                        IF Running(req.containerPid) THEN req.containerPid
                                        ELSE None
    [] OTHER -> Host

\* What a program does at an attach point: the request in bpfman's terms.
Behaviour(load, req) ==
  CASE req.info = "Xdp" -> [iface |-> req.iface, priority |-> req.priority,
                            proceedOn |-> {XdpActions[n] : n \in Range(req.proceedOn)}]
    [] req.info = "Tc"  -> [iface |-> req.iface, priority |-> req.priority,
                            direction |-> Directions[req.direction],
                            proceedOn |-> {TcActions[n] : n \in Range(req.proceedOn)}]
    [] req.info = "Tcx" -> [iface |-> req.iface, priority |-> req.priority,
                            direction |-> Directions[req.direction]]
    [] req.info = "Uprobe" -> [function |-> req.function, offset |-> req.offset,
                               target |-> req.target, pid |-> req.pid]
    [] req.info = "Kprobe" -> [function |-> req.function, offset |-> req.offset]
    [] req.info = "Tracepoint" -> [name |-> req.tracepoint]
    [] OTHER -> [function |-> load.function]

\* bpfman takes the request of the link.
Accepted(s, l) ==
  LET req == getAttachRequest(s, l)
  IN  InfoFor[getProgramLoadInfo(s).type] = req.info /\ Place(req) # None

PointOf(s, l) ==
  LET req == getAttachRequest(s, l)
  IN  [at |-> Place(req), does |-> Behaviour(getProgramLoadInfo(s), req)]

(***************************************************************************)
(* reconcileBpfLink.                                                       *)
(***************************************************************************)
AtLink == pc = "process" /\ pos <= Len(links)

\* bpfman has the link of the entry.
HasLink(l) == l.id \in DOMAIN attached

\* The calls that may fail while the agent asks whether an entry is attached.
GetCalls(l) == IF HasLink(l) THEN {{}, {"get"}} ELSE {{}}

\* Slip: an entry with an id counts as attached.
isAttachedById(l, K) == l.id # None

\* isAttached, doesLinkExist: what the agent learns when the calls in K fail.  A
\* link whose program bpfman does not return counts as not attached.
isAttached(l, K) == HasLink(l) /\ K = {}

\* reconcileBpfLink ends with the current link as given.
LinkVisited(l) ==
  /\ links' = [links EXCEPT ![pos] = l]
  /\ pos' = pos + 1
  /\ UNCHANGED <<spec, nodeVars, linkStatus, pc, cur, expected, cache, dirty, changes>>

LinkInPlace ==
  /\ AtLink
  /\ \E K \in GetCalls(links[pos]) : links[pos].should = isAttached(links[pos], K) /\ Fault(K)
  /\ LinkVisited([links[pos] EXCEPT
       !.status = IF links[pos].should THEN "Attached" ELSE "NotAttached"])
  /\ UNCHANGED attached

\* The id bpfman gives next: the least that none of its links has and that the
\* agent does not remember from an earlier one.
IsNextId(id) ==
  LET free == LinkIds \ (DOMAIN attached \cup {links[j].id : j \in DOMAIN links})
  IN  id \in free /\ \A m \in free : id <= m

\* bpfman attaches the program where the current link asks for it.
Attach(id) ==
  /\ IsNextId(id) /\ Accepted(cur, links[pos])
  /\ attached' = [l \in DOMAIN attached \cup {id} |->
                    IF l = id THEN PointOf(cur, links[pos]) ELSE attached[l]]

LinkAttach ==
  /\ AtLink /\ links[pos].should
  /\ \E K \in GetCalls(links[pos]) : ~isAttached(links[pos], K) /\ Fault(K)
  /\ \E id \in LinkIds :
       Attach(id) /\ LinkVisited([links[pos] EXCEPT !.id = id, !.status = "Attached"])

\* The agent gets an error: the process is gone, bpfman refuses for a reason of
\* its own, or it attaches and its reply is lost.
LinkAttachFails ==
  /\ AtLink /\ links[pos].should
  /\ \E K \in GetCalls(links[pos]) :
       /\ ~isAttached(links[pos], K)
       /\ \/ ~Accepted(cur, links[pos]) /\ Fault(K) /\ UNCHANGED attached
          \/ Accepted(cur, links[pos]) /\ Fault(K \cup {"attach"}) /\ UNCHANGED attached
          \/ Fault(K \cup {"reply"}) /\ \E id \in LinkIds : Attach(id)
  /\ LinkVisited([links[pos] EXCEPT !.status = "AttachError"])

Detach == attached' = [l \in DOMAIN attached \ {links[pos].id} |-> attached[l]]

LinkDetach ==
  /\ AtLink /\ ~links[pos].should /\ isAttached(links[pos], {}) /\ Fault({})
  /\ Detach
  /\ LinkVisited([links[pos] EXCEPT !.id = None, !.status = "NotAttached"])

\* The agent gets an error: bpfman refuses, or it detaches and its reply is lost.
LinkDetachFails ==
  /\ AtLink /\ ~links[pos].should /\ isAttached(links[pos], {})
  /\ \/ Fault({"detach"}) /\ UNCHANGED attached
     \/ Fault({"reply"}) /\ Detach
  /\ LinkVisited([links[pos] EXCEPT !.status = "DetachError"])

isAttachSuccess(l) == l.status = IF l.should THEN "Attached" ELSE "NotAttached"

\* Neither wanted nor attached.
Unused(l) == ~l.should /\ l.status = "NotAttached"

\* Slip: the entry behind each removed one goes with it.
removeLinksAndNext(ls) ==
  Keep(ls, {j \in DOMAIN ls : ~Unused(ls[j]) /\ (j > 1 => ~Unused(ls[j - 1]))})

\* removeLinks: unused entries go.
removeLinks(ls) == Keep(ls, {j \in DOMAIN ls : ~Unused(ls[j])})

\* processLinks of reconciler r ends: removeLinks, then updateProgramAttachStatus.
ProcessLinks(r) ==
  /\ pc = "process" /\ Working(r) /\ pos > Len(links)
  /\ links' = removeLinks(links)
  /\ linkStatus' = IF \A j \in DOMAIN links' : isAttachSuccess(links'[j])
                   THEN "Success" ELSE "Error"
  /\ pc' = "idle" /\ pos' = 1
  /\ UNCHANGED <<spec, nodeVars, attached, cur, expected, cache, dirty, changes, faults>>

clXdpProcessLinks        == ProcessLinks(ClXdpProgramReconciler)
clTcProcessLinks         == ProcessLinks(ClTcProgramReconciler)
clTcxProcessLinks        == ProcessLinks(ClTcxProgramReconciler)
clUprobeProcessLinks     == ProcessLinks(ClUprobeProgramReconciler)
clKprobeProcessLinks     == ProcessLinks(ClKprobeProgramReconciler)
clKretprobeProcessLinks  == ProcessLinks(ClKretprobeProgramReconciler)
clTracepointProcessLinks == ProcessLinks(ClTracepointProgramReconciler)
clFentryProcessLinks     == ProcessLinks(ClFentryProgramReconciler)
clFexitProcessLinks      == ProcessLinks(ClFexitProgramReconciler)
nsXdpProcessLinks        == ProcessLinks(NsXdpProgramReconciler)
nsTcProcessLinks         == ProcessLinks(NsTcProgramReconciler)
nsTcxProcessLinks        == ProcessLinks(NsTcxProgramReconciler)
nsUprobeProcessLinks     == ProcessLinks(NsUprobeProgramReconciler)

(***************************************************************************)
(* The other application controller.  Both controllers of the agent hold   *)
(* the same NetNsCache; what it contains matters to updateLinks only.      *)
(***************************************************************************)
OtherUses(newCache) ==
  /\ pc = "update" /\ cur.type \in NetTypes
  /\ cache' = newCache
  /\ UNCHANGED <<spec, nodeVars, links, linkStatus, pc, cur, pos, expected, attached, dirty, changes>>

\* The paths a link may have.
Paths == {HostPath} \cup {netnsPathFromPID(pid) : pid \in 1..(nextPid - 1)}
         \cup {NamedPath(key.netns) : key \in IfaceKeys}

OtherReads(x) == Fault({"read"}) /\ OtherUses(Remember(cache, {x}))
OtherResets == Fault({"reset"}) /\ OtherUses(NoPaths)

OtherController == OtherResets \/ \E x \in Paths : OtherReads(x)

(***************************************************************************)
(* The node and the user.                                                  *)
(***************************************************************************)
Change ==
  /\ changes < MaxChanges /\ changes' = changes + 1
  /\ dirty' = TRUE
  /\ UNCHANGED <<agentVars, attached, faults>>

CtrsOf(p) == {c \in ctrs : c.pod = p}

\* A pod is created and bound to this node.
SchedulePod(p) ==
  /\ stage[p] = "new"
  /\ \A q \in Pods : stage[q] = "listed" => PodNs[q] # PodNs[p] \/ PodName[q] # PodName[p]
  /\ stage' = [stage EXCEPT ![p] = "listed"]
  /\ UNCHANGED <<spec, sandbox, ctrs, nextPid, ifmap>> /\ Change

StartSandbox(p) ==
  /\ stage[p] = "listed" /\ p \notin sandbox
  /\ sandbox' = sandbox \cup {p}
  /\ UNCHANGED <<spec, stage, ctrs, nextPid, ifmap>> /\ Change

\* A container is started, or started again with a new process.
StartContainer(p, name) ==
  /\ stage[p] = "listed" /\ p \in sandbox /\ nextPid <= MaxPids
  /\ \A c \in CtrsOf(p) : c.name = name => ~c.up
  /\ ctrs' = ctrs \cup {[pid |-> nextPid, pod |-> p, name |-> name, up |-> TRUE]}
  /\ nextPid' = nextPid + 1
  /\ UNCHANGED <<spec, stage, sandbox, ifmap>> /\ Change

\* A container exits; the runtime still lists it.
ExitContainer(c) ==
  /\ c.up
  /\ ctrs' = (ctrs \ {c}) \cup {[c EXCEPT !.up = FALSE]}
  /\ UNCHANGED <<spec, stage, sandbox, nextPid, ifmap>> /\ Change

RemoveContainer(c) ==
  /\ ~c.up
  /\ ctrs' = ctrs \ {c}
  /\ UNCHANGED <<spec, stage, sandbox, nextPid, ifmap>> /\ Change

\* The pod object goes once its containers have stopped.
DeletePod(p) ==
  /\ stage[p] = "listed" /\ \A c \in CtrsOf(p) : ~c.up
  /\ stage' = [stage EXCEPT ![p] = "deleted"]
  /\ UNCHANGED <<spec, sandbox, ctrs, nextPid, ifmap>> /\ Change

\* The runtime forgets a stopped sandbox and its containers.
RemoveSandbox(p) ==
  /\ p \in sandbox /\ \A c \in CtrsOf(p) : ~c.up
  /\ sandbox' = sandbox \ {p} /\ ctrs' = ctrs \ CtrsOf(p)
  /\ UNCHANGED <<spec, stage, nextPid, ifmap>> /\ Change

\* interfaceDiscovery.run stores or deletes the interface of an event.
InterfaceAdded(key) ==
  /\ key \notin ifmap /\ ifmap' = ifmap \cup {key}
  /\ UNCHANGED <<spec, stage, sandbox, ctrs, nextPid>> /\ Change

InterfaceDeleted(key) ==
  /\ key \in ifmap /\ ifmap' = ifmap \ {key}
  /\ UNCHANGED <<spec, stage, sandbox, ctrs, nextPid>> /\ Change

\* What the API server makes of the documents in S: it refuses some and fills in
\* the defaults of the others.
Stored(S) == {WithDefaults(s) : s \in {x \in S : Admitted(x)}}
StoredSpecs == Stored(Specs)

\* The user submits other links for the program.
EditLinks(s) ==
  /\ s # spec /\ s.type = spec.type /\ s.scope = spec.scope /\ s.function = spec.function
  /\ spec' = s
  /\ UNCHANGED nodeVars /\ Change

(***************************************************************************)
(* The specification.                                                      *)
(***************************************************************************)
\* The container of each pod a behaviour starts with, numbered by process id.
InitCtrs(b) ==
  LET order == SetToSeq(b.run \cup b.gone)
  IN  {[pid |-> j, pod |-> order[j], name |-> CHOOSE n \in CtrNames : TRUE,
        up |-> order[j] \in b.run] : j \in DOMAIN order}

Init ==
  /\ \E b \in Starts :
       /\ spec \in Stored(b.specs) /\ cur = spec
       /\ stage = [p \in Pods |-> IF p \in b.run  THEN "listed"  ELSE
                                  IF p \in b.gone THEN "deleted" ELSE "new"]
       /\ sandbox = b.run \cup b.gone /\ ctrs = InitCtrs(b)
       /\ nextPid = Cardinality(sandbox) + 1
  /\ ifmap = {}
  /\ links = <<>> /\ linkStatus = "Pending"
  /\ attached = [l \in {} |-> None]
  /\ pc = "idle" /\ pos = 1 /\ expected = {} /\ cache = NoPaths
  /\ dirty = TRUE /\ changes = 0 /\ faults = [count |-> 0, kinds |-> {}]

updateLinks ==
  \/ clXdpUpdateLinks \/ clTcUpdateLinks \/ clTcxUpdateLinks \/ clUprobeUpdateLinks
  \/ clKprobeUpdateLinks \/ clKretprobeUpdateLinks \/ clTracepointUpdateLinks
  \/ clFentryUpdateLinks \/ clFexitUpdateLinks
  \/ nsXdpUpdateLinks \/ nsTcUpdateLinks \/ nsTcxUpdateLinks \/ nsUprobeUpdateLinks

reconcileBpfLink ==
  LinkInPlace \/ LinkAttach \/ LinkAttachFails \/ LinkDetach \/ LinkDetachFails

processLinks ==
  \/ clXdpProcessLinks \/ clTcProcessLinks \/ clTcxProcessLinks \/ clUprobeProcessLinks
  \/ clKprobeProcessLinks \/ clKretprobeProcessLinks \/ clTracepointProcessLinks
  \/ clFentryProcessLinks \/ clFexitProcessLinks
  \/ nsXdpProcessLinks \/ nsTcProcessLinks \/ nsTcxProcessLinks \/ nsUprobeProcessLinks

Reconcile ==
  \/ ReconcileStart \/ updateLinks \/ updateLinksFails \/ updateLinksDone
  \/ reconcileBpfLink \/ processLinks

Node ==
  \/ \E p \in Pods : \/ SchedulePod(p) \/ StartSandbox(p) \/ DeletePod(p) \/ RemoveSandbox(p)
                     \/ \E n \in CtrNames : StartContainer(p, n)
  \/ \E c \in ctrs : ExitContainer(c) \/ RemoveContainer(c)
  \/ \E key \in IfaceKeys : InterfaceAdded(key) \/ InterfaceDeleted(key)

Next == Reconcile \/ OtherController \/ Node \/ \E s \in StoredSpecs : EditLinks(s)

Spec == Init /\ [][Next]_vars

(***************************************************************************)
(* What the selectors ask for, stated without the agent's procedure.       *)
(***************************************************************************)
\* The pods a selector of program s names, by their own namespace.
Selected(s, sel) ==
  {p \in Pods : /\ stage[p] = "listed" /\ p \in sel.pods
                /\ PodNs[p] = OwnNs \/ s.scope = "cluster"
                /\ sel.ns \in {None, PodNs[p]} \/ s.scope = "namespace"}

\* An interface that discovery may use: shared_types.go:38-58.
Allowed(d, name) ==
  /\ name \notin d.exclude
  /\ d.allowed = <<>> \/ \E j \in DOMAIN d.allowed : name \in d.allowed[j].matches

\* The network namespaces a selector asks for.
WantedNets(s, sel) ==
  IF sel = None THEN {Host}
  ELSE {PodNet(p) : p \in {q \in Selected(s, sel) : \E c \in CtrsOf(q) : c.up}}

\* <<interface, network namespace>> for each field the user gave.
WantedInterfaces(s, ai) ==
  LET d == ai.ifs.discovery
      names == (IF ai.ifs.names # None THEN ai.ifs.names ELSE {})
               \cup (IF ai.ifs.primary = TRUE THEN {PrimaryIface} ELSE {})
  IN  (names \X WantedNets(s, ai.sel))
      \cup (IF d # None /\ d.auto
            THEN {<<x.name, x.netns>> : x \in {y \in ifmap : /\ Allowed(d, y.name)
                                                        /\ y.netns \in sandbox \cup {Host}}}
            ELSE {})

\* The containers, or the host, in which a user space probe is asked for.
WantedProcesses(s, ai) ==
  IF ai.sel = None THEN {Host}
  ELSE {c.pid : c \in {d \in ctrs : /\ d.up /\ d.pod \in Selected(s, ai.sel)
                                    /\ ai.sel.names = {} \/ d.name \in ai.sel.names}}

\* The attach points attachInfo ai of program s asks for, in the user's terms.
WantedOf(s, ai) ==
  LET a == ai.attrs
      priority == IF a.priority = None THEN 1000 ELSE a.priority
      interfaces == WantedInterfaces(s, ai)
      kernel(does) == {[at |-> Host, does |-> does]}
  IN
  CASE s.type = "xdp" ->
         {[at |-> x[2], does |-> [iface |-> x[1], priority |-> priority,
                                  proceedOn |-> Range(a.proceedOn)]] : x \in interfaces}
    [] s.type = "tc" ->
         {[at |-> x[2], does |-> [iface |-> x[1], priority |-> priority, direction |-> a.direction,
                                  proceedOn |-> Range(a.proceedOn)]] : x \in interfaces}
    [] s.type = "tcx" ->
         {[at |-> x[2], does |-> [iface |-> x[1], priority |-> priority,
                                  direction |-> a.direction]] : x \in interfaces}
    [] s.type \in {"uprobe", "uretprobe"} ->
         {[at |-> p, does |-> [function |-> a.function, offset |-> a.offset,
                               target |-> a.target, pid |-> a.pid]] : p \in WantedProcesses(s, ai)}
    [] s.type = "kprobe"     -> kernel([function |-> a.function, offset |-> a.offset])
    [] s.type = "kretprobe"  -> kernel([function |-> a.function, offset |-> 0])
    [] s.type = "tracepoint" -> kernel([name |-> a.name])
    [] OTHER                 -> kernel([function |-> s.function])

Wanted(s) == UNION {WantedOf(s, s.links[j]) : j \in DOMAIN s.links}

AttachedPoints == {attached[l] : l \in DOMAIN attached}

\* The links of bpfman that no entry of the list knows.
Unrecorded == DOMAIN attached \ {links[j].id : j \in DOMAIN links}

\* The last reconcile saw the node as it is and reports success.
Settled == pc = "idle" /\ ~dirty /\ linkStatus = "Success"

\* The runtime lists the selected pods under names of their own, and no
\* container of theirs that has exited; the interface list can be parsed.
Plain(s, ai) ==
  /\ ai.sel # None =>
       \A p \in Selected(s, ai.sel) :
         /\ findPodByNameWithNamespace(p) = {p}
         /\ \A c \in CtrsOf(p) : c.up
  /\ s.type \in NetTypes /\ ai.ifs.discovery # None =>
       \A j \in DOMAIN ai.ifs.discovery.allowed : ~ai.ifs.discovery.allowed[j].bad

\* Every answer of bpfman has reached the agent so far.
Reliable == faults.kinds \cap {"get", "reply"} = {}

\* And the cache was not reset while updateLinks used it.
Undisturbed == Reliable /\ "reset" \notin faults.kinds

\* Attach parameters of one type that bpfman reads alike list it alike: no two
\* proceedOn lists differ in their order or in values the conversion drops.
DistinctProceedOn ==
  \A s, t \in StoredSpecs : \A i \in DOMAIN s.links, j \in DOMAIN t.links :
    LET p == s.links[i].attrs.proceedOn
        q == t.links[j].attrs.proceedOn
    IN  /\ /\ s.type = "xdp" /\ t.type = "xdp"
           /\ {XdpActions[n] : n \in Range(xdpProceedOnToInt(p))}
                = {XdpActions[n] : n \in Range(xdpProceedOnToInt(q))}
           => p = q
        /\ /\ s.type = "tc" /\ t.type = "tc"
           /\ {TcActions[n] : n \in Range(tcProceedOnToInt(p))}
                = {TcActions[n] : n \in Range(tcProceedOnToInt(q))}
           => p = q

\* No TC program lists UnSpec, which tcProceedOnToInt does not know.
NoUnSpec ==
  \A s \in StoredSpecs : s.type = "tc" =>
    \A j \in DOMAIN s.links : "UnSpec" \notin Range(s.links[j].attrs.proceedOn)

\* No program switches the primary interface off, which switches it on, and no
\* list of allowed interfaces begins with a bad expression, which allows all.
MeantInterfaces ==
  \A s \in StoredSpecs : s.type \in NetTypes =>
    \A j \in DOMAIN s.links :
      LET ifs == s.links[j].ifs
      IN  /\ ifs.primary \in {None, TRUE}
          /\ ifs.discovery # None /\ ifs.discovery.allowed # <<>> => ~ifs.discovery.allowed[1].bad

\* Pods of one name are of one namespace.
NamesTellNamespaces == \A p, q \in Pods : PodName[p] = PodName[q] => PodNs[p] = PodNs[q]

(***************************************************************************)
(* Properties.                                                             *)
(***************************************************************************)
\* The variables have their types; the API server admits every list the agent
\* writes, and Reconcile()'s index stays within the list it walks (updateLinks,
\* processLinks of every program type).
TypeOK ==
  /\ {spec, cur} \subseteq StoredSpecs
  /\ stage \in [Pods -> {"new", "listed", "deleted"}] /\ sandbox \subseteq Pods
  /\ \A c \in ctrs : /\ c.pid \in 1..(nextPid - 1) /\ c.pod \in sandbox
                     /\ c.name \in CtrNames /\ c.up \in BOOLEAN
  /\ ifmap \subseteq IfaceKeys
  /\ StateAdmitted(spec, links)
  /\ \A j \in DOMAIN links : links[j].id \in LinkIds \cup {None}
  /\ linkStatus \in {"Pending", "Success", "Error", "UpdateAttachInfoError"}
  /\ pc \in {"idle", "update", "process"}
  /\ pos \in 1..((IF pc = "update" THEN Len(cur.links) ELSE Len(links)) + 1)
  /\ \A x \in DOMAIN cache : cache[x] \in Pods \cup {Host}
  /\ dirty \in BOOLEAN /\ changes \in 0..MaxChanges
  /\ faults \in [count : 0..MaxFaults, kinds : SUBSET Faults]

\* As long as no Get failed and no reply was lost, the ids in the list and the
\* links of bpfman are in bijection at every step: entries found, appended,
\* detached and removed never lose a link or share one, whatever else fails
\* (updateLinks, reconcileBpfLink, removeLinks).
LinksRecorded ==
  Reliable => \A l \in LinkIds :
    Cardinality({j \in DOMAIN links : links[j].id = l}) = IF l \in DOMAIN attached THEN 1 ELSE 0

\* Nor does any step leave the program attached twice at one place, even while
\* selectors overlap, paths alias and containers restart under the running
\* reconcile, unless bpfman refused to detach one of the two or the other
\* controller has reset the cache (findLink by namespace id, and old entries
\* coming before new ones in processLinks).
OncePerPoint ==
  Undisturbed => \A l, m \in DOMAIN attached :
    l # m /\ attached[l] = attached[m]
      => \E j \in DOMAIN links : links[j].id \in {l, m} /\ links[j].status = "DetachError"

\* After a reconcile that saw the node as it is and succeeded, the program is
\* attached nowhere but where its selectors ask for it, as long as no Get failed
\* and no reply was lost (getExpectedLinks, findLink, updateLinks).
AttachedIsWanted == Settled /\ Reliable => AttachedPoints \subseteq Wanted(spec)

\* The same, whatever went wrong, of the links the list knows: every entry is a
\* link that bpfman has, where the selectors ask for one, and no two entries are
\* at one place (isAttached, findLink, removeLinks).
RecordedIsWanted ==
  Settled =>
    /\ \A j \in DOMAIN links : HasLink(links[j]) /\ attached[links[j].id] \in Wanted(spec)
    /\ \A i, j \in DOMAIN links : attached[links[i].id] = attached[links[j].id] => i = j

\* A link is lost to the list by a failure only, and each failure loses one link at
\* most: a failed Get or a lost reply does not go on doing damage in later
\* reconciles (reconcileBpfLink, removeLinks).
LostByFailure == Cardinality(Unrecorded) <= faults.count

\* After a reconcile that saw the node as it is and succeeded, whatever went wrong
\* before, the program is attached everywhere its selectors ask for it, as far as
\* the runtime lists no exited container and no second sandbox of the selected
\* pods and the list of allowed interfaces can be parsed.
WantedIsAttached ==
  Settled => \A j \in DOMAIN spec.links :
               Plain(spec, spec.links[j]) => WantedOf(spec, spec.links[j]) \subseteq AttachedPoints

\* "Namespace scoped programs can only attach to the namespace they are created
\* in" (shared_types.go:105-106): a settled namespaced program is attached in no
\* pod of another namespace.
OwnNamespaceOnly ==
  Settled /\ spec.scope = "namespace" =>
    \A x \in AttachedPoints :
      /\ x.at \in Pods => PodNs[x.at] = OwnNs
      /\ \A c \in ctrs : x.at = c.pid => PodNs[c.pod] = OwnNs

====

# A TLA+ verification of bpfman-operator

This directory holds TLA+ models of the bpfman-operator, the configurations
that check them with TLC on small instances, and proofs that TLAPS checks for
all instances. `PROJECT.json` ties every definition to the lines of Go it
models, every property to a mutation of the code that breaks it, and lists the
hazards the properties are for.

## 1. The system

A user writes a `ClusterBpfApplication` (or a namespaced `BpfApplication`): BPF
programs, the attach points each of them is to be linked to, and a node
selector. Two kinds of process work on it and never talk to each other, only
through objects of the Kubernetes API server:

* on every node a **bpfman-agent** keeps one `...State` object per application,
  asks the local **bpfman daemon** over gRPC to load programs and to attach and
  detach links, and records ids and a condition in that object's status;
* one **bpfman-operator** reads the state objects of all nodes and writes the
  application's own condition. It also deploys bpfman itself (daemon sets,
  config map, CSI driver, monitoring) as its `Config` object says.

Deletion runs through finalizers: the operator's on the application holds it
until no state object carries an agent's finalizer; the agent's on a state
object holds that until its programs are unloaded. Owner references and the
garbage collector do the rest.

### Inventory

| Component | State it keeps | Operations | What is hard | Correct when |
|---|---|---|---|---|
| Agent, cluster applications (`cl_application_program.go`, `common.go`, `cl_*_program.go`) | state objects (in the API server), the daemon's programs and links, locals of one `Reconcile` | list, create state, wait for the cache, load, unload, update links, attach, detach, write status, remove finalizer | every read is from a cache that lags; every RPC and write may fail or lose its answer; the process may die between two of them; a write returns early and counts on the event it raises | one state object per application; nothing loaded or attached without a record; nothing wanted is detached; `Success` is true; a live application converges, a deleted one goes |
| Agent, namespaced applications (`ns_*.go`) | the same, namespaced | the same | the same | the same |
| Operator, applications (`common.go`, `common_cluster.go`, `common_namespace.go`, `*_application_programs.go`) | finalizer and condition of the application | add finalizer, aggregate, write condition, remove finalizer | two caches that lag independently; creations and deletions of state objects are filtered out; nodes come and go | at rest the condition is true; deletions are held up only by what must hold them up |
| Operator, Config (`config.go`) | the deployed objects | about fifteen create-or-update steps in a fixed order, an annotation, namespace labels, deletion | the first failure ends the pass; users tamper and override; some objects raise no events; Config is deleted during a pass | at rest the deployment is complete; nothing outlives Config |
| Agent, program types (`{cl,ns}_{xdp,tc,tcx,uprobe,kprobe,kretprobe,tracepoint,fentry,fexit}_program.go`) | the list of links of a program | expand selectors, find existing links, attach, detach, remove | paths alias, selectors overlap, containers restart while selectors are expanded | the list and bpfman's links agree; a program is attached where its selectors say, once, and nowhere else |
| Interface discovery (`cmd/bpfman-agent/main.go`, `internal/iface.go`), `NetNsCache` | map of interfaces per network namespace; ids of namespaces by path | add, delete, select; look up, reset | a listener races two readers; two reconcilers share the cache | selection sees each interface once |
| Container discovery (`containers.go`, `pkg/crictl`) | none | filter pods and containers | two sources, API server and container runtime, that disagree | one process per selected container |
| bpffs mount (`internal/bpffs`, `handleMountBPFFS`) | a mount | check, unmount, mount, check again | another process mounts in between | mounted when it returns without an error; a lost race is no failure |
| API types (`apis/v1alpha1`) | - | admission rules and defaults | what the code assumes of an object is what the markers enforce | every program that is admitted has a reconciler and a request bpfman understands |
| Agent process (`cmd/bpfman-agent/main.go`) | the context, three goroutines, a listener, a socket file of the host | set up, serve, fail, shut down | signals and failures before, during and after the start of each goroutine; the socket outlives a killed process | a returned agent leaves nothing behind; one dead component ends the process; the next agent is reachable |
| Metrics proxy (`cmd/metrics-proxy`) | none | forward a request, readiness | the agent behind the socket comes and goes | ready again once the agent is |
| Operator start-up (`cmd/bpfman-operator/main.go`) | - | create the default Config | it runs before the caches, at every restart | never two Configs, none that stays unreconciled |
| Image pull credentials (`internal/auth.go`), predicates and comparisons (`internal/k8s.go`, `cmp.go`) | none | pure functions | - | - |
| Flags, logging, certificates, generated clients | none of interest | I/O | - | - |

## 2. Modules

| Module | Models | Uses |
|---|---|---|
| `AgentContract` | abstract specification: what an agent promises about its state objects | - |
| `BpfAgent` | one agent, its cache, the bpfman daemon, the API server's part of it, users and node | instantiates `AgentContract` as its abstract specification |
| `BpfAgentProofs` | theorems about `BpfAgent`: types, one state object per application, the refinement of `AgentContract`, what is never detached | extends `BpfAgent`, TLAPS |
| `BpfAgentRecords` | theorems: nothing bpfman holds is without a record | extends `BpfAgentProofs` |
| `BpfAgentTruth` | theorems: a reported success is true, and so is a reported change of the program list | extends `BpfAgentRecords` |
| `BpfOperator` | the application reconciler over all nodes | composes itself with agents that are `AgentContract` |
| `BpfOperatorProofs` | theorems about `BpfOperator` | extends it, TLAPS |
| `BpfConfig` | the Config reconciler | - |
| `BpfConfigProofs` | theorems about `BpfConfig` | extends it, TLAPS |
| `BpfNode` | one agent process with its two controllers, cluster and namespaced, on one daemon | extends `BpfAgent` and instantiates it a second time |
| `BpfNodeProofs` | theorems about `BpfNode` | extends it, TLAPS; instantiates `BpfAgentTruth` once for each controller |
| `ProgramTypes` | pure operators: what the API server admits and fills in for each of the thirteen program types, the responsible reconciler, its load and attach requests | - |
| `BpfLinks` | the attach points of one program: selectors, link recognition, link reconciliation for all program types | extends `ProgramTypes` |
| `BpfLinksProofs` | theorems about `BpfLinks` | extends it, TLAPS |
| `AgentProcess` | the agent's pod: bpffs mount, start-up, components, shutdown, the metrics socket and the proxy behind it | - |
| `AgentProcessProofs` | theorems about `AgentProcess` | extends it, TLAPS |
| `MCBpfAgent`, `MCBpfOperator`, `MCBpfConfig`, `MCBpfLinks`, `MCBpfNode`, `MCAgentProcess` | instances for TLC: symmetry sets, the selection of steps, pods and programs | extend the above |

Definitions keep the names of the Go functions where there is one. A definition
whose comment begins with "Slip:" is no part of a specification: it is a
plausible mistake in the function after it, and `PROJECT.json` names the
property that catches it.

### 2.1 BpfAgent

*State.* `st` are the state objects in the API server, `stCache` the agent's
informer cache of them, `loaded` and `linkProg` what the daemon has loaded and
attached, `app`, `selected` and `avail` what users, labels and pods ask for.
The rest are the locals of the one `Reconcile()` that runs at a time: `pc`, the
snapshot `list` taken at its start, the application at hand `ca`, the state
object as it was read `orig` and as it is being changed `cur`, and the loops'
remaining work `todo`, `ptodo`, `ltodo`.

*Steps.* One step is one call that leaves the process, with the local
computation around it: create, status write, finalizer removal, load, unload of
one program, attach, detach, and each look into the cache during the two waits.
Another actor, a failure or a crash can fall between any two of them. Every
early return is an action that resets the locals, with (`ReturnAndRequeue`) or
without (`Return`) a retry in the queue, as the code's return values say.

*Failures* are named in `FaultKinds`; the constant `Faults` selects the ones a
run allows and `MaxFaults` how many. `crash` loses all locals; `timeout` is
either wait giving up after its two minutes; `reply` is an RPC that was carried
out but returned an error; `get` is a Get RPC whose failure the code takes for
"not loaded" or "not attached"; `lost` is a program unloaded by hand. Three
kinds are things a user may write that the API server admits: `retype` changes
the type of a program, or the function of an fentry or fexit program, under its
name; `duplicate` lists a function twice; `selector` is a node selector that
cannot be parsed.

*Abstractions.*
* `queued` is a flag: requests carry no information the agent uses, since every
  reconcile lists all applications. The loop takes applications, programs and
  links in any order.
* The API server accepts a write if the object equals the copy the write is
  based on. Resource versions would also refuse a copy of an object that
  changed and changed back; the retry that follows writes the same thing.
* The applications have no cache of their own: `app` is what the informer shows,
  and staleness enters through the snapshot `list` that a whole reconcile works
  on while users, operator and garbage collector go on.
* An attach point stands for whatever a program type links to (interface in a
  network namespace, container process, kernel function); `BpfLinks` says which
  ones. A point in `Silent` appears without an event: an interface found by the
  listener.
* Program and link ids are handed out in increasing order and never reused.
* `validateProgramList` compares names; `fn` tells the two types, or functions,
  of a program apart, whose change `getProgState` notices instead.
* A program listed twice is in `twice`. Such a list never validates, so that the
  loop over the programs never meets it; two entries of one name and different
  types, which are no repetition to `getProgState`, are not modelled. The CRD
  excludes a program type that no reconciler knows.
* An application whose selector cannot be parsed fails in `reconcileLoad` before
  anything else (`NodeSelectorInvalid`): also when it is being deleted.

### 2.2 AgentContract

A state object is reduced to its condition, its two deletion marks and `busy`,
"the status records a program id". The four steps Create, Report, Release and
Collect say what the operator relies on: an object starts with its finalizer and
without a condition, records programs only under the finalizer, and loses it
only when it records none and does not report a failure. `BpfAgent` states that
it implements this (`ImplementsContract`, with the mapping `Promise`), and
`BpfOperator` uses the same steps for its nodes, so the two models meet at one
definition.

### 2.3 BpfOperator

One application, any number of nodes. `app`/`appCache` and `obj`/`objCache` are
the two informers, which lag independently; `watch[n]` holds the versions of
node n's object still to be delivered, one by one, because the predicate looks
at pairs of successive versions. Requests are names: the application's, or a
state object's, which `Reconcile` follows to the owner. `aggregate` is the
decision of `reconcileBpfApplication`. The agents list the application at their
own pace (`seen`), create, initialise, report, unload and release.

There is one incarnation of the application and no garbage collection here: a
state object that outlives its application produces no request the operator
would act on. The write of a condition compares only condition types, as the
code does. `nodeCache` raises no events, since the operator does not watch
nodes.

### 2.4 BpfConfig

All steps of `Reconcile` in order, on each of the four platforms (OpenShift or
not, monitoring API or not). A deployed object is a version (0: edited by a
user; 1 or 2: as built from Config), its owner and the serving-certificate
annotation that one step adds and every update of another step removes. The
cache jumps to the newest version of an object; `news` remembers that an event
which leads to Config, through the old or the new owner reference, is still
under way, even if the content has changed back meanwhile. `Kept` selects the
steps an instance looks at. The steps still ahead are a set, `todo`; `Order`
gives each step its place in `Reconcile`, and `AtStep` is the one that comes
first.

An object is named by its step and, unless its kind is cluster-scoped, the
namespace it lies in, so that a change of `spec.namespace` (`UserMoves`) makes
the next reconcile work on other objects while the old ones stay. The binding
of the service account is cluster-scoped and follows the namespace by its
content (`Version`). The namespaces exist throughout.

The operator begins, and begins again after a crash, with
`ensureDefaultConfig`, which asks the API server and not the cache; only then
are the caches filled and a first request is queued.

### 2.5 BpfLinks

`BpfAgent` takes attach points as given; this module is about where they come
from. One program of any type and scope, one node.

*State.* `spec` is the program as written; `stage`, `sandbox`, `ctrs` are the
pods of the API server and the sandboxes and containers of the runtime, which
change independently of each other; `ifmap` is the map interface discovery
maintains; `links` and `linkStatus` are the part of the program's state that
`updateLinks` and `processLinks` work on, and `attached` is where bpfman really
has a link: a function whose domain are the ids bpfman knows. `cache` is
`NetNsCache`, and `expected` what is left of the attachInfo at hand.

*Failures* are named in `FaultKinds`, as in `BpfAgent`: the runtime does not list
(`cri`), the primary interface is not found (`node`), bpfman refuses (`attach`,
`detach`), its Get fails, which `doesLinkExist` takes for "not attached" (`get`),
or it has attached or detached and the answer is lost (`reply`). Both
controllers of the agent hold one `NetNsCache`: `OtherController` is the other
one, which may look a path up (`read`) or reset the cache (`reset`) between any
two steps of `updateLinks`.

*Steps.* `ReconcileStart` resets the cache and clears `ShouldAttach`.
`updateLinks` has two kinds of steps, its two loops: `ExpandLinks` expands one
attachInfo into the links it asks for, and `FindLink` looks one of them up,
which is then skipped (its path cannot be read), marked or appended. They come
in the order of the API server, the runtime or a Go map, that is in any order,
and the node may change in between. The `Link...` actions reconcile one entry;
`processLinks` removes the entries that are neither wanted nor attached
(`removeLinks`, by `Keep`) and computes the link status. Containers, pods and
interfaces may change between any two. Where
the code's result depends on the order in which the API server, the runtime or a
Go map lists things, the operators return every possible result
(`GetContainers`, `GetOneContainerPerPod`), and no result stands for an error.

*Keys.* `findLink` of each type is the tuple of fields it compares (`xdpKey`,
`tcKey`, ...). Network types compare the namespaces behind two paths, through
the cache; probes compare the path or nothing. The code around `findLink` is
repeated in the reconcilers of all types and scopes: `PROJECT.json` maps each
definition that stands for such code to one of the copies.

*Reference definition.* `Wanted` says where the selectors ask for a link, from
the API's description of them and without the agent's procedure: by a pod's own
namespace rather than by a name in the runtime, by namespaces rather than paths,
by the whole list of expressions rather than up to the first bad one. The
properties about it speak of `Settled` states: the last reconcile saw the node
as it still is and reported success.

*Abstractions.* A path is a pair (how, what); a regular expression is the set of
names it matches, or bad. `IsProgram` and `IsAttachInfo` say which fields a
document has, as the Go types do; names of interfaces are not nil. Process ids
are not reused. The list is kept between two reconciles: losing it is
`BpfAgent`'s subject, as is a deletion, where the lists are emptied by the
unload. An id of a link is used again only when no entry records it. A lookup in
the cache is one step; in the code the other controller may reset it between
the `stat` of a path and the store of its id.

`ProgramTypes` supplies what is particular to a type: `Admitted` and
`WithDefaults` (`AttachInfoDefaults`, `InterfaceDefaults`) are the kubebuilder
markers (required, exactly one of, ranges, enumerations, defaults) and decide
which of `Specs` a user can submit at all; `getProgramReconciler` selects the
reconciler by type and scope; `getAttachRequest` builds the request with each
conversion as the code makes it (`proceedOn` to numbers, the direction to a
string, an empty network namespace path to none). `TypeOK` of `BpfLinks` also
says that the API server admits the recorded list as a status of that program.

### 2.6 BpfNode

`ns_application_program.go` repeats `cl_application_program.go` call by call on
namespaced objects. `BpfNode` therefore instantiates `BpfAgent` a second time,
with objects, cache, queue and locals of its own, and shares with it only the
variables of the daemon (`loaded`, `linkProg` and the counters of ids) and of
the node. Each definition `ns...` collects the actions that stand for one
function of the namespaced file. A step is a step of one controller, or of the
objects it watches, and leaves the other's variables alone. Crashes and changes
of the node, which meet each controller as if it were alone, are left to
`BpfAgent`.

### 2.7 AgentProcess

*State.* The init container (`initPc`, the number of bpffs mounts), the main
function (`pc`), the three goroutines of the errgroup (`comp`), the shared
context (`ctx`), the fourth goroutine inside `agentMetricsServer.run` (`serve`),
the listener and what the socket's path leads to: nothing, a dead process, or
this listener. `call` and `answer` are the proxy's requests, one readiness
probe and one scrape at a time.

*Steps.* Each step of the start-up that can fail by itself is an action; the
ones before the socket is touched are one. A signal is deadly before the
handler is installed, cancels the context once, and is deadly again the second
time. `Shutdown` closes the listener only if `Serve` has taken it: in the other
order `Serve` itself closes it, and until then the deferred removal in `run` is
what takes the socket away. The kernel's part, the end of a process, closes the
listener and leaves the file.

*Abstractions.* What the controllers do is `BpfNode`. A new agent starts only
when the old one has ended, as a DaemonSet's pod does unless it is deleted by
force. Idle connections of the proxy are not kept. The deferred removal of the
socket succeeds; the code logs an error of `os.Remove` and goes on.

## 3. What TLC checks

All runs but those of `BpfLinks` switch the deadlock check off: with nothing to
reconcile and no more user actions allowed, the system rests, as it should. In
`BpfLinks` the agent may always reconcile again.

| Run | Configuration | Properties | What it shows |
|---|---|---|---|
| `agent_two_apps` | `MCAgentTwoApps` | `TypeOK`, `AtMostOneState`, `Converges`, `DeletedGoes` | Two applications, whose selectors may be unparsable, and no failures: events alone, without the resync, load and report every live application and remove every deleted one, unless an application that cannot be reconciled is in the way. |
| `agent_transient` | `MCAgentTransient` | `NoOrphanProgram`, `NoOrphanLink`, `SuccessIsTrue`, `OnlyUnwantedDetached`, `Converges` | A refused RPC or a failed link computation while the user edits links: no program or link loses its record, nothing wanted is detached, `Success` is true, and the event of the status write is enough for the retry. |
| `agent_faults` | `MCAgentFaults` | `FinalizerGuardsPrograms`, `ProgramListErrorIsTrue`, `ImplementsContract` | One failure of any kind and one change of any kind, repeated functions and unparsable selectors included: the state object's life keeps to the contract, and the program list is called changed only where an edit, a repetition or a failure before the first status explains it. |
| `agent_retry` | `MCAgentRetry` | `Converges`, `DeletedGoes` | After a failed RPC, a lost program or an attach point that came without an event, the resync is enough. |
| `operator_events` | `MCOperatorEvents` | `TypeOK`, `RestingStatusIsTrue` | Two nodes in every order and a failed write: the events that pass the predicate are enough. |
| `operator_resync` | `MCOperatorResync` | `StatusConverges`, `DeletionWaitsOnlyForLostNodes` | Broken watches, restarts, nodes joining and leaving: the resync makes the condition true; only a departed node can hold up a deletion. |
| `config` | `MCConfig` | `TypeOK`, `RestingDeploymentIsComplete`, `DeploymentConverges`, `NothingOutlivesConfig` | The operator starts, restarts, creates its default Config; Config is edited, overridden, moved to another namespace, deleted and re-created on four platforms, with tampering and failed writes. |
| `links` | `MCLinks` | `TypeOK`, `LinksRecorded`, `OncePerPoint`, `AttachedIsWanted`, `WantedIsAttached`, `RecordedIsWanted`, `LostByFailure` | Programs of all types and scopes, with overlapping selectors, on a node that changes between any two steps, with one failure of any kind, failed Get calls, lost replies and foreign resets of the cache included. Each failure costs the list the knowledge of one link at most, and the next reconcile that succeeds records one link at every place asked for and no other, and the program is attached there. Until a Get has failed or a reply was lost, the list and bpfman's links are in bijection and a settled program is attached nowhere else; until the cache was reset as well, nothing is attached twice. |
| `node` | `MCNode` | `OneMaster`, `HandsOff`, `BothReportTruly` | The cluster and the namespaced controller on one daemon: every program and link belongs to exactly one of them, neither tears down what is the other's, and both report truly. |
| `process` | `MCProcess` | `TypeOK`, `CleanReturn`, `ServingIsReachable`, `MountedWhenRunning`, `LostRaceIsNoFailure`, `NoHalfDeadAgent`, `Recovers` | Three failures, signals or races anywhere in the pod's life: no socket is left by an agent that returned, none that serves is hidden, one dead component ends the process, and agent and proxy recover. |

Two runs show a statement of the repository that the code does not keep:

| Run | Property | The statement and what happens |
|---|---|---|
| `agent_deselected` | `DeselectionReported` | A deselected node follows a program id it has just cleared, panics, retries, and never writes `NotSelected`. |
| `links_own_namespace` | `OwnNamespaceOnly` | The API says a namespaced program attaches in its own namespace only. Pods are selected there, but the runtime is asked for them by name alone, and a pod of the same name in another namespace may answer. |

### Bounds

* Agent: one or two applications, one or two programs, one or two attach points.
  Two applications are needed for one to block or to be confused with another,
  two programs for a load or unload to be partly done, two points for one link
  to fail while another does not. Two state names allow the duplicate that
  `AtMostOneState` excludes. Program and link ids suffice for every load and
  attach the failures can cause.
* `Converges` and `DeletedGoes` say nothing while there is an application that
  `reconcileLoad` can do nothing for (`NoneHopeless`): a selector that cannot be
  parsed, or a function listed twice. Such an application never converges, its
  deletion is never finished, and each reconcile that comes to it first ends
  there, so that the others may wait as well. `agent_two_apps` has such
  selectors beside sound ones. A selector that is repaired is not part of a
  liveness run: the status writes of the retries would reach `MaxUpdates`.
* `MaxFaults` is 1, or 2 where failures combine (a crash after a failed write).
  `MaxEdits` is 1 or 2: a change and its reversal. Every run creates an
  application once; re-creation under an old name is covered by the proof of
  `OneStatePerApp`. `MaxUpdates` bounds the status writes of a state object;
  in the liveness runs it is large enough never to be in the way: `Converges`
  would be violated by a behaviour stuck at the bound.
* Operator: two nodes with one failure in the safety run; one node with two
  failures in the liveness run, where the node's report, its departure and the
  deletion already race. `MaxReports` = 2 is a report and its opposite; `MaxLag`
  bounds how many versions of a state object the watch may be behind: with 2 or
  3 a creation and the updates after it can be pending together, and since the
  predicate looks at two versions at a time, more lag adds no new pair.
* Config: one step of every shape (an object that follows Config, one that does
  not and gets annotated, the annotation, the namespace). The other steps run
  through the same `assureResource` and differ in name only. Two namespaces, two
  incarnations, one edit, one failure; a change of `spec.namespace` counts as all
  three, so that a move is explored by itself.
* Node: one application, program and point for each controller, without
  failures: interference needs one of each. There are two ids, so that each
  application is loaded and attached once.
* Process: three failures, which is a failure of the start-up, one of a running
  component and a kill, or two signals and a race.

* Links: a pod with a network of its own, one in the node's network (two paths,
  one namespace), and a successor of the first under the same name, present
  together with the first's remains or not. Two containers of one pod are needed
  for two processes in one namespace; one process more than the pods at the start
  is a sidecar or a restart. Two changes are enough for a container to exit and
  another to start, or the spec to change, during one reconcile; the link ids
  suffice for every list reached (running out would show as an error). There is
  one failure: what a second one adds to the first is covered by the proofs,
  which bound neither.

Symmetry is used for state names and nodes in runs that check safety only.

### Fairness

* `WF(ReconcileStep)`: controller-runtime's worker takes requests from the queue
  and every call returns. Failed calls are part of that step; they end because
  `MaxFaults` is finite.
* `WF(SyncState)`, `WF(SyncApp)`, `WF(SyncObj)`, `WF(SyncConfig)`,
  `WF(SyncResource)`, `WF(SyncNodes)`: informers deliver.
* `WF(GarbageCollect)`, `WF(OperatorRelease)` in the agent's model, the agents'
  duties in the operator's model: the other parts of the cluster work. An agent
  is not obliged to report success.
  In `BpfConfig` the steps of the operator, of its informers and of the garbage
  collector are each one weakly fair group.
* `AgentProcess`: every goroutine is scheduled, `Shutdown` returns or times out,
  the kubelet restarts what has ended and keeps probing. A request that was
  accepted is answered or dropped. Failures, signals and scrapes need not happen.
* `WF(Resync)` only in `ResyncSpec`: the informers' periodic resync (ten hours
  by default). Properties about events are checked without it.
* Users, crashes, faults and nodes are under no obligation. `BpfLinks` and
  `BpfNode` have no liveness property and no fairness.

## 4. What is proved

TLC settles a property for the instances of section 3. The theorems hold for
every set of applications, programs, points, ids, nodes, steps and namespaces,
every bound and, unless a theorem says otherwise, every set of faults. The
constants are assumed to be what the code needs them to be and no more: ids are
numbers, nil (`None`) is none of the names and none of the records
(`BpfAgentAssumption`, `PromiseAssumption`, `NoneAssumption`).

Every proof has the same shape. The property is not inductive, so an invariant
that implies it is; TLC checked that invariant on the instances of section 3
before it was proved. Then one lemma per group of actions says that the group
keeps it, and `PTL` puts the pieces together.

### The agent

`BpfAgentProofs`

* **`TypeCorrect`**: `Spec => [](TypeOK /\ ControlOK)`. `TypeOK` alone is not
  inductive: that `cur.progs[p]` is a program state after an update needs that
  it was not nil before. `ControlOK` says so for each place of `Reconcile`: at
  a visited application there is a list entry, at a state there are `orig` and
  `cur`, in the unload loop every remaining program has an entry, in the link
  loop every remaining link has. With it the theorem says that the code never
  follows a nil state, program or link entry. (The nil program *id* of
  `agent_deselected` is a value of its type, and is followed.)
* **`OneStatePerApp`**: if `"timeout"` is not among the faults,
  `Spec => []AtMostOneState`. The inductive invariant `UniqueInv` adds: a cached
  copy belongs to the same application as the object (`AppAgree`); outside the
  wait after a create the cache knows every object (`CacheComplete`), which is
  what the wait is for; a create happens only where the cache shows nothing
  (`CreateOnlyFirst`); during the wait the created object is there, held by its
  finalizer, and the only one the cache can miss (`CreatedIsMissing`); the copy
  at work belongs to the object it is written to (`SameApp`). The assumption is
  necessary: when the wait gives up while the object exists, the retry creates
  another one.

`BpfAgentProofs`, if `"recreate"` is not among the faults

* **`AgentKeepsContract`**: `Spec => ImplementsContract`, the refinement of
  `AgentContract` under the mapping `Promise`: the initial states map to initial
  ones and every step of the agent, the cache, the users, the garbage collector
  and the environment maps to a step of the contract or to a stutter. Crashes,
  timeouts, lost and repeated answers are all allowed.
* **`FinalizerHolds`**: `Spec => []FinalizerGuardsPrograms`: a state object that
  records a program is never without its finalizer.

  Both rest on `ContractInv`: every copy of a state object, in the API server,
  in the cache and as it was read, records programs only under the finalizer and
  is without it only when its application is leaving (`CopiesOK`); a deletion
  the snapshot shows is not taken back (`DeletionStays`); the copy at work
  differs from the original in its status only (`SameMeta`); ids enter it under
  the finalizer, and the unload loop has taken them out before a deleted
  application's status is decided (`WorkOK`); the finalizer is given back only
  for an object read as empty and with a good condition (`ReleaseOK`); `Pending`
  is only written over the empty status (`FirstStatusOK`), because an object the
  cache does not know was never written (`UnseenIsNew`). The assumption is
  necessary: the agent finds its state object by the name of the application,
  so for an application that is deleted and created again under the same name
  it loads programs into the old object while that is being released and
  collected.

`BpfAgentProofs`, if `"points"` and `"netns"` are not among the faults

* **`WantedLinksStay`**: `Spec => OnlyUnwantedDetached`, an action property: no
  step detaches a link that the application as this reconcile listed it asks
  for. `DetachInv` says that in the walk over the links only entries nobody asks
  for have `ShouldAttach` cleared (`UnwantedOnly`), and for this the expected
  points have to be the ones asked for (`AllAvailable`): a point that vanishes,
  or whose network namespace cannot be read, is detached as it should be.

`BpfAgentRecords`, if none of the nine failures `Separating` is among the faults

* **`NoProgramOrphaned`**: `Spec => []NoOrphanProgram`, and **`NoLinkOrphaned`**:
  `Spec => []NoOrphanLink`: every program and every link that bpfman holds is
  recorded by a state object or by the copy of the reconcile at work.

  The invariant has two parts. `ObjectInv` is about objects and caches. No
  application uses the second function of a program (`PlainApps`); an object
  names the application that owns it (`OwnersOK`); an object without a status
  was never updated (`CountsOK`); outside the wait after a write a cached copy
  carries the current status (`CacheOK`), which is what that wait is for; an
  object without its application belongs to one that is leaving or to a
  creation under way (`OwnerStays`); the object at work is the one that was read
  (`VisitOK`), so that its write is accepted.
  `RecordsInv` is about bpfman. A link belongs to a loaded program and ids are
  not handed out twice (`DaemonOK`); all copies of an object record links of
  their own programs only (`RecordsSound`); no program is recorded by two
  objects (`OneRecord`); the programs of an object are loaded all or not at all,
  except behind an unload (`LoadedTogether`), because one program that is
  missing makes the agent load all of them again; what the object recorded
  before the visit and bpfman still holds stays in the copy at work
  (`NothingDropped`); at each place of the visit, what was loaded or attached
  will be written (`PlaceOK`); and what is loaded is recorded by an object or by
  the copy at work (`NothingOrphaned`). `StepRecords` says once what a step of
  the visit may do to bpfman and to the copy without breaking any of this; the
  lemma of each operation shows that it is such a step. What an operation does
  to the copy and to bpfman is stated before that in a lemma of its own
  (`UnloadEffect`, `LoadEffect`, `UpdateLinksEffect`, `LinkEffect`), which
  `BpfAgentTruth` uses as well.

  Each of the nine assumptions is necessary: with that failure alone TLC finds a
  program or a link without a record. A crash, a lost reply (`reply`) or a
  refused write (`write`) separates the load from its record; a wait that gives
  up (`timeout`) lets the next reconcile read a copy without the ids; an error
  of `unload` or of Get (`unload`, `get`) is taken for "not there"; one program
  of two that vanishes (`lost`) makes the agent load both; a re-created
  application (`recreate`) uses an object that is collected; and the status
  refused for a changed type or function (`retype`) holds the links attached in
  the same visit. Unparsable selectors and repeated functions are allowed: on
  their paths nothing is loaded or unloaded. They do bring status writes without
  a reason, whose refusal must not leave a program behind: where a copy that was
  read records a program the object is still there with its finalizer
  (`HeldInv`).

`BpfAgentTruth`, if none of `Misleading` is among the faults: the nine failures
above, and an application that stops selecting the node (`select`)

* **`SuccessReportedTruly`**: `Spec => []SuccessIsTrue`: between reconciles, a
  state object that reports `Success` and `LoadSuccess` names programs that are
  loaded and links that are attached to them. Refused loads, attaches and
  detaches, failed link computations, vanishing points and network namespaces,
  changed program lists, edits and deletions are all allowed.

  `TruthInv` has three parts. The node stays selected (`AllSelected`).
  `CurrentInv` says that the object that records a program has its application
  (`BusyOwned`) and is the version that the cache shows, unless the cache is
  waited for, and that the visit began with (`CacheCurrent`, `BaseCurrent`), so
  that the write after a visit that changed something is accepted. `ReportInv`
  is about the report: no two entries of an object record the same link
  (`DistinctLinks`), so that a detach takes nothing from another entry; in the
  walk, each program behind whose attach status is Success, and each link behind
  that reports its attachment, is attached (`WalkOK`); what is about to be
  written is true (`WriteTrue`); and what is written is true unless the
  reconcile is at work on that object (`RestTrue`). An object on which the visit
  ends early keeps its report because it recorded no program (`~Busy(orig)`).

  `select` is needed because a deselected object is unloaded and then walked
  over: `reconcileBpfLink` on a program without an id ends the reconcile
  (`LinkPanic`) before the status is written, and the old Success stays. The set
  is not claimed to be minimal: some of the nine enter only through
  `RecordsInv`.

`BpfAgentTruth`, if none of the nine failures `Separating` is among the faults

* **`ListErrorReportedTruly`**: `Spec => []ProgramListErrorIsTrue`: while its
  application is there, no state object reports a changed program list before a
  user changed something, unless the application lists a function twice
  (`Repeats`, `Justified`). `ListInv`
  follows the first status: it is made from the program list the reconcile read
  and names all of its programs; it is refused only when the application is on
  its way out; and the next comparison waits for it, so that every status that
  is compared with a list, in the API server, in the cache or at work, was made
  from that list. A list with a repetition gets no first status. With a refused
  first write (`write`) the report comes without a change, see section 5; the
  property admits it then, for an object whose list is empty, and the run
  `agent_faults` checks that it comes in no other way.

### Both controllers on one daemon

`BpfNodeProofs`, if none of `Disturbing` is among the faults: `timeout`, `write`,
`unload`, `reply`, `get`, `recreate` and `retype`, the failures of section "The
agent" that can occur here

* **`EachHasOneMaster`**: `NodeSpec => []OneMaster`: every program and link of
  bpfman is known to exactly one of the two controllers.
* **`NeitherDisturbsTheOther`**: `NodeSpec => HandsOff`, an action property: no
  step of one controller unloads a program or detaches a link the other knows.
* **`BothControllersReportTruly`**: `NodeSpec => []BothReportTruly`.

  The proofs of `BpfAgentTruth` are not repeated: they are used twice. The view
  a controller has of bpfman is what bpfman holds without what the other
  controller's objects record (`ClLoaded`, `ClLinkProg`, `NsLoaded`,
  `NsLinkProg`), and each controller is a `BpfAgent` in its own view: `Cl` and
  `Own` are `BpfAgentTruth` with the view in the place of `loaded` and
  `linkProg`, and their lemmas hold of it. `NodeInv` is the invariant of
  `BpfAgentTruth` for both and that no id is held by both. A step of one
  controller is a step of the agent in its view, or changes nothing there
  (`ClusterQuiet`, `ClusterBusy`, `NsQuiet`, `NsBusy`), and leaves the other's
  view as it was, because the ids it unloads and detaches are its own and the
  ids bpfman hands out are held by nobody. `NsNoneAssumption` says that nil is
  none of the namespaced records either.

### The links of a program

`BpfLinksProofs`, for every set of documents, pods, containers, interfaces and
ids and all bounds

* **`LinksTypeCorrect`**: `Spec => []TypeOK`: whatever updateLinks,
  reconcileBpfLink and removeLinks do to a list, the API server admits it as a
  status of that program, and no loop runs out of its list.
* **`EveryLinkIsRecorded`**: `Spec => []LinksRecorded`: the ids in the list and
  bpfman's links are in bijection at every step while `Reliable`, that is until
  the first failure `get` or `reply`, each of which breaks it.
* **`FailuresLoseOneLinkEach`**: `Spec => []LostByFailure`, without any
  assumption: what those failures cost is one link each. The links bpfman has
  and no entry knows are never more than the failures there were, since an id in
  the list is given up only by a detach, by an attach in place of a link bpfman
  no longer has, or by a failure.
* **`AttachedOncePerPoint`**: under `DistinctProceedOn`, `Spec => []OncePerPoint`:
  while `Undisturbed` no place is used twice, unless bpfman refused to detach one
  of the two. `Undisturbed` is `Reliable` and no foreign `reset` of the cache yet:
  after one, the expansion of a second attachInfo may see a namespace
  under another path, whose process has ended meanwhile, as a new one.

  The module first reduces the thirteen reconcilers to four effects, which the
  invariants are proved against: `Expanded` and `LookedUp` (updateLinks),
  `LinkEffect` (reconcileBpfLink) and `ProcessEffect` (the end of processLinks,
  where `KeepIsReordering` says what the filtered list is, without induction).
  `BaseInv` says which entries, paths and containers there can be. `RecordInv`:
  no two entries have one id, and, with reliable answers, the ids of the list
  and bpfman's are matched one to one (`Matches`), and an unused entry the loop
  has passed has given its id back (`PassedOK`), so that removing it loses
  nothing. `TypeInv` follows each entry to an attachInfo the API server admitted
  with its defaults: the entry's parameters are that attachInfo's, so they pass
  the validation of the status as well. `OnceInv` is about places. Process ids
  are not reused, so every process has one network for all time; the invariant
  has that function as a parameter (`tgt`) and claims that it exists and tells
  the truth about every container (`Tells`). A path that can be read leads to
  its target, and so does every path in the cache (`CacheOK`). Entries marked by
  this reconcile were readable (`MarkedRead`); two marked entries differ in
  target or parameters (`PairsOK`); an entry that is not marked has been
  detached when the loop is past it, or is in `DetachError` (`PassedGone`); and
  a link of bpfman is where its entry leads to (`WhereOK`). Old entries precede
  the new ones that replace them, which is why an attach never meets the old
  link.

  The hypothesis `DistinctProceedOn` is necessary: `findLink` compares lists,
  bpfman reads them as sets without the values the conversion drops. Two
  attachInfos with the same values in another order are two entries at one
  place.
* **`AttachedWhereAsked`**: under `NamesTellNamespaces`, `MeantInterfaces` and
  `NoUnSpec`, `Spec => []AttachedIsWanted`: while `Reliable`, after a reconcile
  that saw the node as it is and succeeded, the program is attached nowhere but
  where its selectors ask for it, and does there what they ask for. Later an
  unwanted link whose Get failed is still there.
* **`RecordedWhereAsked`**: under the three conditions on the input and
  `DistinctProceedOn`, with every failure, `Spec => []RecordedIsWanted`: after
  such a reconcile the entries are links that bpfman has, each at a place of its
  own that the selectors ask for.
* **`AskedIsAttached`**: under `NoUnSpec`, with every failure,
  `Spec => []WantedIsAttached`: after such a reconcile the program is attached
  everywhere they ask for it, for each attachInfo that is `Plain`.

  All three compare what the agent's procedure leaves behind with a definition that
  does not mention the procedure (`Wanted`), and the proof has three parts.
  First, one expansion: on the node as it is, every link of it leads to a place
  the attachInfo asks for (`ExpansionWanted`) and every place asked for has a
  link (`ExpansionComplete`), for all types, both scopes, and every choice of
  sandboxes and of one container per pod; what a link does there is what the
  attachInfo says after the conversions of the attach request (`DoesAsMeant`,
  with `Converted` for the proceedOn lists). Second, the steps: `SettledInv`
  says that while nothing has changed the reconcile works for the current
  program with a cache that is right and has marked only what can be read
  (`FreshOK`), that an entry reported as attached is (`EntriesTrue`), and that a
  reconcile which succeeded leaves only entries it marked, all of them attached
  (`DoneOK`). On top of it `OnlyWanted` follows every marked or expected link
  back to a place asked for, and `AllCovered` every place asked for by an
  attachInfo already passed to a link marked or still expected: through a
  failed lookup (the path cannot be read, so the place is gone), an entry found
  by namespace id (`FoundMeans`: it stands for the link although its path may be
  another), and `removeLinks` (`RemovedKeeps`). Third, at rest `WhereOK` of
  `OnceInv` turns entries into attach points of bpfman (`SettledEntry`).

  The hypotheses are conditions on the input, and none can be dropped. Without
  `NamesTellNamespaces` a pod of another namespace with a selected pod's name may
  be used (run `links_own_namespace`); `MeantInterfaces` excludes
  `primaryNodeInterface: false` and an allow list that begins with a bad
  expression, `NoUnSpec` the value `tcProceedOnToInt` does not know (section 5).
  `MCBpfLinks` assumes the same, so TLC evaluates them on the instances.

### The operator

`BpfOperatorProofs`

* **`OperatorTypeCorrect`**: `Spec => []TypeOK`, for all faults.
* **`RestingOperatorIsRight`**: if `"relist"` and `"nodes"` are not among the
  faults, `Spec => []RestingStatusIsTrue`: with nothing queued and nothing on a
  watch the condition of the application is what the state objects of all nodes
  amount to, and a deletion waits only for an agent's finalizer. This is the
  claim that the event predicate filters no event that matters. `OperatorInv`:
  the watch of a node holds versions of its object, the current one last, and
  the first one the operator sees has no condition (`WatchesOK`), which is why
  the filtered creation loses nothing; the copy at work is the cache's or a
  request is queued (`CopyOK`); the verdict about to be written is still the
  aggregate of the cache, or a request is queued, or a first status is due,
  whose event will queue one (`VerdictOK`); the same for the verdict written
  (`RestOK`); a finalizer or deletion mark the cache shows is not taken back
  (`MarksStay`). Both assumptions are necessary: a broken watch merges a
  creation with the update after it into one creation that the predicate drops,
  and nodes that join or leave raise no event at all. The run `operator_resync`
  shows that the resync repairs both.

`BpfConfigProofs`, for all faults and platforms

* **`ConfigTypeCorrect`**: `Spec => []TypeOK`.
* **`RestingConfigIsDeployed`**: `Spec => []RestingDeploymentIsComplete`: with
  nothing queued and no event under way, every object the platform's plan names
  is deployed as Config asks, unless overridden. `ConfigInv`: uids of Config are
  never reused (`UidsOK`); where the cache of a deployed object is behind, an
  event that leads to Config is under way or neither version has an owner
  (`CacheFresh`); the Config at work is the cached one or a request is queued
  (`CopyOK`); each step behind has left its object in order or an event of it
  under way, and the annotation step comes after the service it annotates
  (`StepsOK`, `Achieved`), which is where the order of the steps enters; and the
  same for the whole plan at rest (`RestOK`), unless the cached Config has been
  overtaken for good (`Outdated`).

### The agent's process

`AgentProcessProofs`, for all failures, with and without interface discovery

* **`ProcessTypeCorrect`** (`TypeOK`), **`ReturnIsClean`** (`CleanReturn`: an
  agent that returned leaves no socket), **`ServedSocketIsBound`**
  (`ServingIsReachable`: while `Serve` runs the path leads to this listener),
  **`RunsOnMountedBpffs`** (`MountedWhenRunning`) and **`RaceIsNoFailure`** (the
  action property `LostRaceIsNoFailure`: finding bpffs mounted by another is no
  error). `ProcessInv` relates the init container, main, the goroutines and the
  socket: `MountOK`, `SocketOK` (from `net.Listen` on the path leads to the open
  listener, until `Serve` fails or `run` sees the context end), `ServeOK` (it
  serves only while `run` waits for it, and `run` removes the socket when it
  returns).

### Checked by TLC only

* Liveness and fairness (`Converges`, `DeletedGoes`, `StatusConverges`,
  `DeploymentConverges`, `NothingOutlivesConfig`, `NoHalfDeadAgent`,
  `Recovers`, `DeletionWaitsOnlyForLostNodes`), which are out of the prover's
  reach, as is `ENABLED`.

Every invariant the passing runs check is stated by a theorem, some of them under
the hypotheses named above.

## 5. Behaviour worth knowing that no run is about

* `unload` logs an RPC error and clears the id: the program stays loaded without
  a record. `NoOrphanProgram` therefore leaves out the `unload` failure.
* After a crash between a load and its status write, after a lost reply, and
  after a failed Get, programs or links are loaded a second time and the first
  ones have no record.
* When the type of a program, or the function of an fentry or fexit program,
  changes under its name, the condition built for it is empty, the API server
  refuses the write, and the change is never reported; it is retried for ever.
  Links attached in the same visit for other programs have no record, and are
  attached again at each retry.
* An application re-created under its name finds the old state object by label
  and works on it although the garbage collector is about to delete it. Programs
  loaded for it in that window lose their record with the object
  (`FinalizerGuardsPrograms` is violated in such an instance); a second state
  object never comes to exist, as the theorem says.
* If the first status write after a create fails, the state object stays with an
  empty program list: the next reconcile finds it, never initialises it
  (`initBpfAppStateStatus` is only called by `createBpfAppState`), and
  `validateProgramList` takes every program for an added one. The application is
  never loaded and reports `ProgListChangedError`, "The program list has changed
  which is not allowed" (`shared_types.go:484`), although nobody changed it.
  `ProgramListErrorIsTrue` admits that report for an object with an empty list
  after a failure, and no other.
* The same happens without a failure to an application that lists a function
  twice: `initializeNodeProgramList` finds the repetition after the state object
  has been created ("duplicate bpf function detected"), and leaves it empty.
* The API server does not look into a node selector. With an operator it does not
  know, `isNodeSelected` fails at every reconcile, before the deletion branch of
  `reconcileLoad`: such an application is never unloaded, its state object keeps
  the finalizer, and its deletion waits until somebody repairs the selector.
* An application whose programs cannot be loaded has its status written at every
  reconcile, changed or not, and each write raises the event of the next: a loop
  without a pause. A comment (`cl_application_program.go:200`) says "If nothing
  changed, continue with the next BpfApplication. Otherwise, one bad
  BpfApplication can block the rest", but the status is compared with nil there,
  so it always counts as changed and `Reconcile` always returns. Others are
  reached when the cache, which lists applications in no fixed order, lists them
  first; nothing says that it will.
* A failed Get in the walk over the links attaches a wanted link a second time,
  and drops the entry of an unwanted one that stays attached; a lost reply of an
  attach leaves a link without an entry. One link for each such failure stays
  until the program is unloaded.
* The operator removes its finalizer when no state object *in its cache* has an
  agent's finalizer (`bpfman-operator/common.go:153`). An object that an agent
  has just created is not seen; it stays, with its finalizer, and no agent lists
  its application any more. The comment above the check says "Only remove
  bpfman-operator finalizer if all BpfApplicationState objects are ready to be
  pruned".
* A state object without a condition, between its creation and its first status,
  counts as failed (`pkg/helpers/helpers.go:170`), and the application reports an
  error for that moment.
* A pod whose first listed container has exited yields process id 0: its links
  are skipped, and detached if they were there, although another container of
  the pod runs. A selected pod without a sandbox (pending, or completed and
  cleaned up) makes the whole expansion fail, and no link of the program is
  reconciled until it is gone.
* Parsing of allowed interfaces stops at the first bad regular expression. If
  that is the first entry, the list is empty and every interface is allowed
  (`shared_types.go:48-51`: "if non-empty, only entries in the list will be
  considered for discovery").
* The cluster and the namespaced reconciler share `NetNsCache` and each resets
  it. With a foreign reset between two expansions a second link may be attached
  at one place (`OncePerPoint` is violated); the next undisturbed reconcile
  detaches one of them.
* Without a namespace, a cluster-scoped pod selector selects in all namespaces,
  and an empty list of container names selects all containers; comments at
  `ClNetworkNamespaceSelector` and `containers.go:180-181` say otherwise.
* The message of the application's condition keeps naming the nodes that failed
  first, since only the type is compared.
* When `spec.namespace` of Config changes, the objects in the old namespace
  stay until Config itself is deleted.
* A Config that a user has deleted is created again, with the defaults, when the
  operator restarts.
* The API admits `UnSpec` in the `proceedOn` of a TC program
  (`cluster_tc_program_types.go:20`); `tcProceedOnToInt` knows it as `Unspec` and
  drops it (`cl_tc_program.go:99`): bpfman gets a list without it.
* `primaryNodeInterface: false` selects the primary interface: only the presence
  of the field is looked at.
* The offset of a probe is a signed number in the API and is converted to an
  unsigned one without a check.
* A pull secret without an entry for the registry of the image yields an empty
  user and password and no error.
* State objects carry the application's name in a label, whose length is limited
  to 63 characters; an application with a longer name never gets one.
* "block until bpfman is up" (`cmd/bpfman-agent/main.go:459`) is not what
  `CreateConnection` does: the client connects lazily, and the first calls fail
  if bpfman is not there.
* "Normal shutdown (SIGTERM/SIGINT) exits with status code 0"
  (`cmd/bpfman-agent/main.go:538`) does not hold when a request for metrics takes
  longer than the five seconds of `Shutdown`.
* Losing the race for the bpffs mount may also succeed: the kernel stacks a
  second mount on the first and hides what was pinned there.
* The deferred removal of the socket does not look whose it is. If an old agent
  is still shutting down when its successor starts, as after a forced deletion
  of the pod, it removes the new socket.

## 6. What is not modelled

The wording of conditions, logging, and the parts of requests that only bpfman
looks at (bytecode source, credentials, metadata, global data, map ownership) do
not influence the protocols. Parsing of pull secrets (`auth.go`) is a pure
function on text. gRPC and CRI clients, TLS, authentication, flag parsing,
leader election and certificate watching are library code or I/O. Generated
deep-copy, client and lister code, and helpers without a caller in the
controllers (`EnsureMounted`, `ListBpfmanPrograms`, `GetBpfmanProgram`), are left
out. In `BpfOperator` a cached read fails only with "not found"; in `BpfConfig`
the content of an object is its version.

Not modelled although it could matter: data races on `NetNsCache` itself
(unsynchronised accesses to a Go map may end the process, and a reset may fall
between the `stat` and the store of one lookup), and two agents on one node at a
time.

## 7. Plan

Done: the agent's protocol and its contract, both controllers of an agent on one
daemon, the operator's application and Config reconcilers with its start-up, the
program types and their attach points, the agent's process with bpffs and the
metrics socket; the theorems of section 4, which cover every invariant of the
passing runs. Left: the inner steps of one lookup in the `NetNsCache` that the
two controllers share, and the repair of a selector as a liveness question.

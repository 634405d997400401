------------------------------ MODULE BpfConfig ------------------------------
(***************************************************************************)
(* The bpfman-operator's reconciler of the Config object                   *)
(* (controllers/bpfman-operator/config.go): it deploys the daemon sets,    *)
(* the config map, the CSI driver, services, monitors and RBAC objects     *)
(* Config asks for, one write after the other, repairs what users change,  *)
(* leaves alone what Config overrides, and leaves the clean-up to the      *)
(* garbage collector.  With it the operator's start-up, which creates a    *)
(* default Config when there is none (cmd/bpfman-operator/main.go).        *)
(***************************************************************************)
EXTENDS Naturals

CONSTANTS
  Kept,        \* the steps of Reconcile() an instance looks at
  None,        \* absent object
  Namespaces,  \* values of spec.namespace
  BpfmanNamespace,  \* the default one, which alone is watched
  Faults,      \* the kinds of failure and of user behaviour a run allows
  MaxFaults,   \* bound: failures in a behaviour
  MaxEdits,    \* bound: changes by users in a behaviour
  MaxCreates   \* bound: incarnations of Config

\* The steps of Reconcile(), named after the resources; "annotation" is the
\* step that annotates the agent metrics service.
StandardSteps   == {"configMap", "csiDriver"}
SccSteps        == {"scc"}
DaemonSteps     == {"daemonSet"}
MonitoringSteps == {"metricsProxyDS", "agentService", "controllerService",
                    "agentMonitor", "controllerMonitor"}
OpenShiftSteps  == {"annotation", "privilegedCRB", "userClusterRole"}
PrometheusSteps == {"prometheusRole", "prometheusRB", "metricsReaderCRB"}

Steps == StandardSteps \cup SccSteps \cup DaemonSteps \cup MonitoringSteps
           \cup OpenShiftSteps \cup PrometheusSteps \cup {"namespace"}

\* The order in which Reconcile() takes them.
Order ==
  [configMap |-> 1, csiDriver |-> 2, scc |-> 3, daemonSet |-> 4, metricsProxyDS |-> 5,
   agentService |-> 6, controllerService |-> 7, agentMonitor |-> 8, controllerMonitor |-> 9,
   annotation |-> 10, privilegedCRB |-> 11, userClusterRole |-> 12, prometheusRole |-> 13,
   prometheusRB |-> 14, metricsReaderCRB |-> 15, namespace |-> 16]

\* Objects without a namespace; the others are deployed in spec.namespace.
ClusterScoped == {"csiDriver", "scc", "privilegedCRB", "userClusterRole", "metricsReaderCRB"}

\* The object that step r is about when spec.namespace is n.
Object(r, n) == <<r, IF r \in ClusterScoped THEN None ELSE n>>

Resources == {Object(r, n) : r \in Kept \ {"annotation"}, n \in Namespaces}
Owned     == {o \in Resources : o[1] # "namespace"}

FaultKinds ==
  { "write",    \* the API server refuses or does not answer a write
    "crash",    \* the operator dies and comes back
    "tamper",   \* users edit, disown or delete deployed objects
    "override",  \* users mark components as unmanaged
    "move" }    \* users change spec.namespace

ASSUME BpfConfigAssumption ==
  /\ Kept \subseteq Steps
  /\ None \notin Kept \cup Namespaces /\ BpfmanNamespace \in Namespaces
  /\ Faults \subseteq FaultKinds
  /\ MaxFaults \in Nat /\ MaxEdits \in Nat /\ MaxCreates \in Nat

VARIABLES
  isOpenshift,   \* r.IsOpenshift, found out at start-up
  hasMonitoring, \* r.HasMonitoring, found out at start-up
  config,        \* the Config object in the API server
  configCache,   \* the operator's informer cache of it
  res,           \* the deployed objects in the API server
  resCache,      \* the operator's informer caches of them
  news,          \* objects with changes under way to them that concern Config
  queued,        \* the work queue is not empty
  pc,            \* where Reconcile() stands
  copy,          \* the Config it works on
  todo,          \* the steps ahead
  created, edits, faults

platform == <<isOpenshift, hasMonitoring>>
objVars  == <<config, res, news, created, edits>>
recVars  == <<pc, copy, todo>>
vars     == <<platform, objVars, configCache, resCache, queued, recVars, faults>>

\* Version 0 of a deployed object is one a user has edited; annotated is the
\* serving certificate annotation of the agent metrics service.
Deployment == [spec : 0..2, owner : Nat, annotated : BOOLEAN]

\* Owner 0: no owner reference.
NoOwner == 0

ConfigObj == [uid : Nat, finalizer : BOOLEAN, deleting : BOOLEAN,
              spec : 1..2, ns : Namespaces, overrides : SUBSET Resources]

\* nil is not an object.
ASSUME NoneAssumption == None \notin ConfigObj \cup Deployment

Unlabelled == [spec |-> 0, owner |-> NoOwner, annotated |-> FALSE]

\* The namespaces are there before the operator is.
NoObjects == [o \in Resources |-> IF o[1] = "namespace" THEN Unlabelled ELSE None]

Init ==
  /\ isOpenshift \in BOOLEAN /\ hasMonitoring \in BOOLEAN
  /\ config = None /\ configCache = None
  /\ res = NoObjects /\ resCache = res /\ news = {}
  /\ queued = FALSE /\ pc = "starting" /\ copy = None /\ todo = {}
  /\ created = 0 /\ edits = 0 /\ faults = 0

Fault(k) == k \in Faults /\ faults < MaxFaults /\ faults' = faults + 1

Return == pc' = "idle" /\ copy' = None /\ todo' = {}
Done == Return /\ UNCHANGED queued

\* return ctrl.Result{}, err
ReturnError == Return /\ queued' = TRUE

(***************************************************************************)
(* The operator's start-up: ensureDefaultConfig(), then the caches are     *)
(* filled and every object listed is an event.                             *)
(***************************************************************************)
\* What a new Config looks like; the default one lies in the watched namespace.
NewConfig == [uid |-> created + 1, finalizer |-> FALSE, deleting |-> FALSE,
              spec |-> 1, ns |-> BpfmanNamespace, overrides |-> {}]

StartManager ==
  /\ configCache' = config' /\ resCache' = res /\ news' = {}
  /\ Return /\ queued' = TRUE

ensureDefaultConfig ==
  /\ pc = "starting"
  /\ IF config # None
     THEN UNCHANGED <<config, created>>
     ELSE created < MaxCreates /\ config' = NewConfig /\ created' = created + 1
  /\ StartManager
  /\ UNCHANGED <<platform, res, edits, faults>>

\* The API server does not answer, or a user creates Config between the Get and
\* the Create: the operator exits and starts again.
ensureDefaultConfigFails ==
  /\ pc = "starting" /\ Fault("write")
  /\ UNCHANGED <<platform, objVars, configCache, resCache, queued, recVars>>

(***************************************************************************)
(* Reconcile().                                                            *)
(***************************************************************************)
\* The steps on the platform at hand.
Plan ==
  {r \in Kept : /\ r \in SccSteps \cup OpenShiftSteps \cup PrometheusSteps => isOpenshift
                /\ r \in MonitoringSteps \cup PrometheusSteps => hasMonitoring}

\* Config is gone: nothing to do.
ReconcileGone ==
  /\ pc = "idle" /\ queued /\ configCache = None
  /\ queued' = FALSE
  /\ UNCHANGED <<platform, objVars, configCache, resCache, recVars, faults>>

Reconcile ==
  /\ pc = "idle" /\ queued /\ configCache # None
  /\ queued' = FALSE /\ copy' = configCache
  /\ pc' = IF copy'.deleting THEN "handleDeletion"
           ELSE IF ~copy'.finalizer THEN "addFinalizer" ELSE "steps"
  /\ todo' = IF pc' = "steps" THEN Plan ELSE {}
  /\ UNCHANGED <<platform, objVars, configCache, resCache, faults>>

\* Config goes with its finalizer; the garbage collector takes care of the rest.
handleDeletion ==
  /\ pc = "handleDeletion" /\ config = copy
  /\ config' = None
  /\ Done
  /\ UNCHANGED <<platform, res, news, created, edits, configCache, resCache, faults>>

addFinalizer ==
  /\ pc = "addFinalizer" /\ config = copy
  /\ config' = [config EXCEPT !.finalizer = TRUE]
  /\ Done
  /\ UNCHANGED <<platform, res, news, created, edits, configCache, resCache, faults>>

configUpdateFails ==
  /\ pc \in {"handleDeletion", "addFinalizer"}
  /\ \/ config # copy /\ UNCHANGED faults
     \/ Fault("write")
  /\ ReturnError
  /\ UNCHANGED <<platform, objVars, configCache, resCache>>

ReconcileDone ==
  /\ pc = "steps" /\ todo = {}
  /\ Done
  /\ UNCHANGED <<platform, objVars, configCache, resCache, faults>>

(***************************************************************************)
(* The steps: assureResource() for the owned objects, the annotation of    *)
(* the agent metrics service, the labels of the namespace.                 *)
(***************************************************************************)
\* An event reaches Config through the owner reference, old or new.
Concerns(o, old, new) ==
  \/ o[1] = "namespace"
  \/ old # None /\ old.owner # NoOwner
  \/ new # None /\ new.owner # NoOwner

\* Somebody writes version v of object o; the watch will tell.
Put(o, v) ==
  /\ res' = [res EXCEPT ![o] = v]
  /\ news' = IF Concerns(o, res[o], v) THEN news \cup {o} ELSE news

\* Reconcile() stands before step r.
AtStep(r) == pc = "steps" /\ r \in todo /\ \A q \in todo : Order[r] <= Order[q]

\* That step is about object o.
AtObject(o) == AtStep(o[1]) /\ o = Object(o[1], copy.ns)

NextStep(r) == todo' = todo \ {r} /\ UNCHANGED <<pc, copy, queued>>

isOverridden(o) == o \in copy.overrides

\* The config map and the daemon sets carry values of Config.
FollowsConfig == {"configMap", "daemonSet", "metricsProxyDS"}

\* What step r writes for Config c: the values, or the namespace of the service
\* account in a cluster role binding.
Version(r, c) ==
  CASE r \in FollowsConfig   -> c.spec
    [] r = "privilegedCRB"   -> IF c.ns = BpfmanNamespace THEN 1 ELSE 2
    [] OTHER                 -> 1

\* Slip: the owner reference carries no uid.
desiredNoUid(r, c) == [spec |-> Version(r, c), owner |-> None, annotated |-> FALSE]

\* Slip: SetControllerReference is not called.
desiredNoOwner(r, c) == [spec |-> Version(r, c), owner |-> NoOwner, annotated |-> FALSE]

\* The object as Reconcile() builds it: it has no annotations.
desired(r, c) == [spec |-> Version(r, c), owner |-> c.uid, annotated |-> FALSE]

\* Slip: owner references are not compared.
needsUpdateIgnoresOwner(have, want) == have.spec # want.spec

needsUpdate(have, want) == have.spec # want.spec \/ have.owner # want.owner

\* Overridden, or in the cache as it should be: nothing is written.
assureResourceSkips(o) ==
  /\ AtObject(o)
  /\ isOverridden(o) \/ (resCache[o] # None /\ ~needsUpdate(resCache[o], desired(o[1], copy)))
  /\ NextStep(o[1])
  /\ UNCHANGED <<platform, objVars, configCache, resCache, faults>>

MustWrite(o) ==
  /\ AtObject(o) /\ ~isOverridden(o)
  /\ resCache[o] # None => needsUpdate(resCache[o], desired(o[1], copy))

\* The create finds no such object, the update the version the cache showed.
Accepted(o) == res[o] = resCache[o]

\* The update replaces the object, the annotation included.
assureResource(o) ==
  /\ MustWrite(o) /\ Accepted(o)
  /\ Put(o, desired(o[1], copy))
  /\ NextStep(o[1])
  /\ UNCHANGED <<platform, config, created, edits, configCache, resCache, faults>>

\* The first failure ends Reconcile().
assureResourceFails(o) ==
  /\ MustWrite(o)
  /\ \/ ~Accepted(o) /\ UNCHANGED faults
     \/ Fault("write")
  /\ ReturnError
  /\ UNCHANGED <<platform, objVars, configCache, resCache>>

\* The annotation of service o is due, as far as the cache shows.
AnnotationDue(o) ==
  /\ AtStep("annotation") /\ o = Object("agentService", copy.ns) /\ o \in Resources
  /\ ~isOverridden(o)
  /\ resCache[o] # None /\ ~resCache[o].annotated

annotationSkips ==
  /\ AtStep("annotation") /\ \A o \in Owned : ~AnnotationDue(o)
  /\ NextStep("annotation")
  /\ UNCHANGED <<platform, objVars, configCache, resCache, faults>>

reconcileAgentMetricsServiceAnnotation(o) ==
  /\ AnnotationDue(o) /\ Accepted(o)
  /\ Put(o, [res[o] EXCEPT !.annotated = TRUE])
  /\ NextStep("annotation")
  /\ UNCHANGED <<platform, config, created, edits, configCache, resCache, faults>>

annotationFails(o) ==
  /\ AnnotationDue(o)
  /\ \/ ~Accepted(o) /\ UNCHANGED faults
     \/ Fault("write")
  /\ ReturnError
  /\ UNCHANGED <<platform, objVars, configCache, resCache>>

\* The labels of the namespace, as far as the cache shows.
LabelsDue(o) == o[1] = "namespace" /\ AtObject(o) /\ resCache[o].spec # 1

namespaceSkips ==
  /\ AtStep("namespace") /\ \A o \in Resources : ~LabelsDue(o)
  /\ NextStep("namespace")
  /\ UNCHANGED <<platform, objVars, configCache, resCache, faults>>

reconcileNamespace(o) ==
  /\ LabelsDue(o) /\ Accepted(o)
  /\ Put(o, [res[o] EXCEPT !.spec = 1])
  /\ NextStep("namespace")
  /\ UNCHANGED <<platform, config, created, edits, configCache, resCache, faults>>

namespaceFails(o) ==
  /\ LabelsDue(o)
  /\ \/ ~Accepted(o) /\ UNCHANGED faults
     \/ Fault("write")
  /\ ReturnError
  /\ UNCHANGED <<platform, objVars, configCache, resCache>>

(***************************************************************************)
(* Events: SetupWithManager().                                             *)
(***************************************************************************)
\* Slip: the agent metrics service is not watched.
watchedNotServices(o) ==
  CASE o[1] = "namespace"    -> isOpenshift /\ hasMonitoring /\ o[2] = BpfmanNamespace
    [] o[1] = "agentService" -> FALSE
    [] OTHER                 -> TRUE

\* Objects on the platform whose events are requests: the owned ones, in any
\* namespace, and the default namespace where cluster monitoring needs its label.
watched(o) == o[1] = "namespace" => isOpenshift /\ hasMonitoring /\ o[2] = BpfmanNamespace

SyncConfig ==
  /\ pc # "starting" /\ configCache # config
  /\ configCache' = config /\ queued' = TRUE
  /\ UNCHANGED <<platform, objVars, resCache, recVars, faults>>

\* The watch of one kind of objects catches up and raises the events of their
\* changes.
SyncResource(r) ==
  LET objs == {o \in Resources : o[1] = r}
  IN  /\ pc # "starting" /\ \E o \in objs : resCache[o] # res[o] \/ o \in news
      /\ resCache' = [o \in Resources |-> IF o \in objs THEN res[o] ELSE resCache[o]]
      /\ queued' = (queued \/ \E o \in objs \cap news : watched(o))
      /\ news' = news \ objs
      /\ UNCHANGED <<platform, config, res, created, edits, configCache, recVars, faults>>

\* During a reconcile it would only be a request for the next one.
Resync ==
  /\ pc = "idle" /\ ~queued /\ configCache # None
  /\ queued' = TRUE
  /\ UNCHANGED <<platform, objVars, configCache, resCache, recVars, faults>>

\* The operator dies: its caches and its queue are gone.
Crash ==
  /\ pc # "starting" /\ Fault("crash")
  /\ pc' = "starting" /\ copy' = None /\ todo' = {}
  /\ configCache' = None /\ resCache' = NoObjects /\ news' = {} /\ queued' = FALSE
  /\ UNCHANGED <<platform, config, res, created, edits>>

(***************************************************************************)
(* The garbage collector and the users.                                    *)
(***************************************************************************)
Orphaned(o) ==
  /\ res[o] # None /\ res[o].owner # NoOwner
  /\ config # None => config.uid # res[o].owner

GarbageCollect(o) ==
  /\ Orphaned(o)
  /\ Put(o, None)
  /\ UNCHANGED <<platform, config, created, edits, configCache, resCache, queued, recVars, faults>>

UserCreate ==
  /\ config = None /\ created < MaxCreates
  /\ created' = created + 1 /\ config' = NewConfig
  /\ UNCHANGED <<platform, res, news, edits, configCache, resCache, queued, recVars, faults>>

UserDelete ==
  /\ config # None /\ ~config.deleting
  /\ config' = IF config.finalizer THEN [config EXCEPT !.deleting = TRUE] ELSE None
  /\ UNCHANGED <<platform, res, news, created, edits, configCache, resCache, queued, recVars, faults>>

Edit == edits < MaxEdits /\ edits' = edits + 1

UserEdit ==
  /\ config # None /\ ~config.deleting /\ Edit
  /\ \/ config' = [config EXCEPT !.spec = 3 - @]
     \/ /\ "override" \in Faults
        /\ \E o \in Owned : /\ o[2] \in {config.ns, None}
                          /\ config' = [config EXCEPT !.overrides = IF o \in @ THEN @ \ {o} ELSE @ \cup {o}]
  /\ UNCHANGED <<platform, res, news, created, configCache, resCache, queued, recVars, faults>>

\* Another spec.namespace; against the bounds it counts as an edit, a failure
\* and an incarnation.
UserMoves(n) ==
  /\ config # None /\ ~config.deleting /\ n # config.ns
  /\ Edit /\ Fault("move") /\ created < MaxCreates
  /\ config' = [config EXCEPT !.ns = n] /\ created' = created + 1
  /\ UNCHANGED <<platform, res, news, configCache, resCache, queued, recVars>>

\* A user edits, disowns or deletes a deployed object, or drops the labels of
\* the namespace.
Tamper(o) ==
  /\ "tamper" \in Faults /\ Edit /\ res[o] # None
  /\ \/ res[o].spec # 0 /\ Put(o, [res[o] EXCEPT !.spec = 0])
     \/ res[o].owner # NoOwner /\ Put(o, [res[o] EXCEPT !.owner = NoOwner])
     \/ o \in Owned /\ Put(o, None)
     \/ res[o].annotated /\ Put(o, [res[o] EXCEPT !.annotated = FALSE])
  /\ UNCHANGED <<platform, config, created, configCache, resCache, queued, recVars, faults>>

(***************************************************************************)
(* The specification.                                                      *)
(***************************************************************************)
ReconcileStep ==
  \/ ReconcileGone \/ Reconcile \/ ReconcileDone
  \/ handleDeletion \/ addFinalizer \/ configUpdateFails
  \/ annotationSkips \/ namespaceSkips
  \/ \E o \in Owned : \/ assureResourceSkips(o) \/ assureResource(o) \/ assureResourceFails(o)
                      \/ reconcileAgentMetricsServiceAnnotation(o) \/ annotationFails(o)
  \/ \E o \in Resources : reconcileNamespace(o) \/ namespaceFails(o)

Next ==
  \/ ReconcileStep \/ ensureDefaultConfig \/ ensureDefaultConfigFails
  \/ SyncConfig \/ Resync \/ Crash \/ UserCreate \/ UserDelete \/ UserEdit
  \/ \E r \in Kept : SyncResource(r)
  \/ \E n \in Namespaces : UserMoves(n)
  \/ \E o \in Resources : Tamper(o)
  \/ \E o \in Owned : GarbageCollect(o)

Spec == Init /\ [][Next]_vars

\* The operator is started, its worker runs, some informer that is behind
\* catches up, the garbage collector collects something, the resync comes.
ResyncSpec ==
  /\ Spec /\ WF_vars(ensureDefaultConfig \/ ReconcileStep) /\ WF_vars(Resync)
  /\ WF_vars(SyncConfig \/ \E r \in Kept : SyncResource(r))
  /\ WF_vars(\E o \in Owned : GarbageCollect(o))

(***************************************************************************)
(* Properties.                                                             *)
(***************************************************************************)
\* Every variable holds a value of its kind; Reconcile() works on a Config.
TypeOK ==
  /\ isOpenshift \in BOOLEAN /\ hasMonitoring \in BOOLEAN /\ queued \in BOOLEAN
  /\ config \in ConfigObj \cup {None} /\ configCache \in ConfigObj \cup {None}
  /\ res \in [Resources -> Deployment \cup {None}] /\ resCache \in [Resources -> Deployment \cup {None}]
  /\ news \subseteq Resources
  /\ pc \in {"starting", "idle", "handleDeletion", "addFinalizer", "steps"}
  /\ copy \in ConfigObj \cup {None} /\ (pc \notin {"starting", "idle"} => copy # None)
  /\ todo \subseteq Kept
  /\ created \in Nat /\ edits \in Nat /\ faults \in Nat

\* The objects Config asks for on this platform and leaves to the operator.
Managed ==
  {o \in Owned : /\ o \notin config.overrides
                 /\ o[1] \in Plan /\ o = Object(o[1], config.ns)}

\* Everything managed is there, up to date and owned by this Config.
Deployed ==
  /\ config.finalizer
  /\ \A o \in Managed : /\ res[o] # None /\ res[o].owner = config.uid
                        /\ res[o].spec = Version(o[1], config)

\* The agent metrics service has its certificate annotation on OpenShift.
Annotated ==
  isOpenshift /\ "annotation" \in Kept =>
    \A o \in Managed : o[1] = "agentService" => res[o].annotated

Labelled ==
  LET o == Object("namespace", config.ns) IN o \in Resources => res[o].spec = 1

\* Nothing is on its way to the operator or left to the garbage collector.
Quiet ==
  /\ pc = "idle" /\ ~queued /\ configCache = config /\ resCache = res /\ news = {}
  /\ \A o \in Owned : ~Orphaned(o)

\* Events suffice: when the operator has come to rest a live Config is deployed
\* completely, the annotation that every update of the service wipes out is
\* back, and a deletion has gone through.
RestingDeploymentIsComplete ==
  Quiet /\ config # None => ~config.deleting /\ Deployed /\ Annotated

\* Labels of a namespace whose events the operator does not watch come back
\* with the resync, like everything else.
DeploymentConverges ==
  <>[](config # None /\ ~config.deleting => Deployed /\ Annotated /\ Labelled)

\* An object created or updated by a reconcile that had not seen the deletion
\* does not outlive Config: it carries the owner reference all the same.  Nor
\* does what a change of spec.namespace has left behind in the old namespace.
\* Only an object a user has disowned stays.
NothingOutlivesConfig ==
  <>[](config = None =>
         \A o \in Owned : res[o] = None \/ (edits > 0 /\ res[o].owner = NoOwner))

=============================================================================

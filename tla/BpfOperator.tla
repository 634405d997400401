----------------------------- MODULE BpfOperator -----------------------------
(***************************************************************************)
(* The bpfman-operator's reconciler of one application over all nodes      *)
(* (controllers/bpfman-operator/common.go with its cluster and namespaced  *)
(* halves): its finalizer, the status it computes from the state objects   *)
(* of the nodes, the events that wake it up, and the caches it reads.      *)
(*                                                                         *)
(* The agents keep to AgentContract; what they do depends only on the      *)
(* version of the application they have last listed.                       *)
(***************************************************************************)
EXTENDS Naturals, Sequences

CONSTANTS
  Nodes,       \* nodes that may be part of the cluster
  App,         \* the request named after the application
  None,        \* absent object
  Faults,      \* the kinds of failure a run allows
  MaxFaults,   \* bound: failures in a behaviour
  MaxReports,  \* bound: status changes of the agents while the application lives
  MaxLag       \* bound: versions of a state object the operator is behind

FaultKinds ==
  { "write",   \* the API server refuses or does not answer a write
    "crash",   \* the operator dies and comes back
    "relist",  \* a broken watch: intermediate versions of a state are skipped
    "nodes" }  \* nodes join and leave

ASSUME BpfOperatorAssumption ==
  /\ App \notin Nodes /\ None \notin Nodes /\ None # App
  /\ Faults \subseteq FaultKinds
  /\ MaxFaults \in Nat /\ MaxReports \in Nat /\ MaxLag \in Nat

VARIABLES
  app,        \* the application in the API server
  appCache,   \* the operator's informer cache of it
  obj,        \* the state objects in the API server, one per node
  watch,      \* versions of each the watch has still to deliver
  objCache,   \* the operator's informer cache of them
  nodes,      \* the nodes of the cluster
  nodeCache,  \* the operator's cache of them; it raises no events
  seen,       \* what each node's agent found when it last listed the application
  queue,      \* requests: the application's name or the name of a state object
  pc,         \* where Reconcile() stands
  req,        \* the request at hand
  copy,       \* the application it works on
  verdict,    \* the condition it is about to report
  born,       \* the application has been created
  reports,    \* status changes of the agents so far
  faults      \* failures so far

apiVars   == <<app, obj, watch, nodes, born>>
cacheVars == <<appCache, objCache, nodeCache>>
agentVars == <<seen, reports>>
recVars   == <<pc, req, copy, verdict>>
vars      == <<apiVars, cacheVars, agentVars, queue, recVars, faults>>

Agents == INSTANCE AgentContract WITH Names <- Nodes

Verdicts == {"Pending", "Success", "Error", "DeleteError"}

\* "NoCond" is an empty conditions list.
AppObj == [finalizer : BOOLEAN, deleting : BOOLEAN, cond : Verdicts \cup {"NoCond"}]

\* nil is not an object.
ASSUME NoneAssumption == None \notin AppObj \cup Agents!Obj

Init ==
  /\ app = None /\ appCache = None /\ born = FALSE
  /\ Agents!Init /\ objCache = obj /\ watch = [n \in Nodes |-> <<>>]
  /\ nodes = Nodes /\ nodeCache = Nodes
  /\ seen = [n \in Nodes |-> "absent"] /\ reports = 0
  /\ queue = {} /\ pc = "idle" /\ req = None /\ copy = None /\ verdict = None
  /\ faults = 0

Fault(k) == k \in Faults /\ faults < MaxFaults /\ faults' = faults + 1

Return == pc' = "idle" /\ req' = None /\ copy' = None /\ verdict' = None

\* return ctrl.Result{}, nil
Done == Return /\ UNCHANGED queue

\* return ctrl.Result{RequeueAfter: retryDurationOperator}, nil
Requeue == Return /\ queue' = queue \cup {req}

(***************************************************************************)
(* Reconcile(): from the request to the application.                       *)
(***************************************************************************)
\* A request is first taken for an application, then for a state object, whose
\* owner is the application.
Resolved(r) == IF r # App /\ objCache[r] = None THEN None ELSE appCache

Reconcile(r) ==
  /\ pc = "idle" /\ r \in queue /\ Resolved(r) # None
  /\ queue' = queue \ {r} /\ req' = r /\ copy' = Resolved(r)
  /\ pc' = IF copy'.finalizer THEN "list" ELSE "addFinalizer"
  /\ UNCHANGED <<apiVars, cacheVars, agentVars, verdict, faults>>

\* "Stale reconcile. Exiting"
ReconcileStale(r) ==
  /\ pc = "idle" /\ r \in queue /\ Resolved(r) = None
  /\ queue' = queue \ {r}
  /\ UNCHANGED <<apiVars, cacheVars, agentVars, recVars, faults>>

\* The write is based on the current object.  (An equal copy of an object that
\* changed and changed back conflicts too; its retry writes the same.)
Current(c) == app = c

addFinalizer ==
  /\ pc = "addFinalizer" /\ Current(copy)
  /\ app' = [app EXCEPT !.finalizer = TRUE]
  /\ Done
  /\ UNCHANGED <<obj, watch, nodes, born, cacheVars, agentVars, faults>>

addFinalizerFails ==
  /\ pc = "addFinalizer"
  /\ \/ ~Current(copy) /\ UNCHANGED faults
     \/ Fault("write")
  /\ Requeue
  /\ UNCHANGED <<apiVars, cacheVars, agentVars>>

(***************************************************************************)
(* reconcileBpfApplication(): what the state objects add up to.            *)
(***************************************************************************)
IsBpfAppStateConditionFailure(cond) == cond \in {"NoCond", "Error", "UnloadError"}
IsBpfAppStateConditionPending(cond) == cond \in {"NoCond", "Pending"}

\* Slip: a deletion waits until the state objects themselves are gone.
aggregateWaitsForAll(deleting, objs, ns) ==
  LET there == {n \in Nodes : objs[n] # None}
  IN  CASE deleting /\ there = {}           -> "release"
        [] deleting /\ there # {}           -> "DeleteError"
        [] ~deleting /\ ~(ns \subseteq there) -> "Pending"
        [] OTHER ->
             IF \E n \in there : IsBpfAppStateConditionFailure(objs[n].cond) THEN "Error"
             ELSE IF \E n \in there : IsBpfAppStateConditionPending(objs[n].cond) THEN "Pending"
             ELSE "Success"

\* The decision over the listed state objects and nodes: a condition, or
\* "release" when the operator's finalizer is to go.
aggregate(deleting, objs, ns) ==
  LET there == {n \in Nodes : objs[n] # None}
  IN  CASE deleting /\ \A n \in there : ~objs[n].finalizer -> "release"
        [] deleting /\ \E n \in there : objs[n].finalizer  -> "DeleteError"
        [] ~deleting /\ ~(ns \subseteq there)              -> "Pending"
        [] OTHER ->
             IF \E n \in there : IsBpfAppStateConditionFailure(objs[n].cond) THEN "Error"
             ELSE IF \E n \in there : IsBpfAppStateConditionPending(objs[n].cond) THEN "Pending"
             ELSE "Success"

\* Slip: a finished deletion is reported instead of released.
reconcileBpfApplicationNoRelease ==
  /\ pc = "list"
  /\ pc' = "updateStatus" /\ verdict' = aggregate(copy.deleting, objCache, nodeCache)
  /\ UNCHANGED <<apiVars, cacheVars, agentVars, queue, req, copy, faults>>

reconcileBpfApplication ==
  /\ pc = "list"
  /\ LET v == aggregate(copy.deleting, objCache, nodeCache)
     IN  IF v = "release" THEN pc' = "removeFinalizer" /\ verdict' = None
                          ELSE pc' = "updateStatus" /\ verdict' = v
  /\ UNCHANGED <<apiVars, cacheVars, agentVars, queue, req, copy, faults>>

\* The application goes with its last finalizer.
removeFinalizer ==
  /\ pc = "removeFinalizer" /\ Current(copy)
  /\ app' = None
  /\ Done
  /\ UNCHANGED <<obj, watch, nodes, born, cacheVars, agentVars, faults>>

removeFinalizerFails ==
  /\ pc = "removeFinalizer"
  /\ \/ ~Current(copy) /\ UNCHANGED faults
     \/ Fault("write")
  /\ Requeue
  /\ UNCHANGED <<apiVars, cacheVars, agentVars>>

(***************************************************************************)
(* updateStatus() and updateCondition(): read the application once more    *)
(* from the cache and write the condition if its type differs.             *)
(***************************************************************************)
updateConditionUnchanged ==
  /\ pc = "updateStatus" /\ appCache # None /\ appCache.cond = verdict
  /\ Done
  /\ UNCHANGED <<apiVars, cacheVars, agentVars, faults>>

MustUpdate == pc = "updateStatus" /\ appCache # None /\ appCache.cond # verdict

\* Slip: the old condition is not cleared and stays the first of the list.
updateConditionKeepsOld ==
  /\ MustUpdate /\ Current(appCache)
  /\ app' = [app EXCEPT !.cond = IF @ = "NoCond" THEN verdict ELSE @]
  /\ Done
  /\ UNCHANGED <<obj, watch, nodes, born, cacheVars, agentVars, faults>>

updateCondition ==
  /\ MustUpdate /\ Current(appCache)
  /\ app' = [app EXCEPT !.cond = verdict]
  /\ Done
  /\ UNCHANGED <<obj, watch, nodes, born, cacheVars, agentVars, faults>>

\* The application is gone from the cache, the copy is stale, or the write fails.
updateStatusFails ==
  /\ \/ pc = "updateStatus" /\ appCache = None /\ UNCHANGED faults
     \/ MustUpdate /\ ~Current(appCache) /\ UNCHANGED faults
     \/ MustUpdate /\ Fault("write")
  /\ Requeue
  /\ UNCHANGED <<apiVars, cacheVars, agentVars>>

(***************************************************************************)
(* Events.                                                                 *)
(***************************************************************************)
\* Slip: only conditions count.
statusChangedPredicateNoFinalizer(old, new) ==
  old # None /\ new # None /\ old.cond # new.cond

\* statusChangedPredicate: creations and deletions of state objects are no
\* events for the operator, updates of the condition or the finalizer are.
statusChangedPredicate(old, new) ==
  /\ old # None /\ new # None
  /\ old.cond # new.cond \/ old.finalizer # new.finalizer

\* Every event of the application is a request.
SyncApp ==
  /\ appCache # app
  /\ appCache' = app /\ queue' = queue \cup {App}
  /\ UNCHANGED <<apiVars, objCache, nodeCache, agentVars, recVars, faults>>

\* The watch delivers the next version of node n's state object.
SyncObj(n) ==
  /\ watch[n] # <<>>
  /\ objCache' = [objCache EXCEPT ![n] = Head(watch[n])]
  /\ watch' = [watch EXCEPT ![n] = Tail(@)]
  /\ queue' = IF statusChangedPredicate(objCache[n], Head(watch[n])) THEN queue \cup {n} ELSE queue
  /\ UNCHANGED <<app, obj, nodes, born, appCache, nodeCache, agentVars, recVars, faults>>

SyncNodes ==
  /\ nodeCache # nodes /\ nodeCache' = nodes
  /\ UNCHANGED <<apiVars, appCache, objCache, agentVars, queue, recVars, faults>>

\* The watch of the state objects breaks and the informer lists again: it goes
\* from the cached version to the current one in a single event.
Relist(n) ==
  /\ watch[n] # <<>> /\ Fault("relist")
  /\ objCache' = [objCache EXCEPT ![n] = obj[n]]
  /\ watch' = [watch EXCEPT ![n] = <<>>]
  /\ queue' = IF statusChangedPredicate(objCache[n], obj[n]) THEN queue \cup {n} ELSE queue
  /\ UNCHANGED <<app, obj, nodes, born, appCache, nodeCache, agentVars, recVars>>

\* The informers' resync is an update event of the application.
Resync ==
  /\ appCache # None /\ App \notin queue
  /\ queue' = queue \cup {App}
  /\ UNCHANGED <<apiVars, cacheVars, agentVars, recVars, faults>>

\* The operator dies and lists everything when it is back.
Crash ==
  /\ Fault("crash")
  /\ appCache' = app /\ objCache' = obj /\ nodeCache' = nodes
  /\ watch' = [n \in Nodes |-> <<>>]
  /\ queue' = IF app = None THEN {} ELSE {App}
  /\ Return
  /\ UNCHANGED <<app, obj, nodes, born, agentVars>>

(***************************************************************************)
(* The agents, the users, the cluster.  There is one incarnation of the    *)
(* application: what becomes of state objects that outlive it does not     *)
(* reach the operator.                                                     *)
(***************************************************************************)
\* A step of node n's state object is put on the operator's watch.
Watched(n) ==
  /\ Len(watch[n]) < MaxLag
  /\ watch' = [watch EXCEPT ![n] = Append(@, obj'[n])]
  /\ UNCHANGED <<app, nodes, born, cacheVars, queue, recVars, faults>>

\* All an agent's steps depend on is whether the application exists and is
\* being deleted.
Listed == IF app = None THEN "absent" ELSE IF app.deleting THEN "deleting" ELSE "live"

AgentList(n) ==
  /\ n \in nodes /\ seen[n] # Listed
  /\ seen' = [seen EXCEPT ![n] = Listed]
  /\ UNCHANGED <<apiVars, cacheVars, reports, queue, recVars, faults>>

SeesLive(n) == n \in nodes /\ seen[n] = "live"
SeesDeleting(n) == n \in nodes /\ seen[n] = "deleting"

AgentCreate(n) ==
  /\ SeesLive(n) /\ Agents!Create(n)
  /\ Watched(n) /\ UNCHANGED agentVars

AgentInit(n) ==
  /\ SeesLive(n) /\ Agents!Report(n, "Pending", FALSE)
  /\ Watched(n) /\ UNCHANGED agentVars

AgentReport(n) ==
  /\ SeesLive(n) /\ obj[n] # None /\ obj[n].cond # "NoCond" /\ reports < MaxReports
  /\ \E c \in {"Success", "Error"} : c # obj[n].cond /\ Agents!Report(n, c, TRUE)
  /\ reports' = reports + 1
  /\ Watched(n) /\ UNCHANGED seen

AgentUnload(n) ==
  /\ SeesDeleting(n) /\ obj[n] # None /\ obj[n].cond # "Unloaded"
  /\ Agents!Report(n, "Unloaded", FALSE)
  /\ Watched(n) /\ UNCHANGED agentVars

AgentRelease(n) ==
  /\ SeesDeleting(n) /\ obj[n] # None /\ obj[n].cond = "Unloaded" /\ Agents!Release(n)
  /\ Watched(n) /\ UNCHANGED agentVars

UserCreate ==
  /\ ~born /\ born' = TRUE
  /\ app' = [finalizer |-> FALSE, deleting |-> FALSE, cond |-> "NoCond"]
  /\ UNCHANGED <<obj, watch, nodes, cacheVars, agentVars, queue, recVars, faults>>

\* Without a finalizer the application goes at once.
UserDelete ==
  /\ app # None /\ ~app.deleting
  /\ app' = IF app.finalizer THEN [app EXCEPT !.deleting = TRUE] ELSE None
  /\ UNCHANGED <<obj, watch, nodes, born, cacheVars, agentVars, queue, recVars, faults>>

\* A node that leaves takes its agent along; its state object stays.
NodeChanges(n) ==
  /\ Fault("nodes")
  /\ nodes' = IF n \in nodes THEN nodes \ {n} ELSE nodes \cup {n}
  /\ UNCHANGED <<app, obj, watch, born, cacheVars, agentVars, queue, recVars>>

(***************************************************************************)
(* The specification.                                                      *)
(***************************************************************************)
ReconcileStep ==
  \/ \E r \in Nodes \cup {App} : Reconcile(r) \/ ReconcileStale(r)
  \/ addFinalizer \/ addFinalizerFails
  \/ reconcileBpfApplication
  \/ removeFinalizer \/ removeFinalizerFails
  \/ updateConditionUnchanged \/ updateCondition \/ updateStatusFails

AgentStep(n) ==
  \/ AgentList(n) \/ AgentCreate(n) \/ AgentInit(n) \/ AgentUnload(n) \/ AgentRelease(n)

Next ==
  \/ ReconcileStep
  \/ SyncApp \/ SyncNodes \/ Resync \/ Crash \/ UserCreate \/ UserDelete
  \/ \E n \in Nodes : \/ AgentStep(n) \/ AgentReport(n)
                      \/ SyncObj(n) \/ Relist(n) \/ NodeChanges(n)

Spec == Init /\ [][Next]_vars

\* The operator's worker and watches run, and so do the agents: they list the
\* application, create and initialise its state, unload it and let it go.
Fairness ==
  /\ WF_vars(ReconcileStep) /\ WF_vars(SyncApp) /\ WF_vars(SyncNodes)
  /\ \A n \in Nodes : /\ WF_vars(SyncObj(n)) /\ WF_vars(AgentList(n))
                      /\ WF_vars(AgentCreate(n) \/ AgentInit(n))
                      /\ WF_vars(AgentUnload(n) \/ AgentRelease(n))

FairSpec == Spec /\ Fairness
ResyncSpec == FairSpec /\ WF_vars(Resync)

(***************************************************************************)
(* Properties.                                                             *)
(***************************************************************************)
PCs == {"idle", "addFinalizer", "list", "removeFinalizer", "updateStatus"}

\* Every variable holds a value of its kind; Reconcile() works on an object.
TypeOK ==
  /\ app \in AppObj \cup {None} /\ appCache \in AppObj \cup {None} /\ born \in BOOLEAN
  /\ obj \in [Nodes -> Agents!Obj \cup {None}] /\ objCache \in [Nodes -> Agents!Obj \cup {None}]
  /\ watch \in [Nodes -> Seq(Agents!Obj \cup {None})]
  /\ nodes \subseteq Nodes /\ nodeCache \subseteq Nodes
  /\ seen \in [Nodes -> {"absent", "live", "deleting"}] /\ reports \in Nat /\ faults \in Nat
  /\ queue \subseteq Nodes \cup {App} /\ pc \in PCs
  /\ req \in Nodes \cup {App, None} /\ copy \in AppObj \cup {None}
  /\ verdict \in Verdicts \cup {None}
  /\ pc # "idle" => req # None /\ copy # None

\* Nothing is on its way to the operator and no agent is between the creation
\* of a state object and its first status.
Quiet ==
  /\ pc = "idle" /\ queue = {} /\ appCache = app /\ nodeCache = nodes
  /\ \A n \in Nodes : watch[n] = <<>> /\ (obj[n] # None => obj[n].cond # "NoCond")

\* The condition of a live application against its nodes and state objects:
\* Success is reported exactly when every node has a state object and all of
\* them are well, Error only when one of them is neither well nor pending.
Truthful ==
  LET Well(n) == obj[n].cond \in {"Success", "Unloaded"}
  IN  /\ app.cond \in {"Pending", "Success", "Error"}
      /\ app.cond = "Success" <=> /\ \A n \in nodes : obj[n] # None
                                  /\ \A n \in Nodes : obj[n] # None => Well(n)
      /\ app.cond = "Error" => \E n \in Nodes : /\ obj[n] # None /\ ~Well(n)
                                                /\ obj[n].cond # "Pending"

\* No event the operator needs is filtered out or used up too early: once it
\* has come to rest, the application carries the operator's finalizer, the
\* condition of a live one is true, and a deletion is still waiting only for
\* an agent's finalizer and says so.
RestingStatusIsTrue ==
  Quiet /\ app # None =>
    /\ app.finalizer
    /\ ~app.deleting => Truthful
    /\ app.deleting => /\ app.cond = "DeleteError"
                       /\ \E n \in Nodes : obj[n] # None /\ obj[n].finalizer

\* With broken watches, restarts and nodes coming and going the resync still
\* makes the reported condition true for good.
StatusConverges == <>[](app # None /\ ~app.deleting => app.finalizer /\ Truthful)

\* A deletion can only be held up by the finalizer of a node that has left.
DeletionWaitsOnlyForLostNodes ==
  app # None /\ app.deleting ~>
    app = None \/ \E n \in Nodes \ nodes : obj[n] # None /\ obj[n].finalizer

=============================================================================

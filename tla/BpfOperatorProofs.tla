-------------------------- MODULE BpfOperatorProofs --------------------------
(***************************************************************************)
(* Proofs about BpfOperator, for every number of nodes and every length of *)
(* the watches.                                                            *)
(***************************************************************************)
EXTENDS BpfOperator, TLAPS

(***************************************************************************)
(* The inductive invariant.                                                *)
(***************************************************************************)
\* Everything but the flag born.
DataTypeOK ==
  /\ app \in AppObj \cup {None} /\ appCache \in AppObj \cup {None}
  /\ obj \in [Nodes -> Agents!Obj \cup {None}] /\ objCache \in [Nodes -> Agents!Obj \cup {None}]
  /\ watch \in [Nodes -> Seq(Agents!Obj \cup {None})]
  /\ nodes \subseteq Nodes /\ nodeCache \subseteq Nodes
  /\ seen \in [Nodes -> {"absent", "live", "deleting"}] /\ reports \in Nat /\ faults \in Nat

LocalTypeOK ==
  /\ queue \subseteq Nodes \cup {App} /\ pc \in PCs
  /\ req \in Nodes \cup {App, None} /\ copy \in AppObj \cup {None}
  /\ verdict \in Verdicts \cup {None}
  /\ pc # "idle" => req # None /\ copy # None
  /\ pc = "updateStatus" => verdict \in Verdicts

\* While the application lives nobody deletes a state object.
ObjectsStay == \A n \in Nodes : obj[n] # None => ~obj[n].deleting

\* An application is created once; before that nobody has seen it.
BirthOK == (appCache # None \/ app # None) => born

\* Neither the operator's finalizer nor the deletion mark of the cached
\* application is ever taken back in the API server.
MarksStay ==
  app # None /\ appCache # None =>
    /\ appCache.finalizer => app.finalizer
    /\ appCache.deleting  => app.deleting

\* The watch holds versions of the state object, the current one last.
WatchOK(n) ==
  /\ watch[n] = <<>> => objCache[n] = obj[n]
  /\ watch[n] # <<>> => watch[n][Len(watch[n])] = obj[n]
  /\ \A i \in 1..Len(watch[n]) : watch[n][i] # None

\* The first version the operator sees of a state object has no condition yet.
FirstIsNew(n) ==
  objCache[n] = None /\ watch[n] # <<>> => Head(watch[n]).cond = "NoCond"

WatchesOK == \A n \in Nodes : WatchOK(n) /\ FirstIsNew(n)

\* A request named after a state object stands for one the cache holds.
RequestsOK == \A n \in Nodes : n \in queue \/ (pc # "idle" /\ req = n) => objCache[n] # None

\* What Reconcile() works on is what the cache holds, or a request is queued.
CopyOK ==
  /\ pc # "idle" /\ App \notin queue => copy = appCache
  /\ pc = "addFinalizer" => ~copy.finalizer
  /\ pc \in {"list", "removeFinalizer", "updateStatus"} => copy.finalizer

\* The operator has seen the creation of a state object, which is no event for
\* it, and not yet the first status, which is one.
FirstStatusDue == \E n \in Nodes : objCache[n] # None /\ objCache[n].cond = "NoCond"

\* The condition about to be reported is still right, or something is queued.
VerdictOK ==
  pc = "updateStatus" /\ queue = {} /\ ~FirstStatusDue =>
    verdict = aggregate(copy.deleting, objCache, nodeCache)

\* The condition reported is right once nothing is queued.
RestOK ==
  pc = "idle" /\ queue = {} /\ app # None /\ appCache = app =>
    /\ app.finalizer
    /\ ~FirstStatusDue => app.cond = aggregate(app.deleting, objCache, nodeCache)

LoopOK == RequestsOK /\ CopyOK /\ VerdictOK /\ RestOK

TypeInv == DataTypeOK /\ LocalTypeOK /\ ObjectsStay

OperatorInv ==
  /\ TypeInv /\ BirthOK /\ MarksStay /\ nodeCache = nodes
  /\ WatchesOK /\ LoopOK

(***************************************************************************)
(* Typing.                                                                 *)
(***************************************************************************)
LEMMA AggregateType ==
  ASSUME NEW d, NEW objs, NEW ns
  PROVE  aggregate(d, objs, ns) \in Verdicts \cup {"release"}
BY DEF aggregate, Verdicts

\* Writing the condition and the mark for recorded programs leaves an object.
LEMMA ReportObj ==
  ASSUME NEW o \in Agents!Obj, NEW c \in Agents!Conds, NEW b \in BOOLEAN
  PROVE  /\ [[o EXCEPT !.cond = c] EXCEPT !.busy = b] \in Agents!Obj
         /\ [[o EXCEPT !.cond = c] EXCEPT !.busy = b].deleting = o.deleting
         /\ [[o EXCEPT !.cond = c] EXCEPT !.busy = b].cond = c
BY DEF Agents!Obj

LEMMA ReportEffect ==
  ASSUME DataTypeOK, NEW n \in Nodes, NEW c \in Agents!Conds, NEW b \in BOOLEAN, Agents!Report(n, c, b)
  PROVE  \E o \in Agents!Obj : /\ obj' = [obj EXCEPT ![n] = o] /\ obj[n] # None
                               /\ o.deleting = obj[n].deleting /\ o.cond = c
<1>1. obj[n] \in Agents!Obj /\ obj[n] # None
  BY DEF DataTypeOK, Agents!Report
<1> DEFINE o == [[obj[n] EXCEPT !.cond = c] EXCEPT !.busy = b]
<1>2. o \in Agents!Obj /\ o.deleting = obj[n].deleting /\ o.cond = c
  BY <1>1, ReportObj
<1>3. obj' = [obj EXCEPT ![n] = o]
  BY <1>1 DEF Agents!Report, DataTypeOK, Agents!Obj
<1> HIDE DEF o
<1>4. QED
  BY <1>1, <1>2, <1>3

\* The steps of node n's agent that write its state object.
AgentWrite(n) ==
  AgentCreate(n) \/ AgentInit(n) \/ AgentUnload(n) \/ AgentRelease(n) \/ AgentReport(n)

\* Whatever an agent writes, the object is there afterwards, and its first
\* version has no condition.
LEMMA AgentWriteEffect ==
  ASSUME DataTypeOK, ObjectsStay, NEW n \in Nodes, AgentWrite(n)
  PROVE  \E o \in Agents!Obj : /\ obj' = [obj EXCEPT ![n] = o] /\ ~o.deleting
                               /\ obj[n] = None => o.cond = "NoCond"
<1>1. CASE AgentCreate(n)
  <2> DEFINE o == [cond |-> "NoCond", finalizer |-> TRUE, deleting |-> FALSE, busy |-> FALSE]
  <2>1. o \in Agents!Obj /\ ~o.deleting /\ o.cond = "NoCond"
    BY DEF Agents!Obj, Agents!Conds
  <2>2. obj' = [obj EXCEPT ![n] = o]
    BY <1>1 DEF AgentCreate, Agents!Create
  <2> HIDE DEF o
  <2>3. QED
    BY <2>1, <2>2
<1>2. CASE AgentRelease(n)
  <2> DEFINE o == [obj[n] EXCEPT !.finalizer = FALSE]
  <2>1. obj[n] \in Agents!Obj /\ obj[n] # None /\ ~obj[n].deleting
    BY <1>2 DEF AgentRelease, DataTypeOK, ObjectsStay
  <2>2. o \in Agents!Obj /\ o.deleting = obj[n].deleting
    BY <2>1 DEF Agents!Obj
  <2>3. obj' = [obj EXCEPT ![n] = o]
    BY <1>2, <2>1 DEF AgentRelease, Agents!Release
  <2> HIDE DEF o
  <2>4. QED
    BY <2>1, <2>2, <2>3
<1>3. CASE AgentInit(n) \/ AgentUnload(n) \/ AgentReport(n)
  <2>1. PICK c \in Agents!Conds, b \in BOOLEAN : Agents!Report(n, c, b)
    BY <1>3 DEF AgentInit, AgentUnload, AgentReport, Agents!Conds
  <2>2. PICK o \in Agents!Obj : /\ obj' = [obj EXCEPT ![n] = o] /\ obj[n] # None
                                /\ o.deleting = obj[n].deleting /\ o.cond = c
    BY <2>1, ReportEffect
  <2>3. ~o.deleting
    BY <2>2 DEF ObjectsStay
  <2>4. QED
    BY <2>2, <2>3
<1>4. QED
  BY <1>1, <1>2, <1>3 DEF AgentWrite

LEMMA InitType == Init => TypeInv /\ born \in BOOLEAN
<1> SUFFICES ASSUME Init PROVE TypeInv /\ born \in BOOLEAN
  OBVIOUS
<1>1. LocalTypeOK
  BY DEF Init, LocalTypeOK, PCs
<1>2. DataTypeOK /\ ObjectsStay
  BY DEF Init, Agents!Init, DataTypeOK, ObjectsStay
<1>3. born \in BOOLEAN
  BY Zenon DEF Init
<1>4. QED
  BY <1>1, <1>2, <1>3, Zenon DEF TypeInv

\* Reconcile() returns: its locals are gone.
LEMMA ReturnType ==
  ASSUME Return, queue' \subseteq Nodes \cup {App}
  PROVE  LocalTypeOK'
BY DEF Return, LocalTypeOK, PCs

LEMMA RequeueType ==
  ASSUME LocalTypeOK, Done \/ (pc # "idle" /\ Requeue)
  PROVE  LocalTypeOK'
<1>1. queue' \subseteq Nodes \cup {App} /\ Return
  BY DEF LocalTypeOK, Done, Requeue
<1>2. QED
  BY <1>1, ReturnType

LEMMA ReconcileType ==
  ASSUME TypeInv, ReconcileStep
  PROVE  TypeInv'
<1> USE DEF TypeInv, ObjectsStay, apiVars, cacheVars, agentVars
<1>1. ASSUME NEW r \in Nodes \cup {App}, Reconcile(r)
      PROVE  TypeInv'
  <2>1. copy' \in AppObj /\ copy' # None
    BY <1>1 DEF Reconcile, Resolved, DataTypeOK
  <2>2. LocalTypeOK'
    BY <1>1, <2>1, BpfOperatorAssumption DEF Reconcile, LocalTypeOK, PCs
  <2>3. QED
    BY <1>1, <2>2 DEF Reconcile, DataTypeOK
<1>2. ASSUME NEW r \in Nodes \cup {App}, ReconcileStale(r)
      PROVE  TypeInv'
  BY <1>2 DEF ReconcileStale, DataTypeOK, LocalTypeOK, recVars
<1>3. CASE addFinalizer
  <2>1. [app EXCEPT !.finalizer = TRUE] \in AppObj
    BY <1>3 DEF addFinalizer, Current, DataTypeOK, LocalTypeOK, AppObj
  <2>2. LocalTypeOK'
    BY <1>3, RequeueType DEF addFinalizer
  <2>3. QED
    BY <1>3, <2>1, <2>2 DEF addFinalizer, DataTypeOK
<1>4. CASE addFinalizerFails \/ removeFinalizerFails \/ updateStatusFails
  <2>1. LocalTypeOK'
    BY <1>4, RequeueType DEF addFinalizerFails, removeFinalizerFails, updateStatusFails, MustUpdate
  <2>2. DataTypeOK'
    BY <1>4 DEF addFinalizerFails, removeFinalizerFails, updateStatusFails, Fault, DataTypeOK
  <2>3. QED
    BY <1>4, <2>1, <2>2 DEF addFinalizerFails, removeFinalizerFails, updateStatusFails
<1>5. CASE reconcileBpfApplication
  <2>1. aggregate(copy.deleting, objCache, nodeCache) \in Verdicts \cup {"release"}
    BY AggregateType
  <2>2. LocalTypeOK'
    BY <1>5, <2>1 DEF reconcileBpfApplication, LocalTypeOK, PCs
  <2>3. QED
    BY <1>5, <2>2 DEF reconcileBpfApplication, DataTypeOK
<1>6. CASE removeFinalizer
  BY <1>6, RequeueType DEF removeFinalizer, DataTypeOK
<1>7. CASE updateConditionUnchanged
  BY <1>7, RequeueType DEF updateConditionUnchanged, DataTypeOK
<1>8. CASE updateCondition
  <2>1. app \in AppObj /\ verdict \in Verdicts
    BY <1>8 DEF updateCondition, MustUpdate, Current, DataTypeOK, LocalTypeOK
  <2>2. [app EXCEPT !.cond = verdict] \in AppObj
    BY <2>1 DEF AppObj
  <2>3. LocalTypeOK'
    BY <1>8, RequeueType DEF updateCondition
  <2>4. QED
    BY <1>8, <2>2, <2>3 DEF updateCondition, DataTypeOK
<1>9. QED
  BY <1>1, <1>2, <1>3, <1>4, <1>5, <1>6, <1>7, <1>8 DEF ReconcileStep

\* The caches and the queue.
CacheStep ==
  \/ SyncApp \/ SyncNodes \/ Resync \/ Crash
  \/ \E n \in Nodes : SyncObj(n) \/ Relist(n)

LEMMA CacheType ==
  ASSUME TypeInv, CacheStep
  PROVE  TypeInv'
<1> USE DEF TypeInv, ObjectsStay, apiVars, cacheVars, agentVars
<1>1. CASE SyncApp \/ SyncNodes \/ Resync
  BY <1>1 DEF SyncApp, SyncNodes, Resync, DataTypeOK, LocalTypeOK, recVars
<1>2. CASE Crash
  <2>1. LocalTypeOK'
    BY <1>2, ReturnType DEF Crash
  <2>2. QED
    BY <1>2, <2>1 DEF Crash, Fault, DataTypeOK
<1>3. ASSUME NEW n \in Nodes, SyncObj(n)
      PROVE  TypeInv'
  <2>1. watch[n] \in Seq(Agents!Obj \cup {None}) /\ watch[n] # <<>>
    BY <1>3 DEF SyncObj, DataTypeOK
  <2>2. Head(watch[n]) \in Agents!Obj \cup {None} /\ Tail(watch[n]) \in Seq(Agents!Obj \cup {None})
    BY <2>1
  <2>3. DataTypeOK'
    BY <1>3, <2>2 DEF SyncObj, DataTypeOK
  <2>4. LocalTypeOK'
    BY <1>3 DEF SyncObj, LocalTypeOK, recVars
  <2>5. QED
    BY <1>3, <2>3, <2>4 DEF SyncObj
<1>4. ASSUME NEW n \in Nodes, Relist(n)
      PROVE  TypeInv'
  <2>1. DataTypeOK'
    BY <1>4 DEF Relist, Fault, DataTypeOK
  <2>2. LocalTypeOK'
    BY <1>4 DEF Relist, LocalTypeOK, recVars
  <2>3. QED
    BY <1>4, <2>1, <2>2 DEF Relist
<1>5. QED
  BY <1>1, <1>2, <1>3, <1>4 DEF CacheStep

\* Users, nodes and agents.
WorldStep ==
  \/ UserCreate \/ UserDelete
  \/ \E n \in Nodes : AgentList(n) \/ AgentWrite(n) \/ NodeChanges(n)

LEMMA WorldType ==
  ASSUME TypeInv, WorldStep
  PROVE  TypeInv'
<1> USE DEF TypeInv, apiVars, cacheVars, agentVars
<1>1. LocalTypeOK'
  BY DEF WorldStep, UserCreate, UserDelete, AgentList, AgentWrite, NodeChanges, AgentCreate, AgentInit,
         AgentUnload, AgentRelease, AgentReport, Watched, LocalTypeOK, recVars
<1>2. CASE UserCreate
  <2>1. [finalizer |-> FALSE, deleting |-> FALSE, cond |-> "NoCond"] \in AppObj
    BY DEF AppObj
  <2>2. QED
    BY <1>1, <1>2, <2>1 DEF UserCreate, DataTypeOK, ObjectsStay
<1>3. CASE UserDelete
  <2>1. [app EXCEPT !.deleting = TRUE] \in AppObj
    BY <1>3 DEF UserDelete, DataTypeOK, AppObj
  <2>2. QED
    BY <1>1, <1>3, <2>1 DEF UserDelete, DataTypeOK, ObjectsStay
<1>4. ASSUME NEW n \in Nodes, AgentList(n) \/ NodeChanges(n)
      PROVE  TypeInv'
  BY <1>1, <1>4 DEF AgentList, NodeChanges, Listed, Fault, DataTypeOK, ObjectsStay
<1>5. ASSUME NEW n \in Nodes, AgentWrite(n)
      PROVE  TypeInv'
  <2>1. PICK o \in Agents!Obj : /\ obj' = [obj EXCEPT ![n] = o] /\ ~o.deleting
                                /\ obj[n] = None => o.cond = "NoCond"
    BY <1>5, AgentWriteEffect
  <2>2. Watched(n)
    BY <1>5 DEF AgentWrite, AgentCreate, AgentInit, AgentUnload, AgentRelease, AgentReport
  <2>3. obj'[n] = o /\ obj' \in [Nodes -> Agents!Obj \cup {None}]
    BY <2>1 DEF DataTypeOK
  <2>4. watch' \in [Nodes -> Seq(Agents!Obj \cup {None})]
    BY <2>2, <2>3 DEF Watched, DataTypeOK
  <2>5. seen' = seen /\ reports' \in Nat
    <3>1. seen' = seen /\ (reports' = reports \/ reports' = reports + 1)
      BY <1>5, Zenon
         DEF AgentWrite, AgentCreate, AgentInit, AgentUnload, AgentRelease, AgentReport, agentVars
    <3>2. QED
      BY <3>1 DEF DataTypeOK
  <2>6. DataTypeOK'
    BY <2>2, <2>3, <2>4, <2>5 DEF Watched, DataTypeOK
  <2>7. ObjectsStay'
    BY <2>1 DEF ObjectsStay, DataTypeOK
  <2>8. QED
    BY <1>1, <2>6, <2>7
<1>6. QED
  BY <1>2, <1>3, <1>4, <1>5 DEF WorldStep

LEMMA StepKinds ==
  ASSUME [Next]_vars
  PROVE  ReconcileStep \/ CacheStep \/ WorldStep \/ UNCHANGED vars
BY Zenon DEF Next, AgentStep, CacheStep, WorldStep, AgentWrite

LEMMA TypeInductive == TypeInv /\ [Next]_vars => TypeInv'
<1> SUFFICES ASSUME TypeInv, [Next]_vars PROVE TypeInv'
  OBVIOUS
<1>1. CASE UNCHANGED vars
  BY <1>1 DEF TypeInv, DataTypeOK, LocalTypeOK, ObjectsStay, vars, apiVars, cacheVars, agentVars, recVars
<1>2. QED
  BY <1>1, StepKinds, ReconcileType, CacheType, WorldType

LEMMA BornInductive ==
  ASSUME born \in BOOLEAN, [Next]_vars
  PROVE  born' = born \/ UserCreate
<1>1. CASE ReconcileStep
  BY <1>1, Zenon
     DEF ReconcileStep, Reconcile, ReconcileStale, addFinalizer, addFinalizerFails, reconcileBpfApplication,
         removeFinalizer, removeFinalizerFails, updateConditionUnchanged, updateCondition, updateStatusFails,
         apiVars
<1>2. CASE CacheStep
  BY <1>2, Zenon DEF CacheStep, SyncApp, SyncNodes, Resync, Crash, SyncObj, Relist, apiVars
<1>3. CASE WorldStep
  BY <1>3, Zenon
     DEF WorldStep, UserDelete, AgentList, AgentWrite, NodeChanges, AgentCreate, AgentInit, AgentUnload,
         AgentRelease, AgentReport, Watched, apiVars
<1>4. CASE UNCHANGED vars
  BY <1>4, Zenon DEF vars, apiVars
<1>5. QED
  BY <1>1, <1>2, <1>3, <1>4, StepKinds, Zenon

\* Whatever fails, restarts or joins and leaves the cluster, every variable of
\* the operator, of the agents and of the API server holds a value of its kind,
\* and Reconcile() works on an application it has read (Reconcile,
\* reconcileBpfApplication, updateStatus).
THEOREM OperatorTypeCorrect == Spec => []TypeOK
<1>1. Init => TypeInv /\ born \in BOOLEAN
  BY InitType
<1>2. TypeInv /\ born \in BOOLEAN /\ [Next]_vars => (TypeInv /\ born \in BOOLEAN)'
  <2>1. ASSUME born \in BOOLEAN, [Next]_vars PROVE born' \in BOOLEAN
    BY <2>1, BornInductive, Zenon DEF UserCreate
  <2>2. QED
    BY <2>1, TypeInductive
<1>3. TypeInv /\ born \in BOOLEAN => TypeOK
  BY DEF TypeInv, DataTypeOK, LocalTypeOK, TypeOK
<1>4. QED
  BY <1>1, <1>2, <1>3, PTL DEF Spec

(***************************************************************************)
(* The status at rest: lemmas about the operators.                         *)
(***************************************************************************)
\* Only presence, conditions and finalizers enter the decision.
LEMMA AggregateSame ==
  ASSUME NEW d \in BOOLEAN, NEW ns, NEW o1, NEW o2,
         \A n \in Nodes : /\ o1[n] = None <=> o2[n] = None
                          /\ o1[n].cond = o2[n].cond
                          /\ o1[n].finalizer <=> o2[n].finalizer
  PROVE  aggregate(d, o1, ns) = aggregate(d, o2, ns)
<1> DEFINE T1 == {n \in Nodes : o1[n] # None}
           T2 == {n \in Nodes : o2[n] # None}
<1>1. T1 = T2
  OBVIOUS
<1>2. (\E n \in T1 : o1[n].finalizer) <=> (\E n \in T2 : o2[n].finalizer)
  BY Zenon
<1>3. (\A n \in T1 : ~o1[n].finalizer) <=> (\A n \in T2 : ~o2[n].finalizer)
  BY Zenon
<1>4. /\ (\E n \in T1 : IsBpfAppStateConditionFailure(o1[n].cond))
           <=> (\E n \in T2 : IsBpfAppStateConditionFailure(o2[n].cond))
      /\ (\E n \in T1 : IsBpfAppStateConditionPending(o1[n].cond))
           <=> (\E n \in T2 : IsBpfAppStateConditionPending(o2[n].cond))
  BY Zenon
<1>5. QED
  BY <1>1, <1>2, <1>3, <1>4 DEF aggregate

\* What the decision is for an application at rest.
LEMMA AggregateDeleting ==
  ASSUME NEW objs, NEW ns, NEW d, d
  PROVE  \/ aggregate(d, objs, ns) = "release"
         \/ /\ aggregate(d, objs, ns) = "DeleteError"
            /\ \E n \in Nodes : objs[n] # None /\ objs[n].finalizer
BY DEF aggregate

LEMMA AggregateLive ==
  ASSUME NEW objs, NEW ns, NEW d, ~d
  PROVE  aggregate(d, objs, ns) =
           LET there == {n \in Nodes : objs[n] # None}
           IN  IF ~(ns \subseteq there) THEN "Pending"
               ELSE IF \E n \in there : IsBpfAppStateConditionFailure(objs[n].cond) THEN "Error"
               ELSE IF \E n \in there : IsBpfAppStateConditionPending(objs[n].cond) THEN "Pending"
               ELSE "Success"
BY DEF aggregate

(***************************************************************************)
(* The invariant implies the property.                                     *)
(***************************************************************************)
LEMMA RestIsTrue == OperatorInv => RestingStatusIsTrue
<1> SUFFICES ASSUME OperatorInv, Quiet, app # None
             PROVE  /\ app.finalizer
                    /\ ~app.deleting => Truthful
                    /\ app.deleting => /\ app.cond = "DeleteError"
                                       /\ \E n \in Nodes : obj[n] # None /\ obj[n].finalizer
  BY DEF RestingStatusIsTrue
<1>1. objCache = obj /\ nodeCache = nodes
  BY DEF OperatorInv, TypeInv, DataTypeOK, WatchesOK, WatchOK, Quiet
<1>2. ~FirstStatusDue
  BY <1>1 DEF FirstStatusDue, Quiet
<1>3. app.finalizer
  BY DEF OperatorInv, LoopOK, RestOK, Quiet
<1>4. app.cond = aggregate(app.deleting, obj, nodes)
  BY <1>1, <1>2 DEF OperatorInv, LoopOK, RestOK, Quiet
<1>5. app.cond \in Verdicts \cup {"NoCond"}
  BY DEF OperatorInv, TypeInv, DataTypeOK, AppObj
<1>6. ASSUME app.deleting
      PROVE  app.cond = "DeleteError" /\ \E n \in Nodes : obj[n] # None /\ obj[n].finalizer
  BY <1>4, <1>5, <1>6, AggregateDeleting DEF Verdicts
<1>7. ASSUME ~app.deleting
      PROVE  Truthful
  <2> DEFINE there == {n \in Nodes : obj[n] # None}
  <2>1. app.cond = IF ~(nodes \subseteq there) THEN "Pending"
                   ELSE IF \E n \in there : IsBpfAppStateConditionFailure(obj[n].cond) THEN "Error"
                   ELSE IF \E n \in there : IsBpfAppStateConditionPending(obj[n].cond) THEN "Pending"
                   ELSE "Success"
    BY <1>4, <1>7, AggregateLive
  <2>2. \A n \in there : obj[n].cond \in {"Pending", "Success", "Error", "UnloadError", "Unloaded"}
    BY DEF Quiet, OperatorInv, TypeInv, DataTypeOK, Agents!Obj, Agents!Conds
  <2>3. QED
    BY <2>1, <2>2
       DEF Truthful, IsBpfAppStateConditionFailure, IsBpfAppStateConditionPending, OperatorInv, TypeInv,
           DataTypeOK
<1>8. QED
  BY <1>3, <1>6, <1>7

LEMMA EmptyWatch ==
  ASSUME NEW n \in Nodes, watch[n] = <<>>, objCache[n] = obj[n]
  PROVE  WatchOK(n) /\ FirstIsNew(n)
BY DEF WatchOK, FirstIsNew

LEMMA InitOperatorInv == Init => OperatorInv
<1> SUFFICES ASSUME Init PROVE OperatorInv
  OBVIOUS
<1>1. TypeInv
  BY InitType
<1>2. BirthOK /\ MarksStay /\ nodeCache = nodes
  BY DEF Init, BirthOK, MarksStay
<1>3. WatchesOK
  <2>1. \A n \in Nodes : watch[n] = <<>> /\ objCache[n] = obj[n]
    BY DEF Init
  <2>2. QED
    BY <2>1, EmptyWatch DEF WatchesOK
<1>4. LoopOK
  BY DEF Init, LoopOK, RequestsOK, CopyOK, VerdictOK, RestOK
<1>5. QED
  BY <1>1, <1>2, <1>3, <1>4 DEF OperatorInv

(***************************************************************************)
(* The invariant is inductive.                                             *)
(***************************************************************************)
\* Return without a request in hand: what remains to be shown.
LEMMA ReconcileKeeps ==
  ASSUME OperatorInv, ReconcileStep
  PROVE  /\ UNCHANGED <<obj, watch, objCache, appCache, nodes, nodeCache>>
         /\ app' # None => app # None
         /\ BirthOK' /\ MarksStay' /\ WatchesOK' /\ (FirstStatusDue' <=> FirstStatusDue)
<1>1. UNCHANGED <<obj, watch, objCache, appCache, nodes, nodeCache>>
  BY Zenon
     DEF ReconcileStep, Reconcile, ReconcileStale, addFinalizer, addFinalizerFails, reconcileBpfApplication,
         removeFinalizer, removeFinalizerFails, updateConditionUnchanged, updateCondition, updateStatusFails,
         apiVars, cacheVars
<1>2. born' = born
  BY Zenon
     DEF ReconcileStep, Reconcile, ReconcileStale, addFinalizer, addFinalizerFails, reconcileBpfApplication,
         removeFinalizer, removeFinalizerFails, updateConditionUnchanged, updateCondition, updateStatusFails,
         apiVars
<1>3. addFinalizer \/ updateCondition \/ app' = None \/ app' = app
  BY Zenon
     DEF ReconcileStep, Reconcile, ReconcileStale, addFinalizerFails, reconcileBpfApplication,
         removeFinalizer, removeFinalizerFails, updateConditionUnchanged, updateStatusFails, apiVars
<1>4. app' # None => app # None
  BY <1>3 DEF addFinalizer, updateCondition, Current, MustUpdate, OperatorInv, TypeInv, LocalTypeOK
<1>5. BirthOK'
  BY <1>1, <1>2, <1>4, Zenon DEF OperatorInv, BirthOK
<1>6. MarksStay'
  <2>1. CASE addFinalizer
    <3>1. app \in AppObj
      BY <1>4, <2>1 DEF addFinalizer, Current, OperatorInv, TypeInv, DataTypeOK, LocalTypeOK
    <3>2. app'.finalizer /\ app'.deleting = app.deleting
      BY <2>1, <3>1 DEF addFinalizer, AppObj
    <3>3. app # None
      BY <3>1, NoneAssumption
    <3>4. QED
      BY <1>1, <3>2, <3>3 DEF MarksStay, OperatorInv
  <2>2. CASE updateCondition
    <3>1. app \in AppObj
      BY <2>2 DEF updateCondition, Current, MustUpdate, OperatorInv, TypeInv, DataTypeOK
    <3>2. app'.finalizer = app.finalizer /\ app'.deleting = app.deleting
      BY <2>2, <3>1 DEF updateCondition, AppObj
    <3>3. app # None
      BY <3>1, NoneAssumption
    <3>4. QED
      BY <1>1, <3>2, <3>3 DEF MarksStay, OperatorInv
  <2>3. QED
    BY <1>1, <1>3, <2>1, <2>2 DEF MarksStay, OperatorInv
<1>7. WatchesOK' /\ (FirstStatusDue' <=> FirstStatusDue)
  BY <1>1 DEF OperatorInv, WatchesOK, WatchOK, FirstIsNew, FirstStatusDue
<1>8. QED
  BY <1>1, <1>4, <1>5, <1>6, <1>7

\* A failed write leaves its request in the queue.
LEMMA FailureKeeps ==
  ASSUME OperatorInv, pc # "idle", Requeue, UNCHANGED objCache
  PROVE  LoopOK'
<1>1. queue' # {} /\ pc' = "idle" /\ queue' = queue \cup {req}
  BY DEF Requeue, Return
<1>2. RequestsOK'
  BY <1>1 DEF OperatorInv, LoopOK, RequestsOK
<1>3. QED
  BY <1>1, <1>2 DEF LoopOK, CopyOK, VerdictOK, RestOK

LEMMA ReconcileInv ==
  ASSUME OperatorInv, ReconcileStep
  PROVE  OperatorInv'
<1> SUFFICES LoopOK'
  BY ReconcileKeeps, ReconcileType DEF OperatorInv
<1> USE ReconcileKeeps DEF LoopOK
<1>1. ASSUME NEW r \in Nodes \cup {App}, Reconcile(r)
      PROVE  LoopOK'
  <2>1. /\ pc' \in {"list", "addFinalizer"} /\ copy' = appCache /\ req' = r /\ r \in queue
        /\ queue' = queue \ {r} /\ (r # App => objCache[r] # None)
    BY <1>1 DEF Reconcile, Resolved
  <2>2. /\ pc' = "list" => copy'.finalizer
        /\ pc' = "addFinalizer" => ~copy'.finalizer
    BY <1>1, Zenon DEF Reconcile
  <2>3. RequestsOK'
    BY <2>1 DEF RequestsOK, OperatorInv
  <2>4. QED
    BY <2>1, <2>2, <2>3 DEF CopyOK, VerdictOK, RestOK
<1>2. ASSUME NEW r \in Nodes \cup {App}, ReconcileStale(r)
      PROVE  LoopOK'
  <2>1. /\ queue' = queue \ {r} /\ r \in queue /\ pc = "idle" /\ UNCHANGED recVars /\ app' = app
        /\ Resolved(r) = None
    BY <1>2 DEF ReconcileStale, apiVars
  <2>2. appCache = None
    BY <2>1 DEF Resolved, OperatorInv, RequestsOK
  <2>3. QED
    BY <2>1, <2>2 DEF RequestsOK, CopyOK, VerdictOK, RestOK, recVars, OperatorInv
<1>3. CASE addFinalizer
  <2>1. /\ pc' = "idle" /\ queue' = queue /\ app = copy /\ ~copy.finalizer /\ pc = "addFinalizer"
    BY <1>3 DEF addFinalizer, Done, Return, Current, OperatorInv, CopyOK
  <2>2. app \in AppObj /\ app # None /\ app' \in AppObj /\ app'.finalizer
    BY <1>3, <2>1, NoneAssumption DEF addFinalizer, OperatorInv, TypeInv, DataTypeOK, LocalTypeOK, AppObj
  <2>3. appCache' # app'
    BY <2>1, <2>2, NoneAssumption, Zenon DEF OperatorInv, MarksStay
  <2>4. QED
    BY <2>1, <2>3 DEF RequestsOK, CopyOK, VerdictOK, RestOK, OperatorInv
<1>4. CASE addFinalizerFails \/ removeFinalizerFails \/ updateStatusFails
  BY <1>4, FailureKeeps DEF addFinalizerFails, removeFinalizerFails, updateStatusFails, MustUpdate
<1>5. CASE reconcileBpfApplication
  <2>1. /\ pc' \in {"removeFinalizer", "updateStatus"} /\ pc = "list"
        /\ pc' = "updateStatus" => verdict' = aggregate(copy.deleting, objCache, nodeCache)
        /\ UNCHANGED <<queue, req, copy>>
    BY <1>5 DEF reconcileBpfApplication
  <2>2. RequestsOK' /\ CopyOK'
    BY <2>1 DEF RequestsOK, CopyOK, OperatorInv
  <2>3. VerdictOK' /\ RestOK'
    BY <2>1 DEF VerdictOK, RestOK
  <2>4. QED
    BY <2>2, <2>3
<1>6. CASE removeFinalizer
  BY <1>6 DEF removeFinalizer, Done, Return, RequestsOK, CopyOK, VerdictOK, RestOK, OperatorInv
<1>7. CASE updateConditionUnchanged
  <2>1. /\ pc' = "idle" /\ queue' = queue /\ app' = app /\ pc = "updateStatus" /\ appCache.cond = verdict
        /\ copy.finalizer /\ (queue = {} => copy = appCache)
    BY <1>7 DEF updateConditionUnchanged, Done, Return, apiVars, OperatorInv, CopyOK
  <2>2. RequestsOK' /\ CopyOK' /\ VerdictOK'
    BY <2>1 DEF RequestsOK, CopyOK, VerdictOK, OperatorInv
  <2>3. ASSUME queue = {}, appCache = app
        PROVE  app.finalizer /\ (~FirstStatusDue => app.cond = aggregate(app.deleting, objCache, nodeCache))
    BY <2>1, <2>3 DEF VerdictOK, OperatorInv
  <2>4. RestOK'
    BY <2>1, <2>3 DEF RestOK
  <2>5. QED
    BY <2>2, <2>4
<1>8. CASE updateCondition
  <2>1. /\ pc' = "idle" /\ queue' = queue /\ pc = "updateStatus" /\ appCache = app /\ app # None
        /\ app.cond # verdict /\ app' = [app EXCEPT !.cond = verdict]
    BY <1>8 DEF updateCondition, MustUpdate, Current, Done, Return
  <2>2. app'.cond = verdict
    BY <2>1 DEF OperatorInv, TypeInv, DataTypeOK, AppObj
  <2>3. appCache' # app'
    BY <2>1, <2>2
  <2>4. QED
    BY <2>1, <2>3 DEF RequestsOK, CopyOK, VerdictOK, RestOK, OperatorInv
<1>9. QED
  BY <1>1, <1>2, <1>3, <1>4, <1>5, <1>6, <1>7, <1>8 DEF ReconcileStep

LEMMA TailFacts ==
  ASSUME NEW S, NEW w \in Seq(S), w # <<>>
  PROVE  /\ Len(w) \in Nat /\ Len(w) >= 1 /\ Head(w) = w[1]
         /\ Len(Tail(w)) = Len(w) - 1
         /\ \A i \in 1..Len(Tail(w)) : Tail(w)[i] = w[i + 1]
         /\ Tail(w) = <<>> <=> Len(w) = 1
<1>1. Len(w) \in Nat /\ Len(w) >= 1 /\ Head(w) = w[1]
  OBVIOUS
<1>2. Tail(w) \in Seq(S) /\ Len(Tail(w)) = Len(w) - 1
  BY <1>1
<1>3. \A i \in 1..Len(Tail(w)) : Tail(w)[i] = w[i + 1]
  BY <1>1, <1>2
<1>4. Tail(w) = <<>> <=> Len(w) = 1
  BY <1>1, <1>2
<1>5. QED
  BY <1>1, <1>2, <1>3, <1>4

\* The next version replaces the cached one.
LEMMA SyncWatches ==
  ASSUME OperatorInv, NEW n \in Nodes, SyncObj(n)
  PROVE  /\ WatchesOK' /\ Head(watch[n]) # None
         /\ objCache[n] = None => Head(watch[n]).cond = "NoCond"
<1>1. /\ watch[n] \in Seq(Agents!Obj \cup {None}) /\ watch[n] # <<>>
      /\ objCache' = [objCache EXCEPT ![n] = Head(watch[n])]
      /\ watch' = [watch EXCEPT ![n] = Tail(watch[n])] /\ obj' = obj
  BY DEF SyncObj, OperatorInv, TypeInv, DataTypeOK
<1>2. WatchOK(n) /\ FirstIsNew(n)
  BY DEF OperatorInv, WatchesOK
<1>3. /\ Len(watch[n]) \in Nat /\ Len(watch[n]) >= 1 /\ Head(watch[n]) = watch[n][1]
      /\ Len(Tail(watch[n])) = Len(watch[n]) - 1
      /\ \A i \in 1..Len(Tail(watch[n])) : Tail(watch[n])[i] = watch[n][i + 1]
      /\ Tail(watch[n]) = <<>> <=> Len(watch[n]) = 1
  BY <1>1, TailFacts
<1>4. Head(watch[n]) # None /\ (objCache[n] = None => Head(watch[n]).cond = "NoCond")
  BY <1>1, <1>2, <1>3 DEF WatchOK, FirstIsNew
<1>5. objCache'[n] = Head(watch[n]) /\ watch'[n] = Tail(watch[n])
  BY <1>1 DEF OperatorInv, TypeInv, DataTypeOK
<1>6. FirstIsNew(n)'
  BY <1>4, <1>5 DEF FirstIsNew
<1>7. WatchOK(n)'
  <2>1. watch'[n] = <<>> => objCache'[n] = obj'[n]
    BY <1>1, <1>2, <1>3, <1>5 DEF WatchOK
  <2>2. watch'[n] # <<>> => watch'[n][Len(watch'[n])] = obj'[n]
    BY <1>1, <1>2, <1>3, <1>5 DEF WatchOK
  <2>3. \A i \in 1..Len(watch'[n]) : watch'[n][i] # None
    BY <1>1, <1>2, <1>3, <1>5 DEF WatchOK
  <2>4. QED
    BY <2>1, <2>2, <2>3 DEF WatchOK
<1>8. ASSUME NEW m \in Nodes, m # n
      PROVE  WatchOK(m)' /\ FirstIsNew(m)'
  <2>1. UNCHANGED <<obj[m], watch[m], objCache[m]>>
    BY <1>1, <1>8 DEF OperatorInv, TypeInv, DataTypeOK
  <2>2. QED
    BY <2>1 DEF OperatorInv, WatchesOK, WatchOK, FirstIsNew
<1>9. QED
  BY <1>4, <1>6, <1>7, <1>8 DEF WatchesOK

\* An event, or nothing the decision depends on has changed, or the creation
\* of a state object has been seen.
LEMMA SyncDecision ==
  ASSUME OperatorInv, NEW n \in Nodes, SyncObj(n)
  PROVE  \/ queue' # {}
         \/ FirstStatusDue'
         \/ /\ FirstStatusDue' <=> FirstStatusDue
            /\ \A d \in BOOLEAN : aggregate(d, objCache', nodeCache) = aggregate(d, objCache, nodeCache)
<1> DEFINE h == Head(watch[n])
<1>1. h # None /\ (objCache[n] = None => h.cond = "NoCond") /\ objCache' = [objCache EXCEPT ![n] = h]
  BY SyncWatches DEF SyncObj
<1>2. objCache'[n] = h /\ \A m \in Nodes : m # n => objCache'[m] = objCache[m]
  BY <1>1 DEF OperatorInv, TypeInv, DataTypeOK
<1>3. CASE objCache[n] = None
  BY <1>1, <1>2, <1>3 DEF FirstStatusDue
<1>4. CASE objCache[n] # None /\ statusChangedPredicate(objCache[n], h)
  BY <1>4 DEF SyncObj
<1>5. CASE objCache[n] # None /\ ~statusChangedPredicate(objCache[n], h)
  <2>1. objCache[n].cond = h.cond /\ objCache[n].finalizer = h.finalizer
    BY <1>1, <1>5 DEF statusChangedPredicate
  <2> HIDE DEF h
  <2>2. \A m \in Nodes : /\ objCache'[m] = None <=> objCache[m] = None
                         /\ objCache'[m].cond = objCache[m].cond
                         /\ objCache'[m].finalizer <=> objCache[m].finalizer
    BY <1>1, <1>2, <1>5, <2>1
  <2>3. FirstStatusDue' <=> FirstStatusDue
    BY <2>2 DEF FirstStatusDue
  <2> DEFINE o2 == objCache'
  <2>4. \A m \in Nodes : /\ o2[m] = None <=> objCache[m] = None
                         /\ o2[m].cond = objCache[m].cond
                         /\ o2[m].finalizer <=> objCache[m].finalizer
    BY <2>2
  <2> HIDE DEF o2
  <2>5. ASSUME NEW d \in BOOLEAN
        PROVE  aggregate(d, o2, nodeCache) = aggregate(d, objCache, nodeCache)
    BY <2>4, AggregateSame
  <2>6. QED
    BY <2>3, <2>5 DEF o2
<1>6. QED
  BY <1>3, <1>4, <1>5

LEMMA SyncInv ==
  ASSUME OperatorInv, NEW n \in Nodes, SyncObj(n)
  PROVE  OperatorInv'
<1>1. TypeInv' /\ WatchesOK'
  BY SyncWatches, CacheType DEF OperatorInv, CacheStep
<1>2. UNCHANGED <<app, appCache, nodes, nodeCache, pc, req, copy, verdict>>
  BY Zenon DEF SyncObj, recVars
<1>3. BirthOK'
  BY <1>2, Zenon DEF SyncObj, BirthOK, OperatorInv
<1>4. MarksStay' /\ nodeCache' = nodes'
  BY <1>2 DEF MarksStay, OperatorInv
<1>5. queue' = queue \/ queue' = queue \cup {n}
  BY DEF SyncObj
<1>6. RequestsOK'
  <2>1. \A m \in Nodes : objCache[m] # None => objCache'[m] # None
    BY SyncWatches DEF SyncObj, OperatorInv, TypeInv, DataTypeOK
  <2>2. objCache'[n] # None
    BY SyncWatches DEF SyncObj, OperatorInv, TypeInv, DataTypeOK
  <2>3. QED
    BY <1>2, <1>5, <2>1, <2>2 DEF RequestsOK, OperatorInv, LoopOK
<1>7. CopyOK'
  BY <1>2, <1>5 DEF CopyOK, OperatorInv, LoopOK
<1>8. VerdictOK' /\ RestOK'
  <2>1. CASE queue' # {} \/ FirstStatusDue'
    <3>1. CASE queue' # {}
      BY <3>1 DEF VerdictOK, RestOK
    <3>2. CASE FirstStatusDue' /\ queue' = {}
      <4>1. queue = {}
        BY <1>5, <3>2
      <4>2. QED
        BY <1>2, <3>2, <4>1 DEF VerdictOK, RestOK, OperatorInv, LoopOK
    <3>3. QED
      BY <2>1, <3>1, <3>2
  <2>2. CASE /\ queue' = {} /\ (FirstStatusDue' <=> FirstStatusDue)
             /\ \A d \in BOOLEAN : aggregate(d, objCache', nodeCache) = aggregate(d, objCache, nodeCache)
    <3>1. queue = {}
      BY <1>5, <2>2
    <3>2. \A a \in AppObj : a.deleting \in BOOLEAN
      BY DEF AppObj
    <3>3. ASSUME pc # "idle"
          PROVE  aggregate(copy.deleting, objCache', nodeCache) = aggregate(copy.deleting, objCache, nodeCache)
      BY <2>2, <3>2, <3>3 DEF OperatorInv, TypeInv, LocalTypeOK
    <3>4. ASSUME app # None
          PROVE  aggregate(app.deleting, objCache', nodeCache) = aggregate(app.deleting, objCache, nodeCache)
      BY <2>2, <3>2, <3>4 DEF OperatorInv, TypeInv, DataTypeOK
    <3>5. VerdictOK'
      BY <1>2, <2>2, <3>1, <3>3 DEF VerdictOK, OperatorInv, LoopOK
    <3>6. RestOK'
      BY <1>2, <2>2, <3>1, <3>4 DEF RestOK, OperatorInv, LoopOK
    <3>7. QED
      BY <3>5, <3>6
  <2>3. QED
    BY <2>1, <2>2, SyncDecision
<1>9. QED
  BY <1>1, <1>3, <1>4, <1>6, <1>7, <1>8 DEF OperatorInv, LoopOK

LEMMA CacheInv ==
  ASSUME "relist" \notin Faults, OperatorInv, CacheStep
  PROVE  OperatorInv'
<1>1. CASE SyncApp \/ Resync
  <2>1. /\ UNCHANGED <<app, obj, watch, objCache, nodes, nodeCache, pc, req, copy, verdict>>
        /\ queue' = queue \cup {App} /\ (appCache' = app \/ appCache' = appCache)
    BY <1>1 DEF SyncApp, Resync, apiVars, cacheVars, recVars
  <2>2. BirthOK'
    BY <1>1, <2>1, Zenon DEF SyncApp, Resync, apiVars, BirthOK, OperatorInv
  <2>3. MarksStay' /\ nodeCache' = nodes'
    BY <2>1 DEF MarksStay, OperatorInv
  <2>4. WatchesOK'
    BY <2>1 DEF WatchesOK, WatchOK, FirstIsNew, OperatorInv
  <2>5. RequestsOK'
    BY <2>1, BpfOperatorAssumption DEF RequestsOK, LoopOK, OperatorInv
  <2>6. CopyOK' /\ VerdictOK' /\ RestOK'
    BY <2>1 DEF CopyOK, VerdictOK, RestOK, LoopOK, OperatorInv
  <2>7. QED
    BY <1>1, <2>2, <2>3, <2>4, <2>5, <2>6, CacheType DEF OperatorInv, LoopOK, CacheStep
<1>2. CASE SyncNodes
  BY <1>2 DEF SyncNodes, OperatorInv
<1>3. CASE Crash
  <2>1. /\ appCache' = app /\ app' = app /\ objCache' = obj /\ obj' = obj /\ nodeCache' = nodes /\ nodes' = nodes
        /\ watch' = [n \in Nodes |-> <<>>] /\ pc' = "idle" /\ req' = None
        /\ queue' = IF app = None THEN {} ELSE {App}
    BY <1>3 DEF Crash, Return
  <2>2. BirthOK'
    BY <1>3, <2>1, Zenon DEF Crash, BirthOK, OperatorInv
  <2>3. MarksStay' /\ nodeCache' = nodes'
    BY <2>1 DEF MarksStay
  <2>4. WatchesOK'
    BY <2>1 DEF WatchesOK, WatchOK, FirstIsNew
  <2>5. LoopOK'
    BY <2>1, BpfOperatorAssumption DEF LoopOK, RequestsOK, CopyOK, VerdictOK, RestOK
  <2>6. QED
    BY <1>3, <2>2, <2>3, <2>4, <2>5, CacheType DEF OperatorInv, CacheStep
<1>4. ASSUME NEW n \in Nodes, Relist(n)
      PROVE  FALSE
  BY <1>4 DEF Relist, Fault
<1>5. QED
  BY <1>1, <1>2, <1>3, <1>4, SyncInv DEF CacheStep

\* What the user and the agents leave alone.
LEMMA LoopStays ==
  ASSUME OperatorInv, UNCHANGED <<objCache, appCache, nodeCache, queue, pc, req, copy, verdict>>,
         appCache = app' => app' = app \/ app' = None
  PROVE  LoopOK'
<1>1. FirstStatusDue' <=> FirstStatusDue
  BY DEF FirstStatusDue
<1>2. RequestsOK' /\ CopyOK' /\ VerdictOK'
  BY <1>1 DEF RequestsOK, CopyOK, VerdictOK, LoopOK, OperatorInv
<1>3. RestOK'
  BY <1>1 DEF RestOK, LoopOK, OperatorInv
<1>4. QED
  BY <1>2, <1>3 DEF LoopOK

LEMMA AppendFacts ==
  ASSUME NEW S, NEW w \in Seq(S), NEW e \in S
  PROVE  /\ Append(w, e) # <<>> /\ Len(Append(w, e)) = Len(w) + 1 /\ Append(w, e)[Len(w) + 1] = e
         /\ Len(w) \in Nat /\ \A i \in 1..Len(w) : Append(w, e)[i] = w[i]
         /\ w = <<>> => Head(Append(w, e)) = e
         /\ w # <<>> => Head(Append(w, e)) = Head(w)
<1>1. /\ Len(w) \in Nat /\ Append(w, e) \in Seq(S) /\ Len(Append(w, e)) = Len(w) + 1
      /\ Append(w, e)[Len(w) + 1] = e /\ \A i \in 1..Len(w) : Append(w, e)[i] = w[i]
  OBVIOUS
<1>2. Append(w, e) # <<>> /\ Head(Append(w, e)) = Append(w, e)[1]
  BY <1>1
<1>3. w # <<>> => Len(w) >= 1 /\ Head(w) = w[1]
  OBVIOUS
<1>4. w = <<>> => Len(w) = 0
  OBVIOUS
<1>5. QED
  BY <1>1, <1>2, <1>3, <1>4

\* A new version at the end of the watch.
LEMMA WriteWatches ==
  ASSUME OperatorInv, NEW n \in Nodes, AgentWrite(n)
  PROVE  WatchesOK'
<1>1. PICK o \in Agents!Obj : /\ obj' = [obj EXCEPT ![n] = o] /\ ~o.deleting
                              /\ obj[n] = None => o.cond = "NoCond"
  BY AgentWriteEffect DEF OperatorInv, TypeInv
<1>2. Watched(n)
  BY DEF AgentWrite, AgentCreate, AgentInit, AgentUnload, AgentRelease, AgentReport
<1>3. o # None /\ obj'[n] = o
  BY <1>1, NoneAssumption DEF OperatorInv, TypeInv, DataTypeOK
<1>4. objCache' = objCache /\ watch' = [watch EXCEPT ![n] = Append(watch[n], o)]
  BY <1>2, <1>3 DEF Watched, cacheVars
<1>5. watch'[n] = Append(watch[n], o) /\ watch[n] \in Seq(Agents!Obj \cup {None})
  BY <1>4 DEF OperatorInv, TypeInv, DataTypeOK
<1> DEFINE w == watch[n]
<1>6. /\ Append(w, o) # <<>> /\ Len(Append(w, o)) = Len(w) + 1 /\ Append(w, o)[Len(w) + 1] = o
      /\ Len(w) \in Nat /\ \A i \in 1..Len(w) : Append(w, o)[i] = w[i]
      /\ w = <<>> => Head(Append(w, o)) = o
      /\ w # <<>> => Head(Append(w, o)) = Head(w)
  BY <1>5, AppendFacts
<1>7. WatchOK(n) /\ FirstIsNew(n)
  BY DEF OperatorInv, WatchesOK
<1>8. WatchOK(n)'
  <2>1. \A i \in 1..Len(watch'[n]) : watch'[n][i] # None
    BY <1>3, <1>5, <1>6, <1>7 DEF WatchOK
  <2>2. watch'[n] # <<>> /\ watch'[n][Len(watch'[n])] = obj'[n]
    BY <1>3, <1>5, <1>6
  <2>3. QED
    BY <2>1, <2>2 DEF WatchOK
<1>9. FirstIsNew(n)'
  <2>1. CASE w = <<>>
    BY <1>1, <1>4, <1>5, <1>6, <1>7, <2>1 DEF FirstIsNew, WatchOK
  <2>2. CASE w # <<>>
    BY <1>4, <1>5, <1>6, <1>7, <2>2 DEF FirstIsNew
  <2>3. QED
    BY <2>1, <2>2
<1>10. ASSUME NEW m \in Nodes, m # n
       PROVE  WatchOK(m)' /\ FirstIsNew(m)'
  <2>1. UNCHANGED <<obj[m], watch[m], objCache[m]>>
    BY <1>1, <1>4, <1>10 DEF OperatorInv, TypeInv, DataTypeOK
  <2>2. QED
    BY <2>1 DEF OperatorInv, WatchesOK, WatchOK, FirstIsNew
<1>11. QED
  BY <1>8, <1>9, <1>10 DEF WatchesOK

LEMMA WorldInv ==
  ASSUME "nodes" \notin Faults, OperatorInv, WorldStep
  PROVE  OperatorInv'
<1> SUFFICES BirthOK' /\ MarksStay' /\ nodeCache' = nodes' /\ WatchesOK' /\ LoopOK'
  BY WorldType DEF OperatorInv
<1>1. CASE UserCreate
  <2>1. app = None /\ appCache = None
    BY <1>1, Zenon DEF UserCreate, OperatorInv, BirthOK
  <2>2. app' # None
    <3>1. [finalizer |-> FALSE, deleting |-> FALSE, cond |-> "NoCond"] \in AppObj
      BY DEF AppObj
    <3>2. QED
      BY <1>1, <3>1, NoneAssumption DEF UserCreate
  <2>3. UNCHANGED <<obj, watch, nodes, objCache, appCache, nodeCache, queue, pc, req, copy, verdict>>
    BY <1>1 DEF UserCreate, cacheVars, recVars
  <2>4. BirthOK'
    BY <1>1, Zenon DEF UserCreate, BirthOK
  <2>5. MarksStay' /\ nodeCache' = nodes' /\ WatchesOK'
    BY <2>1, <2>3 DEF MarksStay, WatchesOK, WatchOK, FirstIsNew, OperatorInv
  <2>6. LoopOK'
    BY <2>1, <2>2, <2>3, LoopStays
  <2>7. QED
    BY <2>4, <2>5, <2>6
<1>2. CASE UserDelete
  <2>1. UNCHANGED <<obj, watch, nodes, objCache, appCache, nodeCache, queue, pc, req, copy, verdict>>
    BY <1>2 DEF UserDelete, cacheVars, recVars
  <2>2. app \in AppObj /\ app # None /\ ~app.deleting
    BY <1>2 DEF UserDelete, OperatorInv, TypeInv, DataTypeOK
  <2>3. app' = None \/ (app'.deleting /\ app'.finalizer = app.finalizer)
    BY <1>2, <2>2 DEF UserDelete, AppObj
  <2>4. BirthOK'
    BY <1>2, <2>1, <2>2, Zenon DEF UserDelete, BirthOK, OperatorInv
  <2>5. MarksStay'
    BY <2>1, <2>2, <2>3, Zenon DEF MarksStay, OperatorInv
  <2>6. nodeCache' = nodes' /\ WatchesOK'
    BY <2>1 DEF WatchesOK, WatchOK, FirstIsNew, OperatorInv
  <2>7. appCache = app' => app' = None
    BY <2>2, <2>3, Zenon DEF MarksStay, OperatorInv
  <2>8. LoopOK'
    BY <2>1, <2>7, LoopStays
  <2>9. QED
    BY <2>4, <2>5, <2>6, <2>8
<1>3. ASSUME NEW n \in Nodes, AgentList(n) \/ AgentWrite(n)
      PROVE  BirthOK' /\ MarksStay' /\ nodeCache' = nodes' /\ WatchesOK' /\ LoopOK'
  <2>1. UNCHANGED <<app, nodes, objCache, appCache, nodeCache, queue, pc, req, copy, verdict>>
    BY <1>3, Zenon
       DEF AgentList, AgentWrite, AgentCreate, AgentInit, AgentUnload, AgentRelease, AgentReport, Watched,
           apiVars, cacheVars, recVars
  <2>2. BirthOK'
    BY <1>3, <2>1, Zenon
       DEF AgentList, AgentWrite, AgentCreate, AgentInit, AgentUnload, AgentRelease, AgentReport, Watched,
           apiVars, BirthOK, OperatorInv
  <2>3. MarksStay' /\ nodeCache' = nodes' /\ LoopOK'
    BY <2>1, LoopStays DEF MarksStay, OperatorInv
  <2>4. WatchesOK'
    <3>1. CASE AgentList(n)
      BY <2>1, <3>1 DEF AgentList, apiVars, WatchesOK, WatchOK, FirstIsNew, OperatorInv
    <3>2. QED
      BY <1>3, <3>1, WriteWatches
  <2>5. QED
    BY <2>2, <2>3, <2>4
<1>4. ASSUME NEW n \in Nodes, NodeChanges(n)
      PROVE  FALSE
  BY <1>4 DEF NodeChanges, Fault
<1>5. QED
  BY <1>1, <1>2, <1>3, <1>4 DEF WorldStep

LEMMA OperatorInductive ==
  ASSUME "relist" \notin Faults, "nodes" \notin Faults, OperatorInv, [Next]_vars
  PROVE  OperatorInv'
<1>1. CASE UNCHANGED vars
  <2>1. UNCHANGED <<app, appCache, obj, watch, objCache, nodes, nodeCache, queue, pc, req, copy, verdict>>
    BY <1>1 DEF vars, apiVars, cacheVars, recVars
  <2>2. BirthOK'
    BY <1>1, <2>1, Zenon DEF vars, apiVars, BirthOK, OperatorInv
  <2>3. MarksStay' /\ nodeCache' = nodes' /\ WatchesOK' /\ LoopOK'
    BY <2>1, LoopStays DEF MarksStay, WatchesOK, WatchOK, FirstIsNew, OperatorInv
  <2>4. QED
    BY <2>2, <2>3, TypeInductive DEF OperatorInv
<1>2. QED
  BY <1>1, StepKinds, ReconcileInv, CacheInv, WorldInv

\* As long as no watch breaks and no node joins or leaves, and whatever writes
\* fail and however often the operator restarts, an operator at rest has told
\* the truth: no event it needs is filtered out by statusChangedPredicate, used
\* up too early or lost with a failed write, although creations of state objects
\* and changes of nodes are no events for it (Reconcile,
\* reconcileBpfApplication, updateStatus).
THEOREM RestingOperatorIsRight ==
  ASSUME "relist" \notin Faults, "nodes" \notin Faults
  PROVE  Spec => []RestingStatusIsTrue
<1>1. Init => OperatorInv
  BY InitOperatorInv
<1>2. OperatorInv /\ [Next]_vars => OperatorInv'
  BY OperatorInductive
<1>3. OperatorInv => RestingStatusIsTrue
  BY RestIsTrue
<1>4. QED
  BY <1>1, <1>2, <1>3, PTL DEF Spec
=============================================================================

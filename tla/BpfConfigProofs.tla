--------------------------- MODULE BpfConfigProofs ---------------------------
(***************************************************************************)
(* Proofs about BpfConfig, for every set of steps and of namespaces, on    *)
(* every platform and whatever fails.                                      *)
(***************************************************************************)
EXTENDS BpfConfig, TLAPS

(***************************************************************************)
(* The inductive invariant.                                                *)
(***************************************************************************)
PlatformTypeOK == isOpenshift \in BOOLEAN /\ hasMonitoring \in BOOLEAN /\ queued \in BOOLEAN

DataTypeOK ==
  /\ config \in ConfigObj \cup {None} /\ configCache \in ConfigObj \cup {None}
  /\ res \in [Resources -> Deployment \cup {None}] /\ resCache \in [Resources -> Deployment \cup {None}]
  /\ news \subseteq Resources
  /\ created \in Nat /\ edits \in Nat /\ faults \in Nat

LocalTypeOK ==
  /\ pc \in {"starting", "idle", "handleDeletion", "addFinalizer", "steps"}
  /\ copy \in ConfigObj \cup {None} /\ (pc \notin {"starting", "idle"} => copy # None)
  /\ todo \subseteq Kept

\* The namespaces stay, labelled or not.
NamespacesStay ==
  \A o \in Resources \ Owned : res[o] # None /\ resCache[o] # None

TypeInv == DataTypeOK /\ LocalTypeOK /\ NamespacesStay

\* A Config carries the number of one of the incarnations so far: never that
\* of an object without an owner, never one that is still to come.
UidOK(c) == c # None => c.uid # NoOwner /\ c.uid <= created

UidsOK == UidOK(config) /\ UidOK(configCache) /\ UidOK(copy)

\* No owner reference, or no object at all.
Unowned(v) == v = None \/ v.owner = NoOwner

\* A change the cache does not show either is on its way as an event, or
\* concerns nobody, before and after.
CacheFresh ==
  pc # "starting" =>
    \A o \in Owned : o \in news \/ resCache[o] = res[o] \/ (Unowned(resCache[o]) /\ Unowned(res[o]))

\* Reconcile() works on the Config of the cache, or a request is queued; it
\* goes where the Config it works on sends it.
CopyOK ==
  /\ pc \notin {"starting", "idle"} /\ ~queued => copy = configCache
  /\ pc = "addFinalizer" => ~copy.finalizer
  /\ pc = "handleDeletion" => copy.deleting
  /\ pc = "steps" => copy.finalizer /\ ~copy.deleting

\* With these objects in the cache and these changes under way, object o needs
\* no write on behalf of Config c, or an event of it is due.
Settled(o, c, cache, new) ==
  \/ o \in c.overrides
  \/ o \in new
  \/ cache[o] # None /\ ~needsUpdate(cache[o], desired(o[1], c))

StepDone(r, c, cache, new) == \A o \in Owned : o = Object(r, c.ns) => Settled(o, c, cache, new)

\* The same for the annotation of the agent metrics service.
AnnotationDone(c, cache, new) ==
  \A o \in Owned : o = Object("agentService", c.ns) =>
    \/ o \in c.overrides
    \/ o \in new
    \/ cache[o] # None /\ cache[o].annotated

\* What the steps of a plan that are not ahead any more have achieved.
Achieved(plan, ahead, c, cache, new) ==
  /\ \A r \in plan \ ahead : StepDone(r, c, cache, new)
  /\ "annotation" \in plan \ ahead /\ "agentService" \in plan =>
       "agentService" \notin ahead /\ AnnotationDone(c, cache, new)

StepsOK == pc = "steps" /\ ~queued => Achieved(Plan, todo, copy, resCache, news)

\* Config c has been overtaken for good by what there is now: it is gone, or
\* another one has taken its place, or it has got its finalizer.
Outdated(c, now) ==
  \/ now = None \/ now.uid # c.uid
  \/ now.finalizer /\ ~c.finalizer

\* What Config asks for is deployed, or an event is on its way.
RestOK ==
  pc = "idle" /\ ~queued /\ configCache # None =>
    \/ Outdated(configCache, config)
    \/ /\ configCache.finalizer /\ ~configCache.deleting
       /\ Achieved(Plan, {}, configCache, resCache, news)

ConfigInv == TypeInv /\ UidsOK /\ CacheFresh /\ CopyOK /\ StepsOK /\ RestOK

(***************************************************************************)
(* The actions in groups.                                                  *)
(***************************************************************************)
StartStep == ensureDefaultConfig \/ ensureDefaultConfigFails \/ Crash

ConfigStep ==
  \/ ReconcileGone \/ Reconcile \/ ReconcileDone
  \/ handleDeletion \/ addFinalizer \/ configUpdateFails

DeployStep ==
  \/ annotationSkips \/ namespaceSkips
  \/ \E o \in Owned : \/ assureResourceSkips(o) \/ assureResource(o) \/ assureResourceFails(o)
                      \/ reconcileAgentMetricsServiceAnnotation(o) \/ annotationFails(o)
  \/ \E o \in Resources : reconcileNamespace(o) \/ namespaceFails(o)

WatchStep == SyncConfig \/ Resync \/ \E r \in Kept : SyncResource(r)

UserStep ==
  \/ UserCreate \/ UserDelete \/ UserEdit
  \/ \E n \in Namespaces : UserMoves(n)

ObjectStep ==
  \/ \E o \in Resources : Tamper(o)
  \/ \E o \in Owned : GarbageCollect(o)

LEMMA StepKinds ==
  ASSUME [Next]_vars
  PROVE  \/ StartStep \/ ConfigStep \/ DeployStep \/ WatchStep \/ UserStep \/ ObjectStep
         \/ UNCHANGED vars
BY Zenon DEF Next, ReconcileStep, StartStep, ConfigStep, DeployStep, WatchStep, UserStep, ObjectStep

(***************************************************************************)
(* Typing.                                                                 *)
(***************************************************************************)
\* A step names its object.
LEMMA ObjectFacts ==
  /\ \A o \in Resources : o[1] \in Kept /\ o[1] # "annotation"
  /\ \A r, n : Object(r, n)[1] = r
  /\ Owned \subseteq Resources /\ \A o \in Owned : o[1] # "namespace"
BY DEF Resources, Object, Owned

LEMMA VersionType ==
  ASSUME NEW c \in ConfigObj, NEW r
  PROVE  desired(r, c) \in Deployment
<1>1. c.spec \in 1..2 /\ c.uid \in Nat
  BY DEF ConfigObj
<1>2. Version(r, c) \in 0..2
  BY <1>1 DEF Version
<1>3. QED
  BY <1>1, <1>2 DEF desired, Deployment

LEMMA PutType ==
  ASSUME DataTypeOK, NamespacesStay, NEW o \in Resources, NEW v \in Deployment \cup {None},
         o \notin Owned => v # None, Put(o, v), resCache' = resCache
  PROVE  /\ res' \in [Resources -> Deployment \cup {None}] /\ news' \subseteq Resources
         /\ NamespacesStay'
<1>1. res' = [res EXCEPT ![o] = v] /\ res' \in [Resources -> Deployment \cup {None}]
  BY DEF Put, DataTypeOK
<1>2. news' \subseteq Resources
  BY DEF Put, DataTypeOK
<1>3. NamespacesStay'
  BY <1>1 DEF NamespacesStay, DataTypeOK
<1>4. QED
  BY <1>1, <1>2, <1>3

LEMMA UnlabelledType == Unlabelled \in Deployment /\ Unlabelled # None
<1>1. Unlabelled \in Deployment
  BY DEF Unlabelled, Deployment, NoOwner
<1>2. QED
  BY <1>1, NoneAssumption

LEMMA InitType == Init => TypeInv
<1> SUFFICES ASSUME Init PROVE TypeInv
  OBVIOUS
<1>1. Unlabelled \in Deployment /\ Unlabelled # None
  BY UnlabelledType
<1>2. NoObjects \in [Resources -> Deployment \cup {None}]
  BY <1>1 DEF NoObjects
<1>3. NamespacesStay
  BY <1>1 DEF Init, NamespacesStay, NoObjects, Owned
<1>4. DataTypeOK /\ LocalTypeOK
  BY <1>2 DEF Init, DataTypeOK, LocalTypeOK
<1>5. QED
  BY <1>3, <1>4 DEF TypeInv

LEMMA ReturnType ==
  ASSUME Return
  PROVE  LocalTypeOK'
BY DEF Return, LocalTypeOK

LEMMA NewConfigType ==
  ASSUME created \in Nat
  PROVE  NewConfig \in ConfigObj /\ NewConfig # None /\ NewConfig.uid = created + 1
<1>1. NewConfig \in ConfigObj
  BY BpfConfigAssumption DEF NewConfig, ConfigObj
<1>2. QED
  BY <1>1, NoneAssumption DEF NewConfig

LEMMA StartType ==
  ASSUME TypeInv, StartStep
  PROVE  TypeInv'
<1>1. CASE ensureDefaultConfig
  <2>1. config' \in ConfigObj \cup {None} /\ created' \in Nat
    BY <1>1, NewConfigType DEF ensureDefaultConfig, TypeInv, DataTypeOK
  <2>2. DataTypeOK' /\ NamespacesStay'
    BY <1>1, <2>1 DEF ensureDefaultConfig, StartManager, TypeInv, DataTypeOK, NamespacesStay
  <2>3. LocalTypeOK'
    BY <1>1, ReturnType DEF ensureDefaultConfig, StartManager
  <2>4. QED
    BY <2>2, <2>3 DEF TypeInv
<1>2. CASE ensureDefaultConfigFails
  BY <1>2 DEF ensureDefaultConfigFails, Fault, TypeInv, DataTypeOK, LocalTypeOK, NamespacesStay, objVars, recVars
<1>3. CASE Crash
  <2>1. Unlabelled \in Deployment /\ Unlabelled # None
    BY UnlabelledType
  <2>2. NoObjects \in [Resources -> Deployment \cup {None}] /\ \A o \in Resources \ Owned : NoObjects[o] # None
    BY <2>1 DEF NoObjects, Owned
  <2>3. DataTypeOK'
    BY <1>3, <2>2 DEF Crash, Fault, TypeInv, DataTypeOK
  <2>4. NamespacesStay'
    BY <1>3, <2>2 DEF Crash, TypeInv, NamespacesStay
  <2>5. LocalTypeOK'
    BY <1>3 DEF Crash, LocalTypeOK
  <2>6. QED
    BY <2>3, <2>4, <2>5 DEF TypeInv
<1>4. QED
  BY <1>1, <1>2, <1>3 DEF StartStep

LEMMA ConfigStepType ==
  ASSUME TypeInv, ConfigStep
  PROVE  TypeInv'
<1> USE DEF TypeInv, NamespacesStay, objVars
<1>1. CASE ReconcileGone
  BY <1>1 DEF ReconcileGone, DataTypeOK, LocalTypeOK, recVars
<1>2. CASE Reconcile
  <2>1. /\ copy' \in ConfigObj /\ copy' # None /\ pc' \in {"handleDeletion", "addFinalizer", "steps"}
        /\ todo' \in {Plan, {}}
    BY <1>2 DEF Reconcile, DataTypeOK
  <2>2. Plan \subseteq Kept
    BY DEF Plan
  <2>3. LocalTypeOK'
    BY <2>1, <2>2 DEF LocalTypeOK
  <2>4. QED
    BY <1>2, <2>3 DEF Reconcile, DataTypeOK
<1>3. CASE ReconcileDone
  BY <1>3, ReturnType DEF ReconcileDone, Done, DataTypeOK
<1>4. CASE handleDeletion
  BY <1>4, ReturnType DEF handleDeletion, Done, DataTypeOK
<1>5. CASE addFinalizer
  <2>1. config \in ConfigObj
    BY <1>5 DEF addFinalizer, DataTypeOK, LocalTypeOK
  <2>2. [config EXCEPT !.finalizer = TRUE] \in ConfigObj
    BY <2>1 DEF ConfigObj
  <2>3. QED
    BY <1>5, <2>2, ReturnType DEF addFinalizer, Done, DataTypeOK
<1>6. CASE configUpdateFails
  BY <1>6, ReturnType DEF configUpdateFails, ReturnError, Fault, DataTypeOK
<1>7. QED
  BY <1>1, <1>2, <1>3, <1>4, <1>5, <1>6 DEF ConfigStep

\* A step that is taken or skipped, and one that fails.
LEMMA NextStepType ==
  ASSUME LocalTypeOK, NEW r, NextStep(r)
  PROVE  LocalTypeOK'
BY DEF LocalTypeOK, NextStep

LEMMA DeployType ==
  ASSUME TypeInv, DeployStep
  PROVE  TypeInv'
<1>1. CASE \/ annotationSkips \/ namespaceSkips \/ \E o \in Owned : assureResourceSkips(o)
  <2>1. /\ UNCHANGED <<config, configCache, res, resCache, news, created, edits, faults>>
        /\ \E r : NextStep(r)
    BY <1>1 DEF annotationSkips, namespaceSkips, assureResourceSkips, objVars
  <2>2. LocalTypeOK'
    BY <2>1, NextStepType DEF TypeInv
  <2>3. QED
    BY <2>1, <2>2 DEF TypeInv, DataTypeOK, NamespacesStay
<1>2. CASE \/ \E o \in Owned : assureResourceFails(o) \/ annotationFails(o)
           \/ \E o \in Resources : namespaceFails(o)
  <2>1. /\ UNCHANGED <<config, configCache, res, resCache, news, created, edits>> /\ Return
        /\ (faults' = faults \/ faults' = faults + 1)
    BY <1>2 DEF assureResourceFails, annotationFails, namespaceFails, ReturnError, Fault, objVars
  <2>2. LocalTypeOK'
    BY <2>1, ReturnType
  <2>3. QED
    BY <2>1, <2>2 DEF TypeInv, DataTypeOK, NamespacesStay
<1>3. ASSUME NEW o \in Resources, NEW v \in Deployment, Put(o, v), \E r : NextStep(r),
             UNCHANGED <<config, configCache, resCache, created, edits, faults>>
      PROVE  TypeInv'
  <2>1. LocalTypeOK'
    BY <1>3, NextStepType DEF TypeInv
  <2>2. v # None
    BY NoneAssumption
  <2>3. /\ res' \in [Resources -> Deployment \cup {None}] /\ news' \subseteq Resources
        /\ NamespacesStay'
    BY <1>3, <2>2, PutType DEF TypeInv
  <2>4. QED
    BY <1>3, <2>1, <2>3 DEF TypeInv, DataTypeOK
<1>4. ASSUME NEW o \in Owned, assureResource(o)
      PROVE  TypeInv'
  <2>1. copy \in ConfigObj
    BY <1>4 DEF assureResource, MustWrite, AtObject, AtStep, TypeInv, LocalTypeOK
  <2>2. desired(o[1], copy) \in Deployment
    BY <2>1, VersionType
  <2>3. QED
    BY <1>3, <1>4, <2>2, ObjectFacts DEF assureResource
<1>5. ASSUME NEW o \in Owned, reconcileAgentMetricsServiceAnnotation(o)
      PROVE  TypeInv'
  <2>1. res[o] \in Deployment
    BY <1>5, ObjectFacts
       DEF reconcileAgentMetricsServiceAnnotation, AnnotationDue, Accepted, TypeInv, DataTypeOK
  <2>2. [res[o] EXCEPT !.annotated = TRUE] \in Deployment
    BY <2>1 DEF Deployment
  <2>3. QED
    BY <1>3, <1>5, <2>2, ObjectFacts DEF reconcileAgentMetricsServiceAnnotation
<1>6. ASSUME NEW o \in Resources, reconcileNamespace(o)
      PROVE  TypeInv'
  <2>1. res[o] \in Deployment
    BY <1>6 DEF reconcileNamespace, LabelsDue, TypeInv, NamespacesStay, DataTypeOK, Owned
  <2>2. [res[o] EXCEPT !.spec = 1] \in Deployment
    BY <2>1 DEF Deployment
  <2>3. QED
    BY <1>3, <1>6, <2>2 DEF reconcileNamespace
<1>7. QED
  BY <1>1, <1>2, <1>4, <1>5, <1>6 DEF DeployStep

LEMMA WatchType ==
  ASSUME TypeInv, WatchStep
  PROVE  TypeInv'
<1>1. CASE SyncConfig
  BY <1>1 DEF SyncConfig, TypeInv, DataTypeOK, LocalTypeOK, NamespacesStay, objVars, recVars
<1>2. CASE Resync
  BY <1>2 DEF Resync, TypeInv, DataTypeOK, LocalTypeOK, NamespacesStay, objVars, recVars
<1>3. ASSUME NEW r \in Kept, SyncResource(r)
      PROVE  TypeInv'
  <2>1. /\ resCache' \in [Resources -> Deployment \cup {None}]
        /\ \A o \in Resources : resCache'[o] \in {res[o], resCache[o]}
    BY <1>3 DEF SyncResource, TypeInv, DataTypeOK
  <2>2. news' \subseteq Resources
    BY <1>3 DEF SyncResource, TypeInv, DataTypeOK
  <2>3. UNCHANGED <<config, res, created, edits, configCache, pc, copy, todo, faults>>
    BY <1>3 DEF SyncResource, recVars
  <2>4. NamespacesStay'
    BY <2>1, <2>3 DEF TypeInv, NamespacesStay
  <2>5. QED
    BY <2>1, <2>2, <2>3, <2>4 DEF TypeInv, DataTypeOK, LocalTypeOK
<1>4. QED
  BY <1>1, <1>2, <1>3 DEF WatchStep

\* What users make of Config is a Config.
LEMMA UserConfigs ==
  ASSUME TypeInv, UserStep
  PROVE  /\ config' \in ConfigObj \cup {None}
         /\ UNCHANGED <<res, news, configCache, resCache, pc, copy, todo>>
         /\ created' \in Nat /\ edits' \in Nat /\ faults' \in Nat
         /\ created' \in {created, created + 1}
         /\ \/ config = None /\ config' = NewConfig /\ created' = created + 1
            \/ config \in ConfigObj /\ config' = None
            \/ /\ config \in ConfigObj /\ config' \in ConfigObj
               /\ config'.uid = config.uid /\ config'.finalizer = config.finalizer
<1>0. created \in Nat /\ edits \in Nat /\ faults \in Nat /\ config \in ConfigObj \cup {None}
  BY DEF TypeInv, DataTypeOK
<1>1. CASE UserCreate
  BY <1>0, <1>1, NewConfigType DEF UserCreate, recVars
<1>2. CASE UserDelete
  <2>1. config \in ConfigObj
    BY <1>0, <1>2 DEF UserDelete
  <2>2. /\ [config EXCEPT !.deleting = TRUE] \in ConfigObj
        /\ [config EXCEPT !.deleting = TRUE].uid = config.uid
        /\ [config EXCEPT !.deleting = TRUE].finalizer = config.finalizer
    BY <2>1 DEF ConfigObj
  <2>3. config' \in {[config EXCEPT !.deleting = TRUE], None}
    BY <1>2 DEF UserDelete
  <2>4. QED
    BY <1>0, <1>2, <2>1, <2>2, <2>3 DEF UserDelete, recVars
<1>3. CASE UserEdit
  <2>1. config \in ConfigObj /\ edits' = edits + 1
    BY <1>0, <1>3 DEF UserEdit, Edit
  <2>2. /\ [config EXCEPT !.spec = 3 - @] \in ConfigObj
        /\ [config EXCEPT !.spec = 3 - @].uid = config.uid
        /\ [config EXCEPT !.spec = 3 - @].finalizer = config.finalizer
    BY <2>1 DEF ConfigObj
  <2>3. ASSUME NEW s \in SUBSET Resources
        PROVE  /\ [config EXCEPT !.overrides = s] \in ConfigObj
               /\ [config EXCEPT !.overrides = s].uid = config.uid
               /\ [config EXCEPT !.overrides = s].finalizer = config.finalizer
    BY <2>1 DEF ConfigObj
  <2>4. config.overrides \in SUBSET Resources
    BY <2>1 DEF ConfigObj
  <2>5. ASSUME NEW o \in Owned
        PROVE  (IF o \in config.overrides THEN config.overrides \ {o} ELSE config.overrides \cup {o})
                 \in SUBSET Resources
    BY <2>4, ObjectFacts
  <2>6. \/ config' = [config EXCEPT !.spec = 3 - @]
        \/ \E o \in Owned :
             config' = [config EXCEPT !.overrides = IF o \in @ THEN @ \ {o} ELSE @ \cup {o}]
    BY <1>3 DEF UserEdit
  <2>7. config' \in ConfigObj /\ config'.uid = config.uid /\ config'.finalizer = config.finalizer
    BY <2>2, <2>3, <2>5, <2>6
  <2>8. QED
    BY <1>0, <1>3, <2>1, <2>7 DEF UserEdit, recVars
<1>4. ASSUME NEW n \in Namespaces, UserMoves(n)
      PROVE  /\ config \in ConfigObj /\ config' \in ConfigObj
             /\ config'.uid = config.uid /\ config'.finalizer = config.finalizer
             /\ created' = created + 1 /\ edits' = edits + 1 /\ faults' = faults + 1
             /\ UNCHANGED <<res, news, configCache, resCache, pc, copy, todo>>
  <2>1. config \in ConfigObj
    BY <1>0, <1>4 DEF UserMoves
  <2>2. /\ [config EXCEPT !.ns = n] \in ConfigObj
        /\ [config EXCEPT !.ns = n].uid = config.uid
        /\ [config EXCEPT !.ns = n].finalizer = config.finalizer
    BY <2>1 DEF ConfigObj
  <2>3. QED
    BY <1>4, <2>1, <2>2 DEF UserMoves, Edit, Fault, recVars
<1>5. QED
  BY <1>0, <1>1, <1>2, <1>3, <1>4 DEF UserStep

LEMMA UserType ==
  ASSUME TypeInv, UserStep
  PROVE  TypeInv'
BY UserConfigs DEF TypeInv, DataTypeOK, LocalTypeOK, NamespacesStay

\* What users and the garbage collector make of the objects.
LEMMA ObjectPuts ==
  ASSUME TypeInv, ObjectStep
  PROVE  /\ \E o \in Resources, v \in Deployment \cup {None} :
              (o \notin Owned => v # None) /\ Put(o, v)
         /\ edits' \in Nat
         /\ UNCHANGED <<isOpenshift, hasMonitoring, config, created, configCache, resCache, queued,
                       pc, copy, todo, faults>>
<1>1. ASSUME NEW o \in Resources, Tamper(o)
      PROVE  \E v \in Deployment \cup {None} : (o \notin Owned => v # None) /\ Put(o, v)
  <2>1. res[o] \in Deployment
    BY <1>1 DEF Tamper, TypeInv, DataTypeOK
  <2>2. [res[o] EXCEPT !.spec = 0] \in Deployment
    BY <2>1 DEF Deployment
  <2>3. [res[o] EXCEPT !.owner = NoOwner] \in Deployment
    BY <2>1 DEF Deployment, NoOwner
  <2>4. [res[o] EXCEPT !.annotated = FALSE] \in Deployment
    BY <2>1 DEF Deployment
  <2>5. \/ Put(o, [res[o] EXCEPT !.spec = 0])
        \/ Put(o, [res[o] EXCEPT !.owner = NoOwner])
        \/ o \in Owned /\ Put(o, None)
        \/ Put(o, [res[o] EXCEPT !.annotated = FALSE])
    BY <1>1, Zenon DEF Tamper
  <2>6. None \notin Deployment
    BY NoneAssumption
  <2>7. QED
    BY <2>2, <2>3, <2>4, <2>5, <2>6
<1>2. ASSUME NEW o \in Resources, Tamper(o)
      PROVE  /\ edits' = edits + 1
             /\ UNCHANGED <<isOpenshift, hasMonitoring, config, created, configCache, resCache, queued,
                           pc, copy, todo, faults>>
  BY <1>2, Zenon DEF Tamper, Edit, platform, recVars
<1>3. ASSUME NEW o \in Owned, GarbageCollect(o)
      PROVE  /\ o \in Resources /\ Put(o, None) /\ edits' = edits
             /\ UNCHANGED <<isOpenshift, hasMonitoring, config, created, configCache, resCache, queued,
                           pc, copy, todo, faults>>
  <2>1. o \in Resources
    BY ObjectFacts
  <2>2. QED
    BY <1>3, <2>1, Zenon DEF GarbageCollect, platform, recVars
<1>4. edits \in Nat
  BY DEF TypeInv, DataTypeOK
<1>5. CASE \E o \in Resources : Tamper(o)
  BY <1>1, <1>2, <1>4, <1>5
<1>6. CASE \E o \in Owned : GarbageCollect(o)
  BY <1>3, <1>4, <1>6
<1>7. QED
  BY <1>5, <1>6 DEF ObjectStep

LEMMA ObjectStepType ==
  ASSUME TypeInv, ObjectStep
  PROVE  TypeInv'
<1>1. PICK o \in Resources, v \in Deployment \cup {None} :
        (o \notin Owned => v # None) /\ Put(o, v)
  BY ObjectPuts
<1>2. /\ edits' \in Nat
      /\ UNCHANGED <<config, created, configCache, resCache, pc, copy, todo, faults>>
  BY ObjectPuts
<1>3. /\ res' \in [Resources -> Deployment \cup {None}] /\ news' \subseteq Resources
      /\ NamespacesStay'
  BY <1>1, <1>2, PutType DEF TypeInv
<1>4. QED
  BY <1>2, <1>3 DEF TypeInv, DataTypeOK, LocalTypeOK

LEMMA TypeInductive ==
  ASSUME TypeInv, [Next]_vars
  PROVE  TypeInv'
<1>1. CASE UNCHANGED vars
  BY <1>1 DEF vars, objVars, recVars, TypeInv, DataTypeOK, LocalTypeOK, NamespacesStay
<1>2. QED
  BY <1>1, StepKinds, StartType, ConfigStepType, DeployType, WatchType, UserType, ObjectStepType

(***************************************************************************)
(* The platform, and what is Boolean.                                      *)
(***************************************************************************)
\* The operator finds out about the platform once.
LEMMA PlatformStays ==
  ASSUME [Next]_vars
  PROVE  isOpenshift' = isOpenshift /\ hasMonitoring' = hasMonitoring
<1>1. CASE StartStep
  BY <1>1, Zenon DEF StartStep, ensureDefaultConfig, ensureDefaultConfigFails, Crash, platform
<1>2. CASE ConfigStep
  BY <1>2, Zenon DEF ConfigStep, ReconcileGone, Reconcile, ReconcileDone, handleDeletion, addFinalizer,
                     configUpdateFails, platform
<1>3. CASE DeployStep
  BY <1>3, Zenon DEF DeployStep, annotationSkips, namespaceSkips, assureResourceSkips, assureResource,
                     assureResourceFails, reconcileAgentMetricsServiceAnnotation, annotationFails,
                     reconcileNamespace, namespaceFails, platform
<1>4. CASE WatchStep
  BY <1>4, Zenon DEF WatchStep, SyncConfig, Resync, SyncResource, platform
<1>5. CASE UserStep
  BY <1>5, Zenon DEF UserStep, UserCreate, UserDelete, UserEdit, UserMoves, platform
<1>6. CASE ObjectStep
  BY <1>6, Zenon DEF ObjectStep, Tamper, GarbageCollect, platform
<1>7. CASE UNCHANGED vars
  BY <1>7, Zenon DEF vars, platform
<1>8. QED
  BY <1>1, <1>2, <1>3, <1>4, <1>5, <1>6, <1>7, StepKinds, Zenon

LEMMA QueueType ==
  ASSUME queued \in BOOLEAN, [Next]_vars
  PROVE  queued' \in BOOLEAN
<1>1. ASSUME NEW r, SyncResource(r)
      PROVE  queued' \in BOOLEAN
  <2>1. queued' = (queued \/ \E o \in {o \in Resources : o[1] = r} \cap news : watched(o))
    BY <1>1, Zenon DEF SyncResource
  <2>2. QED
    BY <2>1, Zenon
<1>2. CASE StartStep
  <2>1. queued' \in {queued, TRUE, FALSE}
    BY <1>2, Zenon DEF StartStep, ensureDefaultConfig, StartManager, ensureDefaultConfigFails, Crash
  <2>2. QED
    BY <2>1, Zenon
<1>3. CASE ConfigStep
  <2>1. queued' \in {queued, TRUE, FALSE}
    BY <1>3, Zenon DEF ConfigStep, ReconcileGone, Reconcile, ReconcileDone, handleDeletion, addFinalizer,
                       configUpdateFails, Done, ReturnError
  <2>2. QED
    BY <2>1, Zenon
<1>4. CASE DeployStep
  <2>1. queued' \in {queued, TRUE, FALSE}
    BY <1>4, Zenon DEF DeployStep, annotationSkips, namespaceSkips, assureResourceSkips, assureResource,
                       assureResourceFails, reconcileAgentMetricsServiceAnnotation, annotationFails,
                       reconcileNamespace, namespaceFails, NextStep, ReturnError
  <2>2. QED
    BY <2>1, Zenon
<1>5. CASE SyncConfig \/ Resync
  BY <1>5, Zenon DEF SyncConfig, Resync
<1>6. CASE UserStep \/ ObjectStep
  BY <1>6, Zenon DEF UserStep, UserCreate, UserDelete, UserEdit, UserMoves, ObjectStep, Tamper, GarbageCollect
<1>7. CASE UNCHANGED vars
  BY <1>7, Zenon DEF vars
<1>8. QED
  BY <1>1, <1>2, <1>3, <1>4, <1>5, <1>6, <1>7, StepKinds, Zenon DEF WatchStep

\* Every variable of the Config reconciler keeps a value of its kind, and
\* Reconcile() has a Config to work on wherever it stands.
THEOREM ConfigTypeCorrect == Spec => []TypeOK
<1> DEFINE Inv == TypeInv /\ PlatformTypeOK
<1>1. Init => Inv
  <2>1. Init => PlatformTypeOK
    BY Zenon DEF Init, PlatformTypeOK
  <2>2. QED
    BY <2>1, InitType
<1>2. Inv /\ [Next]_vars => Inv'
  <2> SUFFICES ASSUME Inv, [Next]_vars PROVE Inv'
    OBVIOUS
  <2>1. TypeInv'
    BY TypeInductive
  <2>2. PlatformTypeOK'
    BY PlatformStays, QueueType, Zenon DEF PlatformTypeOK
  <2>3. QED
    BY <2>1, <2>2
<1>3. Inv => TypeOK
  BY Zenon DEF TypeOK, TypeInv, PlatformTypeOK, DataTypeOK, LocalTypeOK
<1>4. QED
  BY <1>1, <1>2, <1>3, PTL DEF Spec

(***************************************************************************)
(* What keeps the clauses of the invariant.                                *)
(***************************************************************************)
LEMMA PlanStays ==
  ASSUME [Next]_vars
  PROVE  Plan' = Plan
BY PlatformStays DEF Plan

\* A write of an object leaves the others alone, and takes no event away; a
\* change that concerns nobody turns an object without owner into another.
LEMMA PutFacts ==
  ASSUME TypeInv, NEW o \in Resources, NEW v \in Deployment \cup {None}, Put(o, v)
  PROVE  /\ news \subseteq news'
         /\ \A q \in Resources : q # o => res'[q] = res[q]
         /\ res'[o] = v
         /\ o \in Owned => o \in news' \/ (Unowned(res[o]) /\ Unowned(v))
         /\ v # None /\ v.owner # NoOwner => o \in news'
         /\ res[o] # None /\ res[o].owner # NoOwner => o \in news'
BY ObjectFacts DEF Put, Concerns, Unowned, TypeInv, DataTypeOK

LEMMA PutFresh ==
  ASSUME TypeInv, CacheFresh, NEW o \in Resources, NEW v \in Deployment \cup {None}, Put(o, v),
         resCache' = resCache, pc # "starting"
  PROVE  CacheFresh'
<1>1. /\ news \subseteq news'
      /\ \A q \in Resources : q # o => res'[q] = res[q]
      /\ res'[o] = v
      /\ o \in Owned => o \in news' \/ (Unowned(res[o]) /\ Unowned(v))
  BY PutFacts
<1>2. ASSUME NEW q \in Owned
      PROVE  q \in news' \/ resCache'[q] = res'[q] \/ (Unowned(resCache'[q]) /\ Unowned(res'[q]))
  <2>1. q \in Resources
    BY ObjectFacts
  <2>2. q \in news \/ resCache[q] = res[q] \/ (Unowned(resCache[q]) /\ Unowned(res[q]))
    BY DEF CacheFresh
  <2>3. QED
    BY <1>1, <2>1, <2>2
<1>3. QED
  BY <1>2 DEF CacheFresh, Unowned

\* What is achieved stays so when an object that was settled by its cached
\* version keeps that version, or an event of it comes up.
LEMMA AchievedStays ==
  ASSUME NEW plan, NEW ahead, NEW c, NEW cache, NEW new, NEW cache2, NEW new2,
         Achieved(plan, ahead, c, cache, new),
         \A o \in Owned : Settled(o, c, cache, new) =>
            o \in c.overrides \/ o \in new2 \/ (o \notin new /\ cache2[o] = cache[o])
  PROVE  Achieved(plan, ahead, c, cache2, new2)
<1>1. ASSUME NEW o \in Owned, Settled(o, c, cache, new)
      PROVE  Settled(o, c, cache2, new2)
  BY <1>1 DEF Settled
<1>2. \A r \in plan \ ahead : StepDone(r, c, cache2, new2)
  BY <1>1 DEF Achieved, StepDone
<1>3. ASSUME "annotation" \in plan \ ahead, "agentService" \in plan
      PROVE  "agentService" \notin ahead /\ AnnotationDone(c, cache2, new2)
  <2>1. "agentService" \notin ahead /\ AnnotationDone(c, cache, new)
    BY <1>3 DEF Achieved
  <2>2. ASSUME NEW o \in Owned, o = Object("agentService", c.ns)
        PROVE  o \in c.overrides \/ o \in new2 \/ (cache2[o] # None /\ cache2[o].annotated)
    <3>1. Settled(o, c, cache, new)
      BY <1>3, <2>1, <2>2 DEF Achieved, StepDone
    <3>2. o \in c.overrides \/ o \in new2 \/ (o \notin new /\ cache2[o] = cache[o])
      BY <3>1
    <3>3. o \in c.overrides \/ o \in new \/ (cache[o] # None /\ cache[o].annotated)
      BY <2>1, <2>2 DEF AnnotationDone
    <3>4. QED
      BY <3>2, <3>3
  <2>3. QED
    BY <2>1, <2>2 DEF AnnotationDone
<1>4. QED
  BY <1>2, <1>3 DEF Achieved

LEMMA AchievedGrows ==
  ASSUME NEW plan, NEW ahead, NEW c, NEW cache, NEW new, NEW new2,
         Achieved(plan, ahead, c, cache, new), new \subseteq new2
  PROVE  Achieved(plan, ahead, c, cache, new2)
<1>1. \A o \in Owned : Settled(o, c, cache, new) =>
        o \in c.overrides \/ o \in new2 \/ (o \notin new /\ cache[o] = cache[o])
  BY DEF Settled
<1>2. QED
  BY <1>1, AchievedStays

\* A watch that catches up without a request has shown nothing new about the
\* objects that are settled.
LEMMA SyncKeeps ==
  ASSUME TypeInv, CacheFresh, NEW r \in Kept, SyncResource(r), ~queued',
         NEW c \in ConfigObj, c.uid # NoOwner,
         NEW plan, NEW ahead, Achieved(plan, ahead, c, resCache, news)
  PROVE  Achieved(plan, ahead, c, resCache', news')
<1>1. \A o \in Owned : o \in Resources /\ watched(o)
  BY ObjectFacts DEF watched
<1>2. \A o \in Owned : o[1] = r => o \notin news
  BY <1>1, Zenon DEF SyncResource
<1>3. /\ pc # "starting" /\ news' = news \ {o \in Resources : o[1] = r}
      /\ resCache' = [o \in Resources |-> IF o[1] = r THEN res[o] ELSE resCache[o]]
  BY DEF SyncResource
<1>4. ASSUME NEW o \in Owned, Settled(o, c, resCache, news)
      PROVE  o \in c.overrides \/ o \in news' \/ (o \notin news /\ resCache'[o] = resCache[o])
  <2>1. CASE o[1] # r
    BY <1>1, <1>3, <2>1
  <2>2. CASE o[1] = r /\ o \notin c.overrides
    <3>1. o \notin news
      BY <1>2, <2>2
    <3>2. resCache[o] # None /\ resCache[o].owner = c.uid
      BY <1>4, <2>2, <3>1 DEF Settled, needsUpdate, desired
    <3>3. resCache[o] = res[o]
      BY <1>3, <3>1, <3>2 DEF CacheFresh, Unowned
    <3>4. QED
      BY <1>1, <1>3, <2>2, <3>1, <3>3
  <2>3. QED
    BY <2>1, <2>2
<1>5. QED
  BY <1>4, AchievedStays

(***************************************************************************)
(* The incarnations of Config.                                             *)
(***************************************************************************)
\* A Config comes from nowhere but from another copy of it, or is new.
LEMMA ConfigsMove ==
  ASSUME TypeInv, [Next]_vars
  PROVE  /\ created' \in {created, created + 1}
         /\ configCache' \in {configCache, config, config', None}
         /\ copy' \in {copy, configCache, None}
         /\ \/ config' \in {config, None}
            \/ config = None /\ config' = NewConfig /\ created' = created + 1
            \/ /\ config \in ConfigObj /\ config' \in ConfigObj /\ config'.uid = config.uid
               /\ config.finalizer => config'.finalizer
<1>1. CASE StartStep
  BY <1>1 DEF StartStep, ensureDefaultConfig, StartManager, Return, ensureDefaultConfigFails, Crash,
              objVars, recVars
<1>2. CASE addFinalizer
  <2>1. config \in ConfigObj
    BY <1>2 DEF addFinalizer, TypeInv, DataTypeOK, LocalTypeOK
  <2>2. /\ [config EXCEPT !.finalizer = TRUE] \in ConfigObj
        /\ [config EXCEPT !.finalizer = TRUE].uid = config.uid
        /\ [config EXCEPT !.finalizer = TRUE].finalizer
    BY <2>1 DEF ConfigObj
  <2>3. QED
    BY <1>2, <2>1, <2>2 DEF addFinalizer, Done, Return
<1>3. CASE ReconcileGone \/ Reconcile \/ ReconcileDone \/ handleDeletion \/ configUpdateFails
  BY <1>3 DEF ReconcileGone, Reconcile, ReconcileDone, handleDeletion, configUpdateFails, Done,
              ReturnError, Return, objVars, recVars
<1>4. CASE DeployStep
  BY <1>4 DEF DeployStep, annotationSkips, namespaceSkips, assureResourceSkips, assureResource,
              assureResourceFails, reconcileAgentMetricsServiceAnnotation, annotationFails,
              reconcileNamespace, namespaceFails, NextStep, ReturnError, Return, objVars
<1>5. CASE WatchStep
  BY <1>5 DEF WatchStep, SyncConfig, Resync, SyncResource, objVars, recVars
<1>6. CASE UserStep
  <2>1. /\ UNCHANGED <<configCache, copy>> /\ created' \in {created, created + 1}
        /\ \/ config = None /\ config' = NewConfig /\ created' = created + 1
           \/ config \in ConfigObj /\ config' = None
           \/ /\ config \in ConfigObj /\ config' \in ConfigObj
              /\ config'.uid = config.uid /\ config'.finalizer = config.finalizer
    BY <1>6, UserConfigs
  <2>2. QED
    BY <2>1
<1>7. CASE ObjectStep
  BY <1>7, ObjectPuts
<1>8. CASE UNCHANGED vars
  BY <1>8 DEF vars, objVars, recVars
<1>9. QED
  BY <1>1, <1>2, <1>3, <1>4, <1>5, <1>6, <1>7, <1>8, StepKinds DEF ConfigStep

LEMMA UidsInductive ==
  ASSUME TypeInv, UidsOK, [Next]_vars
  PROVE  UidsOK'
<1>1. /\ created \in Nat /\ created' \in {created, created + 1}
      /\ config \in ConfigObj \cup {None} /\ configCache \in ConfigObj \cup {None}
      /\ copy \in ConfigObj \cup {None}
  BY ConfigsMove DEF TypeInv, DataTypeOK, LocalTypeOK
<1>2. \A c \in ConfigObj : c.uid \in Nat
  BY DEF ConfigObj
<1>3. ASSUME NEW c \in ConfigObj \cup {None}, c # None => c.uid # NoOwner /\ c.uid <= created
      PROVE  c # None => c.uid # NoOwner /\ c.uid <= created'
  BY <1>1, <1>2, <1>3
<1>4. config' # None => config'.uid # NoOwner /\ config'.uid <= created'
  <2>1. CASE config' \in {config, None}
    BY <1>1, <1>3, <2>1 DEF UidsOK, UidOK
  <2>2. CASE config = None /\ config' = NewConfig /\ created' = created + 1
    BY <1>1, <2>2, NewConfigType DEF NoOwner
  <2>3. CASE config \in ConfigObj /\ config' \in ConfigObj /\ config'.uid = config.uid
    BY <1>1, <1>2, <2>3, NoneAssumption DEF UidsOK, UidOK
  <2>4. QED
    BY <2>1, <2>2, <2>3, ConfigsMove
<1>5. UidOK(config)' /\ UidOK(configCache)' /\ UidOK(copy)'
  <2>1. configCache' \in {configCache, config, config', None} /\ copy' \in {copy, configCache, None}
    BY ConfigsMove
  <2>2. QED
    BY <1>1, <1>3, <1>4, <2>1 DEF UidsOK, UidOK
<1>6. QED
  BY <1>5 DEF UidsOK

\* A Config that has been overtaken stays so.
LEMMA OutdatedStays ==
  ASSUME TypeInv, UidsOK, [Next]_vars, configCache \in ConfigObj, Outdated(configCache, config)
  PROVE  Outdated(configCache, config')
<1>1. configCache.uid \in Nat /\ configCache.uid <= created /\ created \in Nat
  BY NoneAssumption DEF TypeInv, DataTypeOK, UidsOK, UidOK, ConfigObj
<1>2. CASE config = None /\ config' = NewConfig /\ created' = created + 1
  <2>1. config'.uid = created + 1
    BY <1>1, <1>2, NewConfigType
  <2>2. QED
    BY <1>1, <2>1 DEF Outdated
<1>3. CASE config' \in {config, None}
  BY <1>3 DEF Outdated
<1>4. CASE /\ config \in ConfigObj /\ config' \in ConfigObj /\ config'.uid = config.uid
           /\ config.finalizer => config'.finalizer
  BY <1>4, NoneAssumption DEF Outdated
<1>5. QED
  BY <1>2, <1>3, <1>4, ConfigsMove

(***************************************************************************)
(* The clauses about the reconciler, group by group.                       *)
(***************************************************************************)
LoopInv == CacheFresh /\ CopyOK /\ StepsOK /\ RestOK

\* A request is queued: the rest is for the next reconcile to see to.
LEMMA QueuedIsEnough ==
  ASSUME queued', pc' = "idle", CacheFresh'
  PROVE  LoopInv'
BY DEF LoopInv, CopyOK, StepsOK, RestOK

\* Nothing the clause about the caches speaks of has changed.
LEMMA FreshStays ==
  ASSUME CacheFresh, pc # "starting", UNCHANGED <<res, resCache, news>>
  PROVE  CacheFresh'
BY DEF CacheFresh, Unowned

LEMMA InitLoop == Init => UidsOK /\ LoopInv
<1> SUFFICES ASSUME Init PROVE UidsOK /\ LoopInv
  OBVIOUS
<1>1. /\ config = None /\ configCache = None /\ copy = None /\ pc = "starting"
  BY DEF Init
<1>2. QED
  BY <1>1 DEF UidsOK, UidOK, LoopInv, CacheFresh, CopyOK, StepsOK, RestOK

LEMMA StartLoop ==
  ASSUME TypeInv, LoopInv, StartStep
  PROVE  LoopInv'
<1>1. CASE ensureDefaultConfig
  <2>1. resCache' = res /\ res' = res /\ pc' = "idle"
    BY <1>1 DEF ensureDefaultConfig, StartManager, Return
  <2>2. CacheFresh'
    BY <2>1 DEF CacheFresh
  <2>3. queued'
    BY <1>1, Zenon DEF ensureDefaultConfig, StartManager
  <2>4. QED
    BY <2>1, <2>2, <2>3, QueuedIsEnough
<1>2. CASE ensureDefaultConfigFails
  BY <1>2 DEF ensureDefaultConfigFails, recVars, LoopInv, CacheFresh, CopyOK, StepsOK, RestOK
<1>3. CASE Crash
  BY <1>3 DEF Crash, LoopInv, CacheFresh, CopyOK, StepsOK, RestOK
<1>4. QED
  BY <1>1, <1>2, <1>3 DEF StartStep

LEMMA ConfigStepLoop ==
  ASSUME TypeInv, UidsOK, LoopInv, ConfigStep, [Next]_vars
  PROVE  LoopInv'
<1>1. CASE ReconcileGone
  <2>1. UNCHANGED <<res, resCache, news, configCache, pc, copy, todo>> /\ pc = "idle" /\ configCache = None
    BY <1>1 DEF ReconcileGone, objVars, recVars
  <2>2. CacheFresh'
    BY <2>1, FreshStays DEF LoopInv
  <2>3. QED
    BY <2>1, <2>2 DEF LoopInv, CopyOK, StepsOK, RestOK
<1>2. CASE Reconcile
  <2>1. /\ UNCHANGED <<res, resCache, news, configCache>> /\ pc = "idle" /\ copy' = configCache
        /\ pc' = IF copy'.deleting THEN "handleDeletion"
                 ELSE IF ~copy'.finalizer THEN "addFinalizer" ELSE "steps"
        /\ todo' = IF pc' = "steps" THEN Plan ELSE {}
    BY <1>2 DEF Reconcile, objVars
  <2>2. CacheFresh'
    BY <2>1, FreshStays DEF LoopInv
  <2>3. CopyOK'
    BY <2>1 DEF CopyOK
  <2>4. StepsOK'
    <3>1. Achieved(Plan, Plan, copy', resCache', news')
      BY DEF Achieved
    <3>2. QED
      BY <2>1, <3>1, PlanStays DEF StepsOK
  <2>5. RestOK'
    BY <2>1 DEF RestOK
  <2>6. QED
    BY <2>2, <2>3, <2>4, <2>5 DEF LoopInv
<1>3. CASE ReconcileDone
  <2>1. /\ UNCHANGED <<res, resCache, news, config, configCache, queued>>
        /\ pc = "steps" /\ todo = {} /\ pc' = "idle"
    BY <1>3 DEF ReconcileDone, Done, Return, objVars
  <2>2. CacheFresh'
    BY <2>1, FreshStays DEF LoopInv
  <2>3. ASSUME ~queued
        PROVE  /\ configCache.finalizer /\ ~configCache.deleting
               /\ Achieved(Plan, {}, configCache, resCache, news)
    BY <2>1, <2>3 DEF LoopInv, CopyOK, StepsOK
  <2>4. RestOK'
    BY <2>1, <2>3, PlanStays DEF RestOK
  <2>5. QED
    BY <2>1, <2>2, <2>4 DEF LoopInv, CopyOK, StepsOK
<1>4. CASE handleDeletion
  <2>1. /\ UNCHANGED <<res, resCache, news, configCache, queued>>
        /\ pc = "handleDeletion" /\ pc' = "idle" /\ config' = None
    BY <1>4 DEF handleDeletion, Done, Return
  <2>2. CacheFresh'
    BY <2>1, FreshStays DEF LoopInv
  <2>3. Outdated(configCache', config')
    BY <2>1 DEF Outdated
  <2>4. QED
    BY <2>1, <2>2, <2>3 DEF LoopInv, CopyOK, StepsOK, RestOK
<1>5. CASE addFinalizer
  <2>1. /\ UNCHANGED <<res, resCache, news, configCache, queued>>
        /\ pc = "addFinalizer" /\ pc' = "idle" /\ config = copy
        /\ config' = [config EXCEPT !.finalizer = TRUE]
    BY <1>5 DEF addFinalizer, Done, Return
  <2>2. CacheFresh'
    BY <2>1, FreshStays DEF LoopInv
  <2>3. config \in ConfigObj /\ ~copy.finalizer
    BY <2>1 DEF TypeInv, LocalTypeOK, LoopInv, CopyOK
  <2>4. config'.finalizer
    BY <2>1, <2>3 DEF ConfigObj
  <2>5. ASSUME ~queued
        PROVE  Outdated(configCache', config')
    BY <2>1, <2>3, <2>4, <2>5 DEF LoopInv, CopyOK, Outdated
  <2>6. QED
    BY <2>1, <2>2, <2>5 DEF LoopInv, CopyOK, StepsOK, RestOK
<1>6. CASE configUpdateFails
  <2>1. UNCHANGED <<res, resCache, news>> /\ pc # "starting" /\ pc' = "idle"
    BY <1>6 DEF configUpdateFails, ReturnError, Return, objVars
  <2>2. queued'
    BY <1>6, Zenon DEF configUpdateFails, ReturnError
  <2>3. QED
    BY <2>1, <2>2, FreshStays, QueuedIsEnough DEF LoopInv
<1>7. QED
  BY <1>1, <1>2, <1>3, <1>4, <1>5, <1>6 DEF ConfigStep

\* One step further: what it was to achieve has been achieved.
LEMMA StepTaken ==
  ASSUME NEW plan, NEW ahead, NEW r, NEW c, NEW cache, NEW new,
         Achieved(plan, ahead, c, cache, new), StepDone(r, c, cache, new),
         r = "annotation" /\ "agentService" \in plan =>
           "agentService" \notin ahead /\ AnnotationDone(c, cache, new)
  PROVE  Achieved(plan, ahead \ {r}, c, cache, new)
BY DEF Achieved

LEMMA StepTakenLoop ==
  ASSUME LoopInv, [Next]_vars, NEW r, pc = "steps", NextStep(r),
         UNCHANGED <<configCache, resCache>>, CacheFresh', news \subseteq news',
         ~queued => /\ StepDone(r, copy, resCache, news')
                    /\ r = "annotation" /\ "agentService" \in Plan =>
                         "agentService" \notin todo /\ AnnotationDone(copy, resCache, news')
  PROVE  LoopInv'
<1>1. pc' = "steps" /\ copy' = copy /\ todo' = todo \ {r} /\ queued' = queued
  BY DEF NextStep
<1>2. CopyOK' /\ RestOK'
  BY <1>1 DEF LoopInv, CopyOK, RestOK
<1>3. StepsOK'
  <2>1. ASSUME ~queued
        PROVE  Achieved(Plan, todo \ {r}, copy, resCache, news')
    <3>1. Achieved(Plan, todo, copy, resCache, news')
      BY <2>1, AchievedGrows DEF LoopInv, StepsOK
    <3>2. QED
      BY <2>1, <3>1, StepTaken
  <2>2. QED
    BY <1>1, <2>1, PlanStays DEF StepsOK
<1>4. QED
  BY <1>2, <1>3 DEF LoopInv

\* The annotation comes after the service.
LEMMA ServiceFirst ==
  ASSUME AtStep("annotation")
  PROVE  "agentService" \notin todo
BY DEF AtStep, Order

LEMMA DeployLoop ==
  ASSUME TypeInv, UidsOK, LoopInv, DeployStep, [Next]_vars
  PROVE  LoopInv'
<1>1. ASSUME pc = "steps"
      PROVE  copy \in ConfigObj /\ copy # None /\ copy.uid # NoOwner
  BY <1>1 DEF TypeInv, LocalTypeOK, UidsOK, UidOK
\* The steps that write nothing.
<1>2. CASE annotationSkips
  <2>1. /\ AtStep("annotation") /\ pc = "steps" /\ NextStep("annotation")
        /\ UNCHANGED <<configCache, res, resCache, news>>
        /\ \A o \in Owned : ~AnnotationDue(o)
    BY <1>2 DEF annotationSkips, AtStep, objVars
  <2>2. StepDone("annotation", copy, resCache, news)
    BY ObjectFacts DEF StepDone
  <2>3. ASSUME ~queued, "agentService" \in Plan, NEW o \in Owned, o = Object("agentService", copy.ns)
        PROVE  o \in copy.overrides \/ o \in news \/ (resCache[o] # None /\ resCache[o].annotated)
    <3>1. Settled(o, copy, resCache, news)
      BY <2>1, <2>3, ServiceFirst DEF LoopInv, StepsOK, Achieved, StepDone
    <3>2. o \in copy.overrides \/ resCache[o] = None \/ resCache[o].annotated
      BY <2>1, <2>3, ObjectFacts DEF AnnotationDue, isOverridden
    <3>3. QED
      BY <3>1, <3>2 DEF Settled
  <2>4. ~queued /\ "agentService" \in Plan => AnnotationDone(copy, resCache, news)
    BY <2>3 DEF AnnotationDone
  <2>5. QED
    BY <2>1, <2>2, <2>4, ServiceFirst, FreshStays, StepTakenLoop DEF LoopInv
<1>3. CASE namespaceSkips
  <2>1. /\ pc = "steps" /\ NextStep("namespace") /\ UNCHANGED <<configCache, res, resCache, news>>
    BY <1>3 DEF namespaceSkips, AtStep, objVars
  <2>2. StepDone("namespace", copy, resCache, news)
    BY ObjectFacts DEF StepDone
  <2>3. QED
    BY <2>1, <2>2, FreshStays, StepTakenLoop DEF LoopInv
<1>4. ASSUME NEW o \in Owned, assureResourceSkips(o)
      PROVE  LoopInv'
  <2>1. /\ pc = "steps" /\ NextStep(o[1]) /\ UNCHANGED <<configCache, res, resCache, news>>
        /\ o = Object(o[1], copy.ns) /\ o[1] # "annotation"
    BY <1>4, ObjectFacts DEF assureResourceSkips, AtObject, AtStep, objVars
  <2>2. Settled(o, copy, resCache, news)
    BY <1>4 DEF assureResourceSkips, isOverridden, Settled
  <2>3. StepDone(o[1], copy, resCache, news)
    BY <2>1, <2>2 DEF StepDone
  <2>4. QED
    BY <2>1, <2>3, FreshStays, StepTakenLoop DEF LoopInv
\* The steps that write an object.
<1>5. ASSUME NEW o \in Owned, assureResource(o)
      PROVE  LoopInv'
  <2>1. /\ pc = "steps" /\ NextStep(o[1]) /\ UNCHANGED <<configCache, resCache>>
        /\ Put(o, desired(o[1], copy)) /\ o = Object(o[1], copy.ns)
        /\ o \in Resources /\ o[1] # "annotation"
    BY <1>5, ObjectFacts DEF assureResource, MustWrite, AtObject, AtStep
  <2>2. desired(o[1], copy) \in Deployment /\ desired(o[1], copy).owner = copy.uid
    BY <1>1, <2>1, VersionType DEF desired
  <2>3. news \subseteq news' /\ o \in news'
    BY <1>1, <2>1, <2>2, PutFacts, NoneAssumption
  <2>4. CacheFresh'
    BY <2>1, <2>2, PutFresh DEF LoopInv
  <2>5. StepDone(o[1], copy, resCache, news')
    BY <2>1, <2>3 DEF StepDone, Settled
  <2>6. QED
    BY <2>1, <2>3, <2>4, <2>5, StepTakenLoop
<1>6. ASSUME NEW o \in Owned, reconcileAgentMetricsServiceAnnotation(o)
      PROVE  LoopInv'
  <2> DEFINE v == [res[o] EXCEPT !.annotated = TRUE]
  <2>1. /\ AtStep("annotation") /\ pc = "steps" /\ NextStep("annotation")
        /\ UNCHANGED <<configCache, resCache>> /\ Put(o, v)
        /\ o = Object("agentService", copy.ns) /\ o \in Resources /\ o \notin copy.overrides
        /\ res[o] = resCache[o] /\ resCache[o] # None
    BY <1>6 DEF reconcileAgentMetricsServiceAnnotation, AnnotationDue, AtStep, Accepted, isOverridden
  <2>2. res[o] \in Deployment /\ v \in Deployment
    BY <2>1 DEF TypeInv, DataTypeOK, Deployment
  <2> HIDE DEF v
  <2>3. news \subseteq news' /\ (res[o].owner # NoOwner => o \in news')
    BY <2>1, <2>2, PutFacts
  <2>4. CacheFresh'
    BY <2>1, <2>2, PutFresh DEF LoopInv
  <2>5. StepDone("annotation", copy, resCache, news')
    BY ObjectFacts DEF StepDone
  <2>6. ASSUME ~queued, "agentService" \in Plan
        PROVE  o \in news'
    <3>1. Settled(o, copy, resCache, news)
      BY <2>1, <2>6, ServiceFirst DEF LoopInv, StepsOK, Achieved, StepDone
    <3>2. o \in news \/ resCache[o].owner = copy.uid
      BY <2>1, <3>1 DEF Settled, needsUpdate, desired
    <3>3. QED
      BY <1>1, <2>1, <2>3, <3>2
  <2>7. ~queued /\ "agentService" \in Plan => AnnotationDone(copy, resCache, news')
    BY <2>1, <2>6 DEF AnnotationDone
  <2>8. QED
    BY <2>1, <2>3, <2>4, <2>5, <2>7, ServiceFirst, StepTakenLoop
<1>7. ASSUME NEW o \in Resources, reconcileNamespace(o)
      PROVE  LoopInv'
  <2> DEFINE v == [res[o] EXCEPT !.spec = 1]
  <2>1. /\ pc = "steps" /\ NextStep("namespace") /\ UNCHANGED <<configCache, resCache>>
        /\ Put(o, v) /\ o[1] = "namespace"
    BY <1>7 DEF reconcileNamespace, LabelsDue, AtObject, AtStep
  <2>2. res[o] \in Deployment
    BY <2>1 DEF TypeInv, NamespacesStay, DataTypeOK, Owned
  <2>3. v \in Deployment
    BY <2>2 DEF Deployment
  <2> HIDE DEF v
  <2>4. news \subseteq news' /\ CacheFresh'
    BY <2>1, <2>3, PutFacts, PutFresh DEF LoopInv
  <2>5. StepDone("namespace", copy, resCache, news')
    BY ObjectFacts DEF StepDone
  <2>6. QED
    BY <2>1, <2>4, <2>5, StepTakenLoop
\* The steps that fail.
<1>8. CASE \/ \E o \in Owned : assureResourceFails(o) \/ annotationFails(o)
           \/ \E o \in Resources : namespaceFails(o)
  <2>1. UNCHANGED <<res, resCache, news>> /\ pc = "steps" /\ pc' = "idle"
    BY <1>8 DEF assureResourceFails, annotationFails, namespaceFails, MustWrite, AnnotationDue, LabelsDue,
                AtObject, AtStep, ReturnError, Return, objVars
  <2>2. queued'
    BY <1>8, Zenon DEF assureResourceFails, annotationFails, namespaceFails, ReturnError
  <2>3. QED
    BY <2>1, <2>2, FreshStays, QueuedIsEnough DEF LoopInv
<1>9. QED
  BY <1>2, <1>3, <1>4, <1>5, <1>6, <1>7, <1>8 DEF DeployStep

LEMMA WatchLoop ==
  ASSUME TypeInv, UidsOK, LoopInv, WatchStep, [Next]_vars
  PROVE  LoopInv'
<1>1. CASE SyncConfig \/ Resync
  <2>1. UNCHANGED <<res, resCache, news, pc, copy, todo>> /\ pc # "starting"
    BY <1>1 DEF SyncConfig, Resync, objVars, recVars
  <2>2. queued'
    BY <1>1, Zenon DEF SyncConfig, Resync
  <2>3. CacheFresh'
    BY <2>1, FreshStays DEF LoopInv
  <2>4. QED
    BY <2>1, <2>2, <2>3 DEF LoopInv, CopyOK, StepsOK, RestOK
<1>2. ASSUME NEW r \in Kept, SyncResource(r)
      PROVE  LoopInv'
  <2>1. UNCHANGED <<config, configCache, pc, copy, todo, res>>
    BY <1>2 DEF SyncResource, recVars
  <2>2. ~queued' => ~queued
    BY <1>2, Zenon DEF SyncResource
  <2>3. CacheFresh'
    <3>1. /\ pc # "starting" /\ news' = news \ {o \in Resources : o[1] = r}
          /\ resCache' = [o \in Resources |-> IF o[1] = r THEN res[o] ELSE resCache[o]]
      BY <1>2 DEF SyncResource
    <3>2. ASSUME NEW o \in Owned
          PROVE  o \in news' \/ resCache'[o] = res'[o] \/ (Unowned(resCache'[o]) /\ Unowned(res'[o]))
      <4>1. o \in Resources
        BY ObjectFacts
      <4>2. o \in news \/ resCache[o] = res[o] \/ (Unowned(resCache[o]) /\ Unowned(res[o]))
        BY <3>1 DEF LoopInv, CacheFresh
      <4>3. QED
        BY <2>1, <3>1, <4>1, <4>2
    <3>3. QED
      BY <3>2 DEF CacheFresh, Unowned
  <2>4. CopyOK'
    BY <2>1, <2>2 DEF LoopInv, CopyOK
  <2>5. StepsOK'
    <3>1. ASSUME pc = "steps", ~queued'
          PROVE  Achieved(Plan, todo, copy, resCache', news')
      <4>1. copy \in ConfigObj /\ copy.uid # NoOwner
        BY <3>1 DEF TypeInv, LocalTypeOK, UidsOK, UidOK
      <4>2. Achieved(Plan, todo, copy, resCache, news)
        BY <2>2, <3>1 DEF LoopInv, StepsOK
      <4>3. QED
        BY <1>2, <3>1, <4>1, <4>2, SyncKeeps DEF LoopInv
    <3>2. QED
      BY <2>1, <3>1, PlanStays DEF StepsOK
  <2>6. RestOK'
    <3>1. ASSUME pc = "idle", ~queued', configCache # None
          PROVE  \/ Outdated(configCache, config)
                 \/ /\ configCache.finalizer /\ ~configCache.deleting
                    /\ Achieved(Plan, {}, configCache, resCache', news')
      <4>1. configCache \in ConfigObj /\ configCache.uid # NoOwner
        BY <3>1 DEF TypeInv, DataTypeOK, UidsOK, UidOK
      <4>2. \/ Outdated(configCache, config)
            \/ /\ configCache.finalizer /\ ~configCache.deleting
               /\ Achieved(Plan, {}, configCache, resCache, news)
        BY <2>2, <3>1 DEF LoopInv, RestOK
      <4>3. QED
        BY <1>2, <3>1, <4>1, <4>2, SyncKeeps DEF LoopInv
    <3>2. QED
      BY <2>1, <3>1, PlanStays DEF RestOK
  <2>7. QED
    BY <2>3, <2>4, <2>5, <2>6 DEF LoopInv
<1>3. QED
  BY <1>1, <1>2 DEF WatchStep

\* What goes on outside the operator: Config may change, and an object of it,
\* but then the events that tell of it are on their way.
LEMMA OutsideLoop ==
  ASSUME TypeInv, UidsOK, LoopInv, [Next]_vars, CacheFresh', news \subseteq news',
         UNCHANGED <<configCache, resCache, queued, pc, copy, todo>>
  PROVE  LoopInv'
<1>1. CopyOK'
  BY DEF LoopInv, CopyOK
<1>2. StepsOK'
  <2>1. ASSUME pc = "steps", ~queued
        PROVE  Achieved(Plan, todo, copy, resCache, news')
    BY <2>1, AchievedGrows DEF LoopInv, StepsOK
  <2>2. QED
    BY <2>1, PlanStays DEF StepsOK
<1>3. RestOK'
  <2>1. ASSUME pc = "idle", ~queued, configCache # None
        PROVE  \/ Outdated(configCache, config')
               \/ /\ configCache.finalizer /\ ~configCache.deleting
                  /\ Achieved(Plan, {}, configCache, resCache, news')
    <3>1. configCache \in ConfigObj
      BY <2>1 DEF TypeInv, DataTypeOK
    <3>2. \/ Outdated(configCache, config)
          \/ /\ configCache.finalizer /\ ~configCache.deleting
             /\ Achieved(Plan, {}, configCache, resCache, news)
      BY <2>1 DEF LoopInv, RestOK
    <3>3. QED
      BY <3>1, <3>2, OutdatedStays, AchievedGrows
  <2>2. QED
    BY <2>1, PlanStays DEF RestOK
<1>4. QED
  BY <1>1, <1>2, <1>3 DEF LoopInv

LEMMA UserLoop ==
  ASSUME TypeInv, UidsOK, LoopInv, UserStep, [Next]_vars
  PROVE  LoopInv'
<1>1. UNCHANGED <<res, news, configCache, resCache, pc, copy, todo>>
  BY UserConfigs
<1>2. queued' = queued
  BY Zenon DEF UserStep, UserCreate, UserDelete, UserEdit, UserMoves
<1>3. CacheFresh'
  BY <1>1 DEF LoopInv, CacheFresh, Unowned
<1>4. QED
  BY <1>1, <1>2, <1>3, OutsideLoop

LEMMA ObjectLoop ==
  ASSUME TypeInv, UidsOK, LoopInv, ObjectStep, [Next]_vars
  PROVE  LoopInv'
<1>1. PICK o \in Resources, v \in Deployment \cup {None} :
        (o \notin Owned => v # None) /\ Put(o, v)
  BY ObjectPuts
<1>2. UNCHANGED <<configCache, resCache, queued, pc, copy, todo>>
  BY ObjectPuts
<1>3. news \subseteq news'
  BY <1>1, PutFacts
<1>4. CacheFresh'
  <2>1. CASE pc = "starting"
    BY <1>2, <2>1 DEF CacheFresh
  <2>2. CASE pc # "starting"
    BY <1>1, <1>2, <2>2, PutFresh DEF LoopInv
  <2>3. QED
    BY <2>1, <2>2
<1>5. QED
  BY <1>2, <1>3, <1>4, OutsideLoop

(***************************************************************************)
(* The invariant, and what follows.                                        *)
(***************************************************************************)
LEMMA ConfigInductive ==
  ASSUME ConfigInv, [Next]_vars
  PROVE  ConfigInv'
<1>1. TypeInv /\ UidsOK /\ LoopInv
  BY DEF ConfigInv, LoopInv
<1>2. TypeInv' /\ UidsOK'
  BY <1>1, TypeInductive, UidsInductive
<1>3. LoopInv'
  <2>1. CASE UNCHANGED vars
    <3>1. UNCHANGED <<res, news, configCache, resCache, queued, pc, copy, todo>>
      BY <2>1, Zenon DEF vars, objVars, recVars
    <3>2. CacheFresh'
      BY <1>1, <3>1 DEF LoopInv, CacheFresh, Unowned
    <3>3. QED
      BY <1>1, <3>1, <3>2, OutsideLoop
  <2>2. QED
    BY <1>1, <2>1, StepKinds, StartLoop, ConfigStepLoop, DeployLoop, WatchLoop, UserLoop, ObjectLoop
<1>4. QED
  BY <1>2, <1>3 DEF ConfigInv, LoopInv

\* The invariant says it all once the caches show what there is.
LEMMA InvGivesRest ==
  ASSUME ConfigInv, Quiet, config # None
  PROVE  ~config.deleting /\ Deployed /\ Annotated
<1>1. /\ pc = "idle" /\ ~queued /\ configCache = config /\ resCache = res /\ news = {}
      /\ config \in ConfigObj
  BY DEF Quiet, ConfigInv, TypeInv, DataTypeOK
<1>2. ~Outdated(config, config)
  BY <1>1 DEF Outdated
<1>3. /\ config.finalizer /\ ~config.deleting /\ Achieved(Plan, {}, config, res, news)
  BY <1>1, <1>2 DEF ConfigInv, RestOK
<1>4. ASSUME NEW o \in Managed
      PROVE  /\ o \in Owned /\ o \notin config.overrides /\ o[1] \in Plan /\ o = Object(o[1], config.ns)
             /\ res[o] # None /\ ~needsUpdate(res[o], desired(o[1], config))
  <2>1. o \in Owned /\ o \notin config.overrides /\ o[1] \in Plan /\ o = Object(o[1], config.ns)
    BY DEF Managed
  <2>2. Settled(o, config, res, news)
    BY <1>3, <2>1 DEF Achieved, StepDone
  <2>3. QED
    BY <1>1, <2>1, <2>2 DEF Settled
<1>5. Deployed
  BY <1>3, <1>4 DEF Deployed, needsUpdate, desired
<1>6. Annotated
  <2>1. SUFFICES ASSUME isOpenshift, "annotation" \in Kept, NEW o \in Managed, o[1] = "agentService"
                 PROVE  res[o].annotated
    BY DEF Annotated
  <2>2. "annotation" \in Plan
    BY <2>1 DEF Plan, SccSteps, OpenShiftSteps, PrometheusSteps, MonitoringSteps
  <2>3. AnnotationDone(config, res, news)
    BY <1>3, <1>4, <2>1, <2>2 DEF Achieved
  <2>4. QED
    BY <1>1, <1>4, <2>1, <2>3 DEF AnnotationDone
<1>7. QED
  BY <1>3, <1>5, <1>6

\* When the operator has come to rest, with nothing on its way to it, the live
\* Config is deployed completely: every managed object of the platform is there,
\* up to date and owned, the annotation of the agent metrics service that every
\* update of it wipes out is back, and no deletion is pending.  Events alone
\* bring this about, whatever fails, whoever tampers, and without the resync.
THEOREM RestingConfigIsDeployed == Spec => []RestingDeploymentIsComplete
<1>1. Init => ConfigInv
  BY InitType, InitLoop DEF ConfigInv, LoopInv
<1>2. ConfigInv /\ [Next]_vars => ConfigInv'
  BY ConfigInductive
<1>3. ConfigInv => RestingDeploymentIsComplete
  BY InvGivesRest DEF RestingDeploymentIsComplete
<1>4. QED
  BY <1>1, <1>2, <1>3, PTL DEF Spec
=============================================================================

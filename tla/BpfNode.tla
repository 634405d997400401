------------------------------- MODULE BpfNode -------------------------------
(***************************************************************************)
(* The bpfman-agent as it really runs: two controllers in one process, the *)
(* reconciler of ClusterBpfApplications (BpfAgent itself) and that of      *)
(* BpfApplications (ns_application_program.go), share one bpfman.          *)
(*                                                                         *)
(* ns_application_program.go repeats cl_application_program.go call by     *)
(* call on objects that live in namespaces: an application is identified   *)
(* by its namespace and name, and getBpfAppState looks for its state in    *)
(* its own namespace.  It is therefore a second instance of BpfAgent with  *)
(* objects and locals of its own.                                          *)
(*                                                                         *)
(* The controllers meet in bpfman alone.  Crashes, pods and node labels,   *)
(* which concern each controller as if it were the only one, are left to   *)
(* BpfAgent.                                                               *)
(***************************************************************************)
EXTENDS BpfAgent

CONSTANTS
  NsApps,      \* BpfApplications, each one namespace and name
  NsStateIds   \* BpfApplicationState objects of this node

ASSUME BpfNodeAssumption ==
  /\ None \notin NsApps \cup NsStateIds
  /\ Faults \cap {"crash", "points", "select", "lost"} = {}

VARIABLES
  nsApp, nsSelected, nsCreated,                  \* objects
  nsSt, nsStCache,                               \* states, and the informer's cache
  nsQueued, nsPc,                                \* controller
  nsList, nsNode, nsTodo,                        \* locals of Reconcile()
  nsCa, nsCs, nsOrig, nsCur, nsListChanged,
  nsPtodo, nsCp, nsLtodo

Ns == INSTANCE BpfAgent WITH
  Apps <- NsApps, StateIds <- NsStateIds,
  app <- nsApp, selected <- nsSelected, created <- nsCreated,
  st <- nsSt, stCache <- nsStCache, queued <- nsQueued, pc <- nsPc,
  list <- nsList, node <- nsNode, todo <- nsTodo,
  ca <- nsCa, cs <- nsCs, orig <- nsOrig, cur <- nsCur, listChanged <- nsListChanged,
  ptodo <- nsPtodo, cp <- nsCp, ltodo <- nsLtodo

\* nil is no BpfApplicationState.
ASSUME NsNoneAssumption == None \notin Ns!StateObj

\* What belongs to one controller alone; the rest is shared.
clusterVars == <<app, selected, created, st, stCache, queued, agentVars>>
nsVars == <<nsApp, nsSelected, nsCreated, nsSt, nsStCache, nsQueued, nsPc, nsList, nsNode,
            nsTodo, nsCa, nsCs, nsOrig, nsCur, nsListChanged, nsPtodo, nsCp, nsLtodo>>
nodeVars == <<vars, nsVars>>

NodeInit == Init /\ Ns!Init

(***************************************************************************)
(* NsBpfApplicationReconciler.                                             *)
(***************************************************************************)
nsReconcile ==
  \/ Ns!ReconcileStart \/ Ns!ReconcileDone
  \/ \E a \in NsApps : Ns!SkipDeletedApp(a) \/ Ns!DuplicateState(a) \/ Ns!NeedState(a)
  \/ \E a \in NsApps, s \in NsStateIds : Ns!BeginApp(a, s)

nsCreateBpfAppState == Ns!createInitialBpfAppState \/ Ns!createInitialBpfAppStateFails

nsWaitForBpfAppStateSpecUpdate ==
  \/ \E s \in NsStateIds : Ns!waitForBpfAppStateSpecUpdate(s)
  \/ Ns!initBpfAppStateStatusFails \/ Ns!waitForBpfAppStateSpecUpdateTimesOut

nsUpdateBpfAppStateStatus == Ns!updateBpfAppStateStatus \/ Ns!updateBpfAppStateStatusFails

nsWaitForBpfAppStateStatusUpdate ==
  \/ \E s \in NsStateIds : Ns!waitForBpfAppStateStatusUpdate(s)
  \/ Ns!waitForBpfAppStateStatusUpdateTimesOut

nsIsNodeSelected == Ns!NodeSelectorInvalid

nsValidateProgramList == Ns!ProgramListInvalid

nsLoad == Ns!AlreadyLoaded \/ Ns!load \/ Ns!loadFails

nsUnload == Ns!BeginUnload \/ (\E p \in Progs : Ns!unload(p)) \/ Ns!UnloadDone

nsGetProgState == \E p \in Progs : Ns!ProgramStateMissing(p)

\* The program reconcilers of ns_*_program.go, see BpfLinks.
nsReconcileProgram ==
  \/ \E p \in Progs : Ns!updateLinks(p) \/ Ns!updateLinksFails(p)
  \/ \E x \in Points : \/ Ns!LinkInPlace(x) \/ Ns!LinkAttach(x) \/ Ns!LinkAttachFails(x)
                       \/ Ns!LinkPanic(x)
                       \/ Ns!LinkDetach(x) \/ Ns!LinkDetachFails(x) \/ Ns!LinkDrop(x)
  \/ Ns!LinksDone

nsCheckProgramStatus == Ns!StatusChanged \/ Ns!StatusUnchanged

nsRemoveFinalizer == Ns!removeFinalizer \/ Ns!removeFinalizerFails

nsReconcileStep ==
  \/ nsReconcile \/ nsCreateBpfAppState \/ nsWaitForBpfAppStateSpecUpdate
  \/ nsUpdateBpfAppStateStatus \/ nsWaitForBpfAppStateStatusUpdate
  \/ nsIsNodeSelected \/ nsValidateProgramList \/ nsLoad \/ nsUnload
  \/ nsGetProgState \/ nsReconcileProgram \/ nsCheckProgramStatus \/ nsRemoveFinalizer

(***************************************************************************)
(* The node.                                                               *)
(***************************************************************************)
\* A step of one controller, or of the objects it watches, alone.
ClusterAlone(A) == A /\ UNCHANGED nsVars
NsAlone(A)      == A /\ UNCHANGED clusterVars

ClusterReconcile == ClusterAlone(ReconcileStep)
NsReconcile      == NsAlone(nsReconcileStep)

ClusterObjects ==
  ClusterAlone(ClusterStep \/ Resync \/ \E a \in Apps : UserCreate(a) \/ UserDelete(a) \/ UserEdit(a))
NsObjects ==
  NsAlone(\/ Ns!ClusterStep \/ Ns!Resync
          \/ \E a \in NsApps : Ns!UserCreate(a) \/ Ns!UserDelete(a) \/ Ns!UserEdit(a))

NodeNext == ClusterReconcile \/ NsReconcile \/ ClusterObjects \/ NsObjects

NodeSpec == NodeInit /\ [][NodeNext]_nodeVars

(***************************************************************************)
(* Properties.                                                             *)
(***************************************************************************)
\* The programs and links that one controller knows of, in its state objects or
\* in the reconcile at work.
ClusterObjs == {st[s] : s \in StateIds} \cup {cur}
NsObjs == {nsSt[s] : s \in NsStateIds} \cup {nsCur}
ClusterProgs == {i \in ProgIds : \E o \in ClusterObjs : o # None /\ RecordsProg(o, i)}
NsProgs == {i \in ProgIds : \E o \in NsObjs : o # None /\ RecordsProg(o, i)}
ClusterLinks == {l \in LinkIds : \E o \in ClusterObjs : o # None /\ RecordsLink(o, l)}
NsLinks == {l \in LinkIds : \E o \in NsObjs : o # None /\ RecordsLink(o, l)}

\* Every program and every link of bpfman is known to exactly one of the two
\* controllers: none is lost, and none has two masters (load, unload,
\* reconcileBpfLink of both).
OneMaster ==
  /\ \A i \in loaded : i \in ClusterProgs <=> i \notin NsProgs
  /\ \A l \in LinkIds : linkProg[l] # None => (l \in ClusterLinks <=> l \notin NsLinks)

\* A step of one controller neither unloads a program nor detaches a link that
\* the other knows of (unload, reconcileBpfLink).
HandsOff ==
  [][/\ UNCHANGED nsVars =>
          NsProgs \cap loaded \subseteq loaded'
          /\ \A l \in NsLinks : linkProg[l] \in NsProgs => linkProg'[l] = linkProg[l]
     /\ UNCHANGED clusterVars =>
          ClusterProgs \cap loaded \subseteq loaded'
          /\ \A l \in ClusterLinks : linkProg[l] \in ClusterProgs => linkProg'[l] = linkProg[l]
    ]_nodeVars

\* What one controller reports as loaded and attached is so, whatever the other
\* does with the same bpfman (isLoaded, doesLinkExist).
BothReportTruly == SuccessIsTrue /\ Ns!SuccessIsTrue

==============================================================================

---------------------------- MODULE BpfNodeProofs ----------------------------
(***************************************************************************)
(* Proofs for BpfNode: the two controllers of an agent share bpfman and    *)
(* still each program and link has one master, neither takes away what the *)
(* other knows of, and what both report is true.                           *)
(*                                                                         *)
(* The argument.  bpfman is seen from each controller as if it held only   *)
(* what the other controller has not recorded (ClLoaded, ClLinkProg and    *)
(* NsLoaded, NsLinkProg).  In its own view a controller is the BpfAgent of *)
(* BpfAgentTruth (the instances Cl and Own), so that all that is proved    *)
(* there can be used: its steps are steps of that agent (ClusterQuiet,     *)
(* ClusterBusy), and its invariant AgentInv holds in its view.  A step of  *)
(* the other one takes ids nobody has recorded and leaves the view as it   *)
(* is (ClusterUnseen), which AgentInv survives (AgentUndisturbed).         *)
(***************************************************************************)
EXTENDS BpfNode, TLAPS

(***************************************************************************)
(* The two views of bpfman.                                                *)
(***************************************************************************)
\* Every version of a controller's state objects: stored, cached, at work.
ClCopies == ({st[s] : s \in StateIds} \cup {stCache[s] : s \in StateIds} \cup {cur}) \ {None}
NsCopies == ({nsSt[s] : s \in NsStateIds} \cup {nsStCache[s] : s \in NsStateIds} \cup {nsCur}) \ {None}

\* The ids of programs and links that are in one of them.
ClHeld == {i \in ProgIds : \E o \in ClCopies : RecordsProg(o, i)}
NsHeld == {i \in ProgIds : \E o \in NsCopies : RecordsProg(o, i)}
ClHeldLinks == {l \in LinkIds : \E o \in ClCopies : RecordsLink(o, l)}
NsHeldLinks == {l \in LinkIds : \E o \in NsCopies : RecordsLink(o, l)}

\* What bpfman has loaded and attached, without what the other controller holds.
ClLoaded == loaded \ NsHeld
NsLoaded == loaded \ ClHeld
ClLinkProg == [l \in LinkIds |-> IF linkProg[l] \in NsHeld THEN None ELSE linkProg[l]]
NsLinkProg == [l \in LinkIds |-> IF linkProg[l] \in ClHeld THEN None ELSE linkProg[l]]

\* Each controller as the only one on the node, in its own view.
Cl == INSTANCE BpfAgentTruth WITH loaded <- ClLoaded, linkProg <- ClLinkProg

Own == INSTANCE BpfAgentTruth WITH
  loaded <- NsLoaded, linkProg <- NsLinkProg,
  Apps <- NsApps, StateIds <- NsStateIds,
  app <- nsApp, selected <- nsSelected, created <- nsCreated,
  st <- nsSt, stCache <- nsStCache, queued <- nsQueued, pc <- nsPc,
  list <- nsList, node <- nsNode, todo <- nsTodo,
  ca <- nsCa, cs <- nsCs, orig <- nsOrig, cur <- nsCur, listChanged <- nsListChanged,
  ptodo <- nsPtodo, cp <- nsCp, ltodo <- nsLtodo

(***************************************************************************)
(* A step of the cluster controller is one in its view of bpfman.          *)
(***************************************************************************)
\* A step that is not the other controller's leaves what that one holds.
LEMMA ClusterSameHeld ==
  ASSUME UNCHANGED nsVars
  PROVE  NsHeld' = NsHeld /\ NsHeldLinks' = NsHeldLinks
BY DEF nsVars, NsHeld, NsHeldLinks, NsCopies, RecordsProg, RecordsLink, Recorded, agentVars, loopVars, appVars,
       progVars

LEMMA ClusterSameView ==
  ASSUME NsHeld' = NsHeld, UNCHANGED <<loaded, linkProg>>
  PROVE  UNCHANGED <<ClLoaded, ClLinkProg>>
BY DEF ClLoaded, ClLinkProg

\* What the controller holds is the same in its view.
LEMMA ClusterHeldIs == Cl!HeldProgs = ClHeld /\ Cl!HeldLinks = ClHeldLinks /\ Cl!AllCopies = ClCopies
BY DEF ClHeld, ClHeldLinks, ClCopies, Cl!HeldProgs, Cl!HeldLinks, Cl!AllCopies, RecordsProg, Cl!RecordsProg,
       RecordsLink,
       Cl!RecordsLink, Recorded, Cl!Recorded

LEMMA ClusterHeldAfter == (Cl!HeldProgs = ClHeld /\ Cl!HeldLinks = ClHeldLinks)'
<1>1. Cl!HeldProgs = ClHeld /\ Cl!HeldLinks = ClHeldLinks
  BY ClusterHeldIs
<1>2. QED
  BY <1>1, PTL

\* Steps that leave bpfman alone.
ClusterApart ==
  \/ ReconcileStart \/ ReconcileDone
  \/ \E a \in Apps : SkipDeletedApp(a) \/ DuplicateState(a) \/ NeedState(a)
  \/ \E a \in Apps, s \in StateIds : BeginApp(a, s)
  \/ createInitialBpfAppState \/ createInitialBpfAppStateFails
  \/ \E s \in StateIds : waitForBpfAppStateSpecUpdate(s) \/ waitForBpfAppStateStatusUpdate(s)
  \/ initBpfAppStateStatusFails \/ waitForBpfAppStateSpecUpdateTimesOut \/ waitForBpfAppStateStatusUpdateTimesOut
  \/ updateBpfAppStateStatus \/ updateBpfAppStateStatusFails
  \/ removeFinalizer \/ removeFinalizerFails
  \/ BeginUnload \/ UnloadDone \/ NodeSelectorInvalid \/ ProgramListInvalid
  \/ \E p \in Progs : ProgramStateMissing(p) \/ updateLinks(p) \/ updateLinksFails(p)
  \/ \E x \in Points : LinkPanic(x)
  \/ LinksDone \/ StatusChanged \/ StatusUnchanged
  \/ ClusterStep \/ Resync
  \/ \E a \in Apps : UserCreate(a) \/ UserDelete(a) \/ UserEdit(a)

\* They are steps in the controller's view.
LEMMA ClusterQuiet ==
  ASSUME NsHeld' = NsHeld,
         ClusterApart
  PROVE  Cl!Next /\ UNCHANGED daemonVars
<1> DEFINE Same == UNCHANGED daemonVars /\ UNCHANGED <<ClLoaded, ClLinkProg>>
<1>1. UNCHANGED <<loaded, freeProgs, linkProg, freeLinks>> => Same
  BY ClusterSameView DEF daemonVars
<1> HIDE DEF Same
<1>2. CASE \/ ReconcileStart \/ ReconcileDone
           \/ \E a \in Apps : SkipDeletedApp(a) \/ DuplicateState(a) \/ NeedState(a)
           \/ \E a \in Apps, s \in StateIds : BeginApp(a, s)
  <2>1. Same
    BY <1>1, <1>2 DEF ReconcileStart, ReconcileDone, SkipDeletedApp, DuplicateState, NeedState, BeginApp,
                      daemonVars
  <2>2. Cl!LoopStep
    BY <1>2, <2>1
       DEF Same, Cl!LoopStep,
           ReconcileStart, Cl!ReconcileStart, ReconcileDone, Cl!ReconcileDone, SkipDeletedApp,
           Cl!SkipDeletedApp, DuplicateState, Cl!DuplicateState, NeedState, Cl!NeedState, BeginApp, Cl!BeginApp,
           Return, Cl!Return, ReturnAndRequeue, Cl!ReturnAndRequeue, ReturnLocals, Cl!ReturnLocals,
           getBpfAppState, Cl!getBpfAppState, NoApps, Cl!NoApps, objVars, Cl!objVars, daemonVars, Cl!daemonVars,
           loopVars, Cl!loopVars, appVars, Cl!appVars, progVars, Cl!progVars
  <2>3. QED
    BY <2>1, <2>2 DEF Same, Cl!LoopStep, Cl!Next, Cl!ReconcileStep
<1>3. CASE \/ createInitialBpfAppState \/ createInitialBpfAppStateFails
           \/ \E s \in StateIds : waitForBpfAppStateSpecUpdate(s) \/ waitForBpfAppStateStatusUpdate(s)
           \/ initBpfAppStateStatusFails \/ waitForBpfAppStateSpecUpdateTimesOut \/ waitForBpfAppStateStatusUpdateTimesOut
           \/ updateBpfAppStateStatus \/ updateBpfAppStateStatusFails
           \/ removeFinalizer \/ removeFinalizerFails
  <2>1. Same
    BY <1>1, <1>3
       DEF createInitialBpfAppState, createInitialBpfAppStateFails, waitForBpfAppStateSpecUpdate,
           waitForBpfAppStateStatusUpdate, waitForBpfAppStateSpecUpdateTimesOut, initBpfAppStateStatusFails,
           waitForBpfAppStateStatusUpdateTimesOut, updateBpfAppStateStatus, updateBpfAppStateStatusFails,
           removeFinalizer, removeFinalizerFails, daemonVars
  <2>2. ASSUME createInitialBpfAppState \/ createInitialBpfAppStateFails
        PROVE  Cl!createInitialBpfAppState \/ Cl!createInitialBpfAppStateFails
    BY <2>1, <2>2
       DEF Same,
           createInitialBpfAppState, Cl!createInitialBpfAppState, createInitialBpfAppStateFails,
           Cl!createInitialBpfAppStateFails, initBpfAppState, Cl!initBpfAppState, NoProgs, Cl!NoProgs, Fault,
           Cl!Fault, ReturnAndRequeue, Cl!ReturnAndRequeue, ReturnLocals, Cl!ReturnLocals, NoApps, Cl!NoApps,
           objVars, Cl!objVars, daemonVars, Cl!daemonVars, loopVars, Cl!loopVars, appVars, Cl!appVars, progVars,
           Cl!progVars
  <2>3. ASSUME NEW s \in StateIds, waitForBpfAppStateSpecUpdate(s) \/ waitForBpfAppStateStatusUpdate(s)
        PROVE  Cl!waitForBpfAppStateSpecUpdate(s) \/ Cl!waitForBpfAppStateStatusUpdate(s)
    BY <2>1, <2>3
       DEF Same,
           waitForBpfAppStateSpecUpdate, Cl!waitForBpfAppStateSpecUpdate, waitForBpfAppStateStatusUpdate,
           Cl!waitForBpfAppStateStatusUpdate, initBpfAppStateStatus, Cl!initBpfAppStateStatus,
           initializeNodeProgramList, Cl!initializeNodeProgramList, NoLinks, Cl!NoLinks, StatusSeen,
           Cl!StatusSeen, Return, Cl!Return, ReturnLocals, Cl!ReturnLocals, getBpfAppState, Cl!getBpfAppState,
           NoApps, Cl!NoApps, objVars, Cl!objVars, daemonVars, Cl!daemonVars, loopVars, Cl!loopVars, appVars,
           Cl!appVars, progVars, Cl!progVars
  <2>4. ASSUME initBpfAppStateStatusFails \/ waitForBpfAppStateSpecUpdateTimesOut \/ waitForBpfAppStateStatusUpdateTimesOut
        PROVE  Cl!initBpfAppStateStatusFails \/ Cl!waitForBpfAppStateSpecUpdateTimesOut \/ Cl!waitForBpfAppStateStatusUpdateTimesOut
    BY <2>1, <2>4
       DEF Same,
           initBpfAppStateStatusFails, Cl!initBpfAppStateStatusFails, getBpfAppState, Cl!getBpfAppState,
           waitForBpfAppStateSpecUpdateTimesOut, Cl!waitForBpfAppStateSpecUpdateTimesOut,
           waitForBpfAppStateStatusUpdateTimesOut, Cl!waitForBpfAppStateStatusUpdateTimesOut, Fault, Cl!Fault,
           ReturnAndRequeue, Cl!ReturnAndRequeue, ReturnLocals, Cl!ReturnLocals, NoApps, Cl!NoApps, objVars,
           Cl!objVars, daemonVars, Cl!daemonVars
  <2>5. ASSUME updateBpfAppStateStatus \/ updateBpfAppStateStatusFails
        PROVE  Cl!updateBpfAppStateStatus \/ Cl!updateBpfAppStateStatusFails
    BY <2>1, <2>5
       DEF Same,
           updateBpfAppStateStatus, Cl!updateBpfAppStateStatus, updateBpfAppStateStatusFails,
           Cl!updateBpfAppStateStatusFails, Accepted, Cl!Accepted, Fault, Cl!Fault, ReturnAndRequeue,
           Cl!ReturnAndRequeue, ReturnLocals, Cl!ReturnLocals, NoApps, Cl!NoApps, objVars, Cl!objVars,
           daemonVars, Cl!daemonVars, loopVars, Cl!loopVars, progVars, Cl!progVars
  <2>6. ASSUME removeFinalizer \/ removeFinalizerFails
        PROVE  Cl!removeFinalizer \/ Cl!removeFinalizerFails
    BY <2>1, <2>6
       DEF Same,
           removeFinalizer, Cl!removeFinalizer, removeFinalizerFails, Cl!removeFinalizerFails, Fault, Cl!Fault,
           Return, Cl!Return, ReturnLocals, Cl!ReturnLocals, NoApps, Cl!NoApps, objVars, Cl!objVars, daemonVars,
           Cl!daemonVars
  <2>7. Cl!ReconcileStep
    BY <1>3, <2>2, <2>3, <2>4, <2>5, <2>6, Zenon DEF Cl!ReconcileStep
  <2>8. QED
    BY <2>1, <2>7 DEF Same, Cl!Next
<1>4. CASE BeginUnload \/ UnloadDone \/ NodeSelectorInvalid \/ ProgramListInvalid
  <2>1. Same
    BY <1>1, <1>4 DEF BeginUnload, UnloadDone, ProgramListInvalid, NodeSelectorInvalid, daemonVars
  <2>2. Cl!BeginUnload \/ Cl!UnloadDone \/ Cl!NodeSelectorInvalid \/ Cl!ProgramListInvalid
    BY <1>4, <2>1
       DEF Same,
           BeginUnload, Cl!BeginUnload, UnloadDone, Cl!UnloadDone, ProgramListInvalid, NodeSelectorInvalid, Cl!ProgramListInvalid, Cl!NodeSelectorInvalid,
           LoadError, Cl!LoadError, MustLoad, Cl!MustLoad, validateProgramList, Cl!validateProgramList,
           isNodeSelected, isNodeSelectedFails, Cl!isNodeSelected, Cl!isNodeSelectedFails, isBeingDeleted, Cl!isBeingDeleted, Recorded, Cl!Recorded, objVars,
           Cl!objVars, daemonVars, Cl!daemonVars, loopVars, Cl!loopVars, appVars, Cl!appVars, progVars,
           Cl!progVars
  <2>3. QED
    BY <2>1, <2>2 DEF Same, Cl!Next, Cl!ReconcileStep
<1>5. CASE \E p \in Progs : ProgramStateMissing(p) \/ updateLinks(p) \/ updateLinksFails(p)
  <2>1. Same
    BY <1>1, <1>5 DEF ProgramStateMissing, updateLinks, updateLinksFails, daemonVars
  <2>2. \E p \in Progs : Cl!ProgramStateMissing(p) \/ Cl!updateLinks(p) \/ Cl!updateLinksFails(p)
    BY <1>5, <2>1
       DEF Same,
           ProgramStateMissing, Cl!ProgramStateMissing, updateLinks, Cl!updateLinks, updateLinksFails,
           Cl!updateLinksFails, HasProgState, Cl!HasProgState, getExpectedLinks, Cl!getExpectedLinks, LinksWith,
           Cl!LinksWith, NewLink, Cl!NewLink, Fault, Cl!Fault, objVars, Cl!objVars, daemonVars, Cl!daemonVars,
           loopVars, Cl!loopVars, appVars, Cl!appVars, progVars, Cl!progVars
  <2>3. QED
    BY <2>1, <2>2 DEF Same, Cl!Next, Cl!ReconcileStep
<1>6. CASE (\E x \in Points : LinkPanic(x)) \/ LinksDone \/ StatusChanged \/ StatusUnchanged
  <2>1. Same
    BY <1>1, <1>6 DEF LinkPanic, LinksDone, StatusChanged, StatusUnchanged, daemonVars
  <2>2. (\E x \in Points : Cl!LinkPanic(x)) \/ Cl!LinksDone \/ Cl!StatusChanged \/ Cl!StatusUnchanged
    BY <1>6, <2>1
       DEF Same,
           LinkPanic, Cl!LinkPanic, LinksDone, Cl!LinksDone, StatusChanged, Cl!StatusChanged, StatusUnchanged,
           Cl!StatusUnchanged, AtLink, Cl!AtLink, shouldAttach, Cl!shouldAttach, updateProgramAttachStatus,
           Cl!updateProgramAttachStatus, isAttachSuccess, Cl!isAttachSuccess, VisitOver, Cl!VisitOver,
           FinalState, Cl!FinalState, Condition, Cl!Condition, checkProgramStatus, Cl!checkProgramStatus,
           ReadyToRelease, Cl!ReadyToRelease, isBeingDeleted, Cl!isBeingDeleted, IsBpfAppStateConditionFailure,
           Cl!IsBpfAppStateConditionFailure, Recorded, Cl!Recorded, ReturnAndRequeue, Cl!ReturnAndRequeue,
           ReturnLocals, Cl!ReturnLocals, NoApps, Cl!NoApps, objVars, Cl!objVars, daemonVars, Cl!daemonVars,
           loopVars, Cl!loopVars, appVars, Cl!appVars, progVars, Cl!progVars
  <2>3. QED
    BY <2>1, <2>2 DEF Same, Cl!Next, Cl!ReconcileStep
<1>7. CASE \/ ClusterStep \/ Resync
           \/ \E a \in Apps : UserCreate(a) \/ UserDelete(a) \/ UserEdit(a)
  <2>1. Same
    BY <1>1, <1>7
       DEF ClusterStep, SyncState, GarbageCollect, OperatorRelease, Resync, UserCreate, Twice, Selectors, UserDelete, UserEdit,
           daemonVars
  <2>2. \/ Cl!ClusterStep \/ Cl!Resync
        \/ \E a \in Apps : Cl!UserCreate(a) \/ Cl!UserDelete(a) \/ Cl!UserEdit(a)
    BY <1>7, <2>1
       DEF Same,
           ClusterStep, Cl!ClusterStep, SyncState, Cl!SyncState, GarbageCollect, Cl!GarbageCollect, OwnerAlive,
           Cl!OwnerAlive, OperatorRelease, Cl!OperatorRelease, Resync, Cl!Resync, UserCreate, Twice, Selectors, Cl!UserCreate, Cl!Twice, Cl!Selectors,
           UserDelete, Cl!UserDelete, UserEdit, Cl!UserEdit, Edit, Cl!Edit, getBpfAppState, Cl!getBpfAppState,
           objVars, Cl!objVars, daemonVars, Cl!daemonVars, loopVars, Cl!loopVars, appVars, Cl!appVars, progVars,
           Cl!progVars, agentVars, Cl!agentVars
  <2>3. QED
    BY <2>1, <2>2 DEF Same, Cl!Next, Cl!EnvironmentStep
<1>8. QED
  BY <1>2, <1>3, <1>4, <1>5, <1>6, <1>7, Zenon DEF ClusterApart

(***************************************************************************)
(* A step of the namespaced controller is one in its view of bpfman.       *)
(***************************************************************************)
\* A step that is not the other controller's leaves what that one holds.
LEMMA NsSameHeld ==
  ASSUME UNCHANGED clusterVars
  PROVE  ClHeld' = ClHeld /\ ClHeldLinks' = ClHeldLinks
BY DEF clusterVars, ClHeld, ClHeldLinks, ClCopies, RecordsProg, RecordsLink, Recorded, agentVars, loopVars,
       appVars, progVars

LEMMA NsSameView ==
  ASSUME ClHeld' = ClHeld, UNCHANGED <<loaded, linkProg>>
  PROVE  UNCHANGED <<NsLoaded, NsLinkProg>>
BY DEF NsLoaded, NsLinkProg

\* What the controller holds is the same in its view.
LEMMA NsHeldIs == Own!HeldProgs = NsHeld /\ Own!HeldLinks = NsHeldLinks /\ Own!AllCopies = NsCopies
BY DEF NsHeld, NsHeldLinks, NsCopies, Own!HeldProgs, Own!HeldLinks, Own!AllCopies, RecordsProg, Own!RecordsProg,
       RecordsLink,
       Own!RecordsLink, Recorded, Own!Recorded

LEMMA NsHeldAfter == (Own!HeldProgs = NsHeld /\ Own!HeldLinks = NsHeldLinks)'
<1>1. Own!HeldProgs = NsHeld /\ Own!HeldLinks = NsHeldLinks
  BY NsHeldIs
<1>2. QED
  BY <1>1, PTL

\* Steps that leave bpfman alone.
NsApart ==
  \/ Ns!ReconcileStart \/ Ns!ReconcileDone
  \/ \E a \in NsApps : Ns!SkipDeletedApp(a) \/ Ns!DuplicateState(a) \/ Ns!NeedState(a)
  \/ \E a \in NsApps, s \in NsStateIds : Ns!BeginApp(a, s)
  \/ Ns!createInitialBpfAppState \/ Ns!createInitialBpfAppStateFails
  \/ \E s \in NsStateIds : Ns!waitForBpfAppStateSpecUpdate(s) \/ Ns!waitForBpfAppStateStatusUpdate(s)
  \/ Ns!initBpfAppStateStatusFails \/ Ns!waitForBpfAppStateSpecUpdateTimesOut \/ Ns!waitForBpfAppStateStatusUpdateTimesOut
  \/ Ns!updateBpfAppStateStatus \/ Ns!updateBpfAppStateStatusFails
  \/ Ns!removeFinalizer \/ Ns!removeFinalizerFails
  \/ Ns!BeginUnload \/ Ns!UnloadDone \/ Ns!NodeSelectorInvalid \/ Ns!ProgramListInvalid
  \/ \E p \in Progs : Ns!ProgramStateMissing(p) \/ Ns!updateLinks(p) \/ Ns!updateLinksFails(p)
  \/ \E x \in Points : Ns!LinkPanic(x)
  \/ Ns!LinksDone \/ Ns!StatusChanged \/ Ns!StatusUnchanged
  \/ Ns!ClusterStep \/ Ns!Resync
  \/ \E a \in NsApps : Ns!UserCreate(a) \/ Ns!UserDelete(a) \/ Ns!UserEdit(a)

\* They are steps in the controller's view.
LEMMA NsQuiet ==
  ASSUME ClHeld' = ClHeld,
         NsApart
  PROVE  Own!Next /\ UNCHANGED daemonVars
<1> DEFINE Same == UNCHANGED daemonVars /\ UNCHANGED <<NsLoaded, NsLinkProg>>
<1>1. UNCHANGED <<loaded, freeProgs, linkProg, freeLinks>> => Same
  BY NsSameView DEF daemonVars
<1> HIDE DEF Same
<1>2. CASE \/ Ns!ReconcileStart \/ Ns!ReconcileDone
           \/ \E a \in NsApps : Ns!SkipDeletedApp(a) \/ Ns!DuplicateState(a) \/ Ns!NeedState(a)
           \/ \E a \in NsApps, s \in NsStateIds : Ns!BeginApp(a, s)
  <2>1. Same
    BY <1>1, <1>2 DEF Ns!ReconcileStart, Ns!ReconcileDone, Ns!SkipDeletedApp, Ns!DuplicateState, Ns!NeedState,
                      Ns!BeginApp, Ns!daemonVars
  <2>2. Own!LoopStep
    BY <1>2, <2>1
       DEF Same, Own!LoopStep,
           Ns!ReconcileStart, Own!ReconcileStart, Ns!ReconcileDone, Own!ReconcileDone, Ns!SkipDeletedApp,
           Own!SkipDeletedApp, Ns!DuplicateState, Own!DuplicateState, Ns!NeedState, Own!NeedState, Ns!BeginApp,
           Own!BeginApp, Ns!Return, Own!Return, Ns!ReturnAndRequeue, Own!ReturnAndRequeue, Ns!ReturnLocals,
           Own!ReturnLocals, Ns!getBpfAppState, Own!getBpfAppState, Ns!NoApps, Own!NoApps, Ns!objVars,
           Own!objVars, Ns!daemonVars, Own!daemonVars, Ns!loopVars, Own!loopVars, Ns!appVars, Own!appVars,
           Ns!progVars, Own!progVars
  <2>3. QED
    BY <2>1, <2>2 DEF Same, Own!LoopStep, Own!Next, Own!ReconcileStep
<1>3. CASE \/ Ns!createInitialBpfAppState \/ Ns!createInitialBpfAppStateFails
           \/ \E s \in NsStateIds : Ns!waitForBpfAppStateSpecUpdate(s) \/ Ns!waitForBpfAppStateStatusUpdate(s)
           \/ Ns!initBpfAppStateStatusFails \/ Ns!waitForBpfAppStateSpecUpdateTimesOut \/ Ns!waitForBpfAppStateStatusUpdateTimesOut
           \/ Ns!updateBpfAppStateStatus \/ Ns!updateBpfAppStateStatusFails
           \/ Ns!removeFinalizer \/ Ns!removeFinalizerFails
  <2>1. Same
    BY <1>1, <1>3
       DEF Ns!createInitialBpfAppState, Ns!createInitialBpfAppStateFails, Ns!waitForBpfAppStateSpecUpdate,
           Ns!waitForBpfAppStateStatusUpdate, Ns!waitForBpfAppStateSpecUpdateTimesOut, Ns!initBpfAppStateStatusFails,
           Ns!waitForBpfAppStateStatusUpdateTimesOut, Ns!updateBpfAppStateStatus,
           Ns!updateBpfAppStateStatusFails, Ns!removeFinalizer, Ns!removeFinalizerFails, Ns!daemonVars
  <2>2. ASSUME Ns!createInitialBpfAppState \/ Ns!createInitialBpfAppStateFails
        PROVE  Own!createInitialBpfAppState \/ Own!createInitialBpfAppStateFails
    BY <2>1, <2>2
       DEF Same,
           Ns!createInitialBpfAppState, Own!createInitialBpfAppState, Ns!createInitialBpfAppStateFails,
           Own!createInitialBpfAppStateFails, Ns!initBpfAppState, Own!initBpfAppState, Ns!NoProgs, Own!NoProgs,
           Ns!Fault, Own!Fault, Ns!ReturnAndRequeue, Own!ReturnAndRequeue, Ns!ReturnLocals, Own!ReturnLocals,
           Ns!NoApps, Own!NoApps, Ns!objVars, Own!objVars, Ns!daemonVars, Own!daemonVars, Ns!loopVars,
           Own!loopVars, Ns!appVars, Own!appVars, Ns!progVars, Own!progVars
  <2>3. ASSUME NEW s \in NsStateIds, Ns!waitForBpfAppStateSpecUpdate(s) \/ Ns!waitForBpfAppStateStatusUpdate(s)
        PROVE  Own!waitForBpfAppStateSpecUpdate(s) \/ Own!waitForBpfAppStateStatusUpdate(s)
    BY <2>1, <2>3
       DEF Same,
           Ns!waitForBpfAppStateSpecUpdate, Own!waitForBpfAppStateSpecUpdate, Ns!waitForBpfAppStateStatusUpdate,
           Own!waitForBpfAppStateStatusUpdate, Ns!initBpfAppStateStatus, Own!initBpfAppStateStatus,
           Ns!initializeNodeProgramList, Own!initializeNodeProgramList, Ns!NoLinks, Own!NoLinks, Ns!StatusSeen,
           Own!StatusSeen, Ns!Return, Own!Return, Ns!ReturnLocals, Own!ReturnLocals, Ns!getBpfAppState,
           Own!getBpfAppState, Ns!NoApps, Own!NoApps, Ns!objVars, Own!objVars, Ns!daemonVars, Own!daemonVars,
           Ns!loopVars, Own!loopVars, Ns!appVars, Own!appVars, Ns!progVars, Own!progVars
  <2>4. ASSUME Ns!initBpfAppStateStatusFails \/ Ns!waitForBpfAppStateSpecUpdateTimesOut \/ Ns!waitForBpfAppStateStatusUpdateTimesOut
        PROVE  Own!initBpfAppStateStatusFails \/ Own!waitForBpfAppStateSpecUpdateTimesOut \/ Own!waitForBpfAppStateStatusUpdateTimesOut
    BY <2>1, <2>4
       DEF Same,
           Ns!initBpfAppStateStatusFails, Own!initBpfAppStateStatusFails, Ns!getBpfAppState, Own!getBpfAppState,
           Ns!waitForBpfAppStateSpecUpdateTimesOut, Own!waitForBpfAppStateSpecUpdateTimesOut,
           Ns!waitForBpfAppStateStatusUpdateTimesOut, Own!waitForBpfAppStateStatusUpdateTimesOut, Ns!Fault,
           Own!Fault, Ns!ReturnAndRequeue, Own!ReturnAndRequeue, Ns!ReturnLocals, Own!ReturnLocals, Ns!NoApps,
           Own!NoApps, Ns!objVars, Own!objVars, Ns!daemonVars, Own!daemonVars
  <2>5. ASSUME Ns!updateBpfAppStateStatus \/ Ns!updateBpfAppStateStatusFails
        PROVE  Own!updateBpfAppStateStatus \/ Own!updateBpfAppStateStatusFails
    BY <2>1, <2>5
       DEF Same,
           Ns!updateBpfAppStateStatus, Own!updateBpfAppStateStatus, Ns!updateBpfAppStateStatusFails,
           Own!updateBpfAppStateStatusFails, Ns!Accepted, Own!Accepted, Ns!Fault, Own!Fault,
           Ns!ReturnAndRequeue, Own!ReturnAndRequeue, Ns!ReturnLocals, Own!ReturnLocals, Ns!NoApps, Own!NoApps,
           Ns!objVars, Own!objVars, Ns!daemonVars, Own!daemonVars, Ns!loopVars, Own!loopVars, Ns!progVars,
           Own!progVars
  <2>6. ASSUME Ns!removeFinalizer \/ Ns!removeFinalizerFails
        PROVE  Own!removeFinalizer \/ Own!removeFinalizerFails
    BY <2>1, <2>6
       DEF Same,
           Ns!removeFinalizer, Own!removeFinalizer, Ns!removeFinalizerFails, Own!removeFinalizerFails, Ns!Fault,
           Own!Fault, Ns!Return, Own!Return, Ns!ReturnLocals, Own!ReturnLocals, Ns!NoApps, Own!NoApps,
           Ns!objVars, Own!objVars, Ns!daemonVars, Own!daemonVars
  <2>7. Own!ReconcileStep
    BY <1>3, <2>2, <2>3, <2>4, <2>5, <2>6, Zenon DEF Own!ReconcileStep
  <2>8. QED
    BY <2>1, <2>7 DEF Same, Own!Next
<1>4. CASE Ns!BeginUnload \/ Ns!UnloadDone \/ Ns!NodeSelectorInvalid \/ Ns!ProgramListInvalid
  <2>1. Same
    BY <1>1, <1>4 DEF Ns!BeginUnload, Ns!UnloadDone, Ns!ProgramListInvalid, Ns!NodeSelectorInvalid, Ns!daemonVars
  <2>2. Own!BeginUnload \/ Own!UnloadDone \/ Own!NodeSelectorInvalid \/ Own!ProgramListInvalid
    BY <1>4, <2>1
       DEF Same,
           Ns!BeginUnload, Own!BeginUnload, Ns!UnloadDone, Own!UnloadDone, Ns!ProgramListInvalid, Ns!NodeSelectorInvalid,
           Own!ProgramListInvalid, Own!NodeSelectorInvalid, Ns!LoadError, Own!LoadError, Ns!MustLoad, Own!MustLoad,
           Ns!validateProgramList, Own!validateProgramList, Ns!isNodeSelected, Ns!isNodeSelectedFails, Own!isNodeSelected, Own!isNodeSelectedFails,
           Ns!isBeingDeleted, Own!isBeingDeleted, Ns!Recorded, Own!Recorded, Ns!objVars, Own!objVars,
           Ns!daemonVars, Own!daemonVars, Ns!loopVars, Own!loopVars, Ns!appVars, Own!appVars, Ns!progVars,
           Own!progVars
  <2>3. QED
    BY <2>1, <2>2 DEF Same, Own!Next, Own!ReconcileStep
<1>5. CASE \E p \in Progs : Ns!ProgramStateMissing(p) \/ Ns!updateLinks(p) \/ Ns!updateLinksFails(p)
  <2>1. Same
    BY <1>1, <1>5 DEF Ns!ProgramStateMissing, Ns!updateLinks, Ns!updateLinksFails, Ns!daemonVars
  <2>2. \E p \in Progs : Own!ProgramStateMissing(p) \/ Own!updateLinks(p) \/ Own!updateLinksFails(p)
    BY <1>5, <2>1
       DEF Same,
           Ns!ProgramStateMissing, Own!ProgramStateMissing, Ns!updateLinks, Own!updateLinks,
           Ns!updateLinksFails, Own!updateLinksFails, Ns!HasProgState, Own!HasProgState, Ns!getExpectedLinks,
           Own!getExpectedLinks, Ns!LinksWith, Own!LinksWith, Ns!NewLink, Own!NewLink, Ns!Fault, Own!Fault,
           Ns!objVars, Own!objVars, Ns!daemonVars, Own!daemonVars, Ns!loopVars, Own!loopVars, Ns!appVars,
           Own!appVars, Ns!progVars, Own!progVars
  <2>3. QED
    BY <2>1, <2>2 DEF Same, Own!Next, Own!ReconcileStep
<1>6. CASE (\E x \in Points : Ns!LinkPanic(x)) \/ Ns!LinksDone \/ Ns!StatusChanged \/ Ns!StatusUnchanged
  <2>1. Same
    BY <1>1, <1>6 DEF Ns!LinkPanic, Ns!LinksDone, Ns!StatusChanged, Ns!StatusUnchanged, Ns!daemonVars
  <2>2. (\E x \in Points : Own!LinkPanic(x)) \/ Own!LinksDone \/ Own!StatusChanged \/ Own!StatusUnchanged
    BY <1>6, <2>1
       DEF Same,
           Ns!LinkPanic, Own!LinkPanic, Ns!LinksDone, Own!LinksDone, Ns!StatusChanged, Own!StatusChanged,
           Ns!StatusUnchanged, Own!StatusUnchanged, Ns!AtLink, Own!AtLink, Ns!shouldAttach, Own!shouldAttach,
           Ns!updateProgramAttachStatus, Own!updateProgramAttachStatus, Ns!isAttachSuccess, Own!isAttachSuccess,
           Ns!VisitOver, Own!VisitOver, Ns!FinalState, Own!FinalState, Ns!Condition, Own!Condition,
           Ns!checkProgramStatus, Own!checkProgramStatus, Ns!ReadyToRelease, Own!ReadyToRelease,
           Ns!isBeingDeleted, Own!isBeingDeleted, Ns!IsBpfAppStateConditionFailure,
           Own!IsBpfAppStateConditionFailure, Ns!Recorded, Own!Recorded, Ns!ReturnAndRequeue,
           Own!ReturnAndRequeue, Ns!ReturnLocals, Own!ReturnLocals, Ns!NoApps, Own!NoApps, Ns!objVars,
           Own!objVars, Ns!daemonVars, Own!daemonVars, Ns!loopVars, Own!loopVars, Ns!appVars, Own!appVars,
           Ns!progVars, Own!progVars
  <2>3. QED
    BY <2>1, <2>2 DEF Same, Own!Next, Own!ReconcileStep
<1>7. CASE \/ Ns!ClusterStep \/ Ns!Resync
           \/ \E a \in NsApps : Ns!UserCreate(a) \/ Ns!UserDelete(a) \/ Ns!UserEdit(a)
  <2>1. Same
    BY <1>1, <1>7
       DEF Ns!ClusterStep, Ns!SyncState, Ns!GarbageCollect, Ns!OperatorRelease, Ns!Resync, Ns!UserCreate, Ns!Twice, Ns!Selectors,
           Ns!UserDelete, Ns!UserEdit, Ns!daemonVars
  <2>2. \/ Own!ClusterStep \/ Own!Resync
        \/ \E a \in NsApps : Own!UserCreate(a) \/ Own!UserDelete(a) \/ Own!UserEdit(a)
    BY <1>7, <2>1
       DEF Same,
           Ns!ClusterStep, Own!ClusterStep, Ns!SyncState, Own!SyncState, Ns!GarbageCollect, Own!GarbageCollect,
           Ns!OwnerAlive, Own!OwnerAlive, Ns!OperatorRelease, Own!OperatorRelease, Ns!Resync, Own!Resync,
           Ns!UserCreate, Ns!Twice, Ns!Selectors, Own!UserCreate, Own!Twice, Own!Selectors, Ns!UserDelete, Own!UserDelete, Ns!UserEdit, Own!UserEdit, Ns!Edit,
           Own!Edit, Ns!getBpfAppState, Own!getBpfAppState, Ns!objVars, Own!objVars, Ns!daemonVars,
           Own!daemonVars, Ns!loopVars, Own!loopVars, Ns!appVars, Own!appVars, Ns!progVars, Own!progVars,
           Ns!agentVars, Own!agentVars
  <2>3. QED
    BY <2>1, <2>2 DEF Same, Own!Next, Own!EnvironmentStep
<1>8. QED
  BY <1>2, <1>3, <1>4, <1>5, <1>6, <1>7, Zenon DEF NsApart

\* What a step does to bpfman: it leaves the other controller's alone.
ClusterSpares ==
  /\ DaemonTypeOK' /\ freeProgs' \subseteq freeProgs /\ freeLinks' \subseteq freeLinks
  /\ \A i \in NsHeld : i \in loaded' <=> i \in loaded
  /\ \A l \in LinkIds : linkProg[l] \in NsHeld \/ linkProg'[l] \in NsHeld => linkProg'[l] = linkProg[l]

\* Steps that ask bpfman, or have it do something.
ClusterAsks ==
  \/ AlreadyLoaded \/ load \/ loadFails
  \/ \E p \in Progs : unload(p)
  \/ \E x \in Points : \/ LinkInPlace(x) \/ LinkAttach(x) \/ LinkAttachFails(x)
                       \/ LinkDetach(x) \/ LinkDetachFails(x) \/ LinkDrop(x)

\* They too are steps in the controller's view.
LEMMA ClusterBusy ==
  ASSUME "reply" \notin Faults, "get" \notin Faults, DaemonTypeOK, Cl!DataInv,
         \A m \in freeLinks : linkProg[m] = None,
         ClHeld \cap NsHeld = {}, NsHeld \cap freeProgs = {}, NsHeld' = NsHeld,
         ClusterAsks
  PROVE  Cl!Next /\ ClusterSpares
<1> USE BpfAgentAssumption DEF DaemonTypeOK
<1>1. /\ pc \in Cl!AtState /\ cur \in Cl!StateObj /\ cur # None /\ None \notin NsHeld
  <2>1. pc \in Cl!AtState
    BY DEF ClusterAsks, AlreadyLoaded, load, loadFails, MustLoad, unload, LinkInPlace, LinkAttach, LinkAttachFails,
                   LinkDetach, BpfmanDetach, LinkDetachFails, LinkDrop, AtLink, Cl!AtState
  <2>2. cur \in Cl!StateObj /\ cur # None
    BY <2>1 DEF Cl!DataInv, Cl!LocalTypeOK, Cl!ControlOK
  <2>3. QED
    BY <2>1, <2>2 DEF NsHeld
<1>2. \A p \in Recorded(cur) : cur.progs[p].id \notin NsHeld
  BY <1>1 DEF ClHeld, NsHeld, ClCopies, RecordsProg
<1>3. \A i : i \notin NsHeld => (i \in ClLoaded <=> i \in loaded)
  BY DEF ClLoaded
<1>4. \A l \in LinkIds : /\ ClLinkProg[l] = IF linkProg[l] \in NsHeld THEN None ELSE linkProg[l]
                         /\ \A i : i \notin NsHeld /\ i # None => (ClLinkProg[l] = i <=> linkProg[l] = i)
  BY DEF ClLinkProg
<1>5. Cl!isLoaded(cur) <=> isLoaded(cur)
  BY <1>2, <1>3 DEF isLoaded, Cl!isLoaded, Recorded, Cl!Recorded, Recorded
<1>6. UNCHANGED <<loaded, linkProg>> => UNCHANGED <<ClLoaded, ClLinkProg>>
  BY ClusterSameView
<1>7. ASSUME NEW f, NEW P, f \in FreshIds(P), BpfmanLoad(f), UNCHANGED <<linkProg, freeLinks>>
      PROVE  f \in Cl!FreshIds(P) /\ Cl!BpfmanLoad(f) /\ UNCHANGED ClLinkProg /\ ClusterSpares
  <2> DEFINE ids == {f[p] : p \in DOMAIN f}
  <2>1. f \in [P -> freeProgs]
    BY <1>7 DEF FreshIds
  <2>2. ids \subseteq freeProgs
    BY <2>1
  <2>3. loaded' = loaded \cup ids /\ freeProgs' = freeProgs \ ids
    BY <1>7 DEF BpfmanLoad
  <2>4. f \in Cl!FreshIds(P)
    BY <1>7 DEF FreshIds, Cl!FreshIds
  <2> HIDE DEF ids
  <2>5. ClLoaded' = ClLoaded \cup ids /\ UNCHANGED ClLinkProg
    BY <1>7, <2>2, <2>3 DEF ClLoaded, ClLinkProg
  <2>6. Cl!BpfmanLoad(f)
    BY <2>3, <2>5 DEF Cl!BpfmanLoad, ids
  <2>7. ClusterSpares
    BY <1>7, <2>2, <2>3 DEF ClusterSpares
  <2>8. QED
    BY <2>4, <2>5, <2>6, <2>7
<1>8. UNCHANGED <<loaded, freeProgs, linkProg, freeLinks>> => ClusterSpares
  BY DEF ClusterSpares
<1>9. CASE AlreadyLoaded
  <2>1. UNCHANGED <<loaded, freeProgs, linkProg, freeLinks>>
    BY <1>9 DEF AlreadyLoaded, daemonVars
  <2>2. UNCHANGED <<ClLoaded, ClLinkProg>>
    BY <1>6, <2>1
  <2>3. Cl!AlreadyLoaded
    BY <1>5, <1>9, <2>1, <2>2
       DEF AlreadyLoaded, Cl!AlreadyLoaded, MustLoad, Cl!MustLoad, validateProgramList, Cl!validateProgramList,
           isNodeSelected, isNodeSelectedFails, Cl!isNodeSelected, Cl!isNodeSelectedFails, isBeingDeleted, Cl!isBeingDeleted, Recorded, Cl!Recorded, objVars,
           Cl!objVars, daemonVars, Cl!daemonVars, loopVars, Cl!loopVars
  <2>4. QED
    BY <1>8, <2>1, <2>3 DEF Cl!Next, Cl!ReconcileStep
<1>10. CASE load
  <2>1. PICK f \in FreshIds(Recorded(cur)) : BpfmanLoad(f) /\ cur' = WithIds(cur, f)
    BY <1>10 DEF load
  <2>2. UNCHANGED <<linkProg, freeLinks>>
    BY <1>10 DEF load
  <2>3. f \in Cl!FreshIds(Recorded(cur)) /\ Cl!BpfmanLoad(f) /\ UNCHANGED ClLinkProg /\ ClusterSpares
    BY <1>7, <2>1, <2>2
  <2>4. Recorded(cur) = Cl!Recorded(cur) /\ WithIds(cur, f) = Cl!WithIds(cur, f)
    BY DEF Recorded, Cl!Recorded, WithIds, Cl!WithIds
  <2>5. \E g \in Cl!FreshIds(Cl!Recorded(cur)) : Cl!BpfmanLoad(g) /\ cur' = Cl!WithIds(cur, g)
    BY <2>1, <2>3, <2>4
  <2>6. Cl!load
    BY <1>5, <1>10, <2>2, <2>3, <2>5
       DEF load, Cl!load, MustLoad, Cl!MustLoad, validateProgramList, Cl!validateProgramList, isNodeSelected, isNodeSelectedFails,
           Cl!isNodeSelected, Cl!isNodeSelectedFails, isBeingDeleted, Cl!isBeingDeleted, CanRequestLoad, Cl!CanRequestLoad,
           HasProgState, Cl!HasProgState, Fault, Cl!Fault, Recorded, Cl!Recorded, objVars, Cl!objVars, loopVars,
           Cl!loopVars
  <2>7. QED
    BY <2>3, <2>6 DEF Cl!Next, Cl!ReconcileStep
<1>11. CASE loadFails
  <2>1. UNCHANGED <<loaded, freeProgs, linkProg, freeLinks>>
    BY <1>11 DEF loadFails, daemonVars, Fault
  <2>2. UNCHANGED <<ClLoaded, ClLinkProg>>
    BY <1>6, <2>1
  <2>3. Cl!loadFails
    BY <1>5, <1>11, <2>1, <2>2
       DEF loadFails, Cl!loadFails, LoadError, Cl!LoadError, MustLoad, Cl!MustLoad, validateProgramList,
           Cl!validateProgramList, isNodeSelected, isNodeSelectedFails, Cl!isNodeSelected, Cl!isNodeSelectedFails, isBeingDeleted, Cl!isBeingDeleted,
           CanRequestLoad, Cl!CanRequestLoad, HasProgState, Cl!HasProgState, Fault, Cl!Fault, Recorded,
           Cl!Recorded, objVars, Cl!objVars, daemonVars, Cl!daemonVars, loopVars, Cl!loopVars, progVars,
           Cl!progVars
  <2>4. QED
    BY <1>8, <2>1, <2>3 DEF Cl!Next, Cl!ReconcileStep
<1>12. ASSUME NEW p \in Progs, unload(p) PROVE Cl!Next /\ ClusterSpares
  <2> DEFINE id == cur.progs[p].id
  <2>1. id \notin NsHeld
    <3>1. cur.progs[p] # None
      BY <1>12 DEF unload, Cl!DataInv, Cl!ControlOK
    <3>2. QED
      BY <1>2, <3>1 DEF Recorded
  <2>2. id \in ClLoaded <=> id \in loaded
    BY <1>3, <2>1
  <2>3. UNCHANGED <<freeProgs, freeLinks>>
    BY <1>12 DEF unload
  <2>4. \/ id \in loaded /\ BpfmanUnload(id) /\ UNCHANGED faults
        \/ id \notin loaded /\ UNCHANGED <<loaded, linkProg, faults>>
        \/ id \in loaded /\ Fault("unload") /\ UNCHANGED <<loaded, linkProg>>
    BY <1>12 DEF unload
  <2>5. ASSUME BpfmanUnload(id), id \in loaded PROVE Cl!BpfmanUnload(id) /\ ClusterSpares
    <3>1. /\ loaded' = loaded \ {id} /\ id # None
          /\ linkProg' = [l \in LinkIds |-> IF linkProg[l] = id THEN None ELSE linkProg[l]]
      BY <2>5 DEF BpfmanUnload
    <3>2. ClLoaded' = ClLoaded \ {id}
      BY <3>1 DEF ClLoaded
    <3>3. ClLinkProg' = [l \in LinkIds |-> IF ClLinkProg[l] = id THEN None ELSE ClLinkProg[l]]
      BY <1>4, <2>1, <3>1 DEF ClLinkProg
    <3>4. ClusterSpares
      BY <1>1, <2>1, <2>3, <3>1 DEF ClusterSpares
    <3>5. QED
      BY <3>2, <3>3, <3>4 DEF Cl!BpfmanUnload
  <2>6. /\ \/ id \in ClLoaded /\ Cl!BpfmanUnload(id) /\ UNCHANGED faults
           \/ id \notin ClLoaded /\ UNCHANGED <<ClLoaded, ClLinkProg, faults>>
           \/ id \in ClLoaded /\ Cl!Fault("unload") /\ UNCHANGED <<ClLoaded, ClLinkProg>>
        /\ ClusterSpares
    BY <1>6, <1>8, <2>2, <2>3, <2>4, <2>5 DEF Fault, Cl!Fault
  <2>7. Cl!unload(p)
    BY <1>12, <2>3, <2>6 DEF unload, Cl!unload, UnloadedProg, Cl!UnloadedProg, NoLinks, Cl!NoLinks, objVars,
                             Cl!objVars, loopVars, Cl!loopVars
  <2>8. QED
    BY <2>6, <2>7 DEF Cl!Next, Cl!ReconcileStep
<1>13. ASSUME NEW x \in Points, AtLink(x), cp \in Progs, cur.progs[cp] # None, cur.progs[cp].links[x] # None
       PROVE  /\ cur.progs[cp].id \notin NsHeld /\ cur.progs[cp].links[x].id \in LinkIds \cup {None}
              /\ cur.progs[cp].id \in ClLoaded <=> cur.progs[cp].id \in loaded
              /\ Cl!isAttached(x) <=> isAttached(x)
  <2>1. cur.progs[cp].id \notin NsHeld
    BY <1>2, <1>13 DEF Recorded
  <2>2. cur.progs[cp] \in Cl!ProgState
    BY <1>1, <1>13 DEF Cl!StateObj
  <2>3. cur.progs[cp].links[x] \in Cl!LinkState
    BY <1>13, <2>2 DEF Cl!ProgState
  <2>4. cur.progs[cp].links[x].id \in LinkIds \cup {None}
    BY <2>3 DEF Cl!LinkState
  <2>5. cur.progs[cp].id \in ClLoaded <=> cur.progs[cp].id \in loaded
    BY <1>3, <2>1
  <2>6. Cl!isAttached(x) <=> isAttached(x)
    <3> DEFINE id == cur.progs[cp].id
               l == cur.progs[cp].links[x].id
    <3>1. /\ Cl!isAttached(x) <=> id \in ClLoaded /\ l # None /\ ClLinkProg[l] = id
          /\ isAttached(x) <=> id \in loaded /\ l # None /\ linkProg[l] = id
      BY DEF isAttached, Cl!isAttached
    <3>2. id \in loaded => id # None
      OBVIOUS
    <3>3. id \in loaded /\ l # None => (ClLinkProg[l] = id <=> linkProg[l] = id)
      BY <1>4, <2>1, <2>4, <3>2
    <3> HIDE DEF id, l
    <3>4. QED
      BY <2>5, <3>1, <3>3 DEF id
  <2>7. QED
    BY <2>1, <2>4, <2>5, <2>6
<1>14. ASSUME NEW x \in Points, NEW new, VisitLink(x, new), UNCHANGED <<ClLoaded>> PROVE Cl!VisitLink(x, new)
  BY <1>14 DEF VisitLink, Cl!VisitLink, objVars, Cl!objVars, loopVars, Cl!loopVars
<1>15. ASSUME NEW x \in Points, \/ LinkInPlace(x) \/ LinkAttach(x) \/ LinkAttachFails(x)
                                \/ LinkDetach(x) \/ LinkDetachFails(x) \/ LinkDrop(x)
       PROVE  Cl!Next /\ ClusterSpares
  <2> DEFINE id == cur.progs[cp].id
             l == cur.progs[cp].links[x].id
  <2>1. AtLink(x) /\ Cl!AtLink(x)
    BY <1>15 DEF LinkInPlace, LinkAttach, LinkAttachFails, LinkDetach, BpfmanDetach, LinkDetachFails, LinkDrop, AtLink,
                                                                                                 Cl!AtLink
  <2>2. cp \in Progs /\ cur.progs[cp] # None /\ cur.progs[cp].links[x] # None
    BY <2>1 DEF Cl!AtLink, Cl!DataInv, Cl!ControlOK
  <2>3. /\ id \notin NsHeld /\ l \in LinkIds \cup {None} /\ (id \in ClLoaded <=> id \in loaded)
        /\ Cl!isAttached(x) <=> isAttached(x)
    BY <1>13, <2>1, <2>2
  <2>4. UNCHANGED <<loaded, freeProgs>>
    BY <1>15 DEF LinkInPlace, LinkAttach, LinkAttachFails, LinkDetach, BpfmanDetach, LinkDetachFails, LinkDrop, VisitLink
  <2>5. UNCHANGED ClLoaded
    BY <2>4 DEF ClLoaded
  <2>6. Cl!shouldAttach(x) = shouldAttach(x) /\ \A status : Cl!WithStatus(x, status) = WithStatus(x, status)
    BY DEF shouldAttach, Cl!shouldAttach, WithStatus, Cl!WithStatus
  <2>7. CASE LinkInPlace(x) \/ LinkAttachFails(x) \/ LinkDetachFails(x) \/ LinkDrop(x)
    <3>1. UNCHANGED <<linkProg, freeLinks>>
      BY <2>7 DEF LinkInPlace, LinkAttachFails, LinkDetachFails, LinkDrop, Fault
    <3>2. UNCHANGED ClLinkProg
      BY <1>6, <2>4, <3>1
    <3>3. Cl!LinkInPlace(x) \/ Cl!LinkAttachFails(x) \/ Cl!LinkDetachFails(x) \/ Cl!LinkDrop(x)
      BY <1>14, <2>1, <2>3, <2>5, <2>6, <2>7, <3>1, <3>2
         DEF LinkInPlace, Cl!LinkInPlace, LinkAttachFails, Cl!LinkAttachFails, LinkDetachFails,
             Cl!LinkDetachFails, LinkDrop, Cl!LinkDrop, Fault, Cl!Fault
    <3>4. QED
      BY <1>8, <2>4, <3>1, <3>3 DEF Cl!Next, Cl!ReconcileStep
  <2>8. CASE LinkAttach(x)
    <3>1. PICK m \in freeLinks : BpfmanAttach(m, id) /\ VisitLink(x, [WithStatus(x, "Attached") EXCEPT !.id = m])
      BY <2>8 DEF LinkAttach
    <3>2. /\ m \in LinkIds /\ id \in loaded /\ linkProg' = [linkProg EXCEPT ![m] = id]
          /\ freeLinks' = freeLinks \ {m} /\ \A k \in freeLinks : m <= k
      BY <2>8, <3>1 DEF LinkAttach, BpfmanAttach
    <3>3. ClLinkProg' = [ClLinkProg EXCEPT ![m] = id]
      BY <2>3, <3>2 DEF ClLinkProg
    <3>4. Cl!BpfmanAttach(m, id)
      BY <3>2, <3>3 DEF Cl!BpfmanAttach
    <3>5. Cl!VisitLink(x, [Cl!WithStatus(x, "Attached") EXCEPT !.id = m])
      BY <1>14, <2>5, <2>6, <3>1
    <3>6. Cl!LinkAttach(x)
      BY <2>1, <2>3, <2>6, <2>8, <3>1, <3>4, <3>5 DEF LinkAttach, Cl!LinkAttach, Fault, Cl!Fault
    <3>7. ClusterSpares
      <4>1. linkProg[m] \notin NsHeld
        BY <1>1, <3>1
      <4>2. QED
        BY <2>3, <2>4, <3>2, <4>1 DEF ClusterSpares
    <3>8. QED
      BY <3>6, <3>7 DEF Cl!Next, Cl!ReconcileStep
  <2>9. CASE LinkDetach(x)
    <3>1. /\ l \in LinkIds /\ linkProg[l] = id /\ linkProg' = [linkProg EXCEPT ![l] = None]
          /\ VisitLink(x, None) /\ UNCHANGED <<freeLinks, faults>>
      BY <2>3, <2>9 DEF LinkDetach, BpfmanDetach, isAttached
    <3>2. ClLinkProg' = [ClLinkProg EXCEPT ![l] = None]
      BY <1>1, <3>1 DEF ClLinkProg
    <3>3. Cl!LinkDetach(x)
      BY <1>14, <2>1, <2>3, <2>5, <2>6, <2>9, <3>1, <3>2 DEF LinkDetach, BpfmanDetach, Cl!LinkDetach, Cl!BpfmanDetach
    <3>4. ClusterSpares
      BY <1>1, <2>3, <2>4, <3>1 DEF ClusterSpares
    <3>5. QED
      BY <3>3, <3>4 DEF Cl!Next, Cl!ReconcileStep
  <2>10. QED
    BY <1>15, <2>7, <2>8, <2>9
<1>16. QED
  BY <1>9, <1>10, <1>11, <1>12, <1>15, Zenon DEF ClusterAsks

\* What a step does to bpfman: it leaves the other controller's alone.
NsSpares ==
  /\ DaemonTypeOK' /\ freeProgs' \subseteq freeProgs /\ freeLinks' \subseteq freeLinks
  /\ \A i \in ClHeld : i \in loaded' <=> i \in loaded
  /\ \A l \in LinkIds : linkProg[l] \in ClHeld \/ linkProg'[l] \in ClHeld => linkProg'[l] = linkProg[l]

\* Steps that ask bpfman, or have it do something.
NsAsks ==
  \/ Ns!AlreadyLoaded \/ Ns!load \/ Ns!loadFails
  \/ \E p \in Progs : Ns!unload(p)
  \/ \E x \in Points : \/ Ns!LinkInPlace(x) \/ Ns!LinkAttach(x) \/ Ns!LinkAttachFails(x)
                       \/ Ns!LinkDetach(x) \/ Ns!LinkDetachFails(x) \/ Ns!LinkDrop(x)

\* They too are steps in the controller's view.
LEMMA NsBusy ==
  ASSUME "reply" \notin Faults, "get" \notin Faults, DaemonTypeOK, Own!DataInv,
         \A m \in freeLinks : linkProg[m] = None,
         NsHeld \cap ClHeld = {}, ClHeld \cap freeProgs = {}, ClHeld' = ClHeld,
         NsAsks
  PROVE  Own!Next /\ NsSpares
<1> USE BpfAgentAssumption DEF DaemonTypeOK
<1>1. /\ nsPc \in Own!AtState /\ nsCur \in Own!StateObj /\ nsCur # None /\ None \notin ClHeld
  <2>1. nsPc \in Own!AtState
    BY DEF NsAsks, Ns!AlreadyLoaded, Ns!load, Ns!loadFails, Ns!MustLoad, Ns!unload, Ns!LinkInPlace,
                   Ns!LinkAttach, Ns!LinkAttachFails, Ns!LinkDetach, Ns!BpfmanDetach, Ns!LinkDetachFails, Ns!LinkDrop, Ns!AtLink, Own!AtState
  <2>2. nsCur \in Own!StateObj /\ nsCur # None
    BY <2>1 DEF Own!DataInv, Own!LocalTypeOK, Own!ControlOK
  <2>3. QED
    BY <2>1, <2>2 DEF ClHeld
<1>2. \A p \in Recorded(nsCur) : nsCur.progs[p].id \notin ClHeld
  BY <1>1 DEF NsHeld, ClHeld, NsCopies, RecordsProg
<1>3. \A i : i \notin ClHeld => (i \in NsLoaded <=> i \in loaded)
  BY DEF NsLoaded
<1>4. \A l \in LinkIds : /\ NsLinkProg[l] = IF linkProg[l] \in ClHeld THEN None ELSE linkProg[l]
                         /\ \A i : i \notin ClHeld /\ i # None => (NsLinkProg[l] = i <=> linkProg[l] = i)
  BY DEF NsLinkProg
<1>5. Own!isLoaded(nsCur) <=> Ns!isLoaded(nsCur)
  BY <1>2, <1>3 DEF Ns!isLoaded, Own!isLoaded, Ns!Recorded, Own!Recorded, Recorded
<1>6. UNCHANGED <<loaded, linkProg>> => UNCHANGED <<NsLoaded, NsLinkProg>>
  BY NsSameView
<1>7. ASSUME NEW f, NEW P, f \in Ns!FreshIds(P), Ns!BpfmanLoad(f), UNCHANGED <<linkProg, freeLinks>>
      PROVE  f \in Own!FreshIds(P) /\ Own!BpfmanLoad(f) /\ UNCHANGED NsLinkProg /\ NsSpares
  <2> DEFINE ids == {f[p] : p \in DOMAIN f}
  <2>1. f \in [P -> freeProgs]
    BY <1>7 DEF Ns!FreshIds
  <2>2. ids \subseteq freeProgs
    BY <2>1
  <2>3. loaded' = loaded \cup ids /\ freeProgs' = freeProgs \ ids
    BY <1>7 DEF Ns!BpfmanLoad
  <2>4. f \in Own!FreshIds(P)
    BY <1>7 DEF Ns!FreshIds, Own!FreshIds
  <2> HIDE DEF ids
  <2>5. NsLoaded' = NsLoaded \cup ids /\ UNCHANGED NsLinkProg
    BY <1>7, <2>2, <2>3 DEF NsLoaded, NsLinkProg
  <2>6. Own!BpfmanLoad(f)
    BY <2>3, <2>5 DEF Own!BpfmanLoad, ids
  <2>7. NsSpares
    BY <1>7, <2>2, <2>3 DEF NsSpares
  <2>8. QED
    BY <2>4, <2>5, <2>6, <2>7
<1>8. UNCHANGED <<loaded, freeProgs, linkProg, freeLinks>> => NsSpares
  BY DEF NsSpares
<1>9. CASE Ns!AlreadyLoaded
  <2>1. UNCHANGED <<loaded, freeProgs, linkProg, freeLinks>>
    BY <1>9 DEF Ns!AlreadyLoaded, Ns!daemonVars
  <2>2. UNCHANGED <<NsLoaded, NsLinkProg>>
    BY <1>6, <2>1
  <2>3. Own!AlreadyLoaded
    BY <1>5, <1>9, <2>1, <2>2
       DEF Ns!AlreadyLoaded, Own!AlreadyLoaded, Ns!MustLoad, Own!MustLoad, Ns!validateProgramList,
           Own!validateProgramList, Ns!isNodeSelected, Ns!isNodeSelectedFails, Own!isNodeSelected, Own!isNodeSelectedFails, Ns!isBeingDeleted,
           Own!isBeingDeleted, Ns!Recorded, Own!Recorded, Ns!objVars, Own!objVars, Ns!daemonVars,
           Own!daemonVars, Ns!loopVars, Own!loopVars
  <2>4. QED
    BY <1>8, <2>1, <2>3 DEF Own!Next, Own!ReconcileStep
<1>10. CASE Ns!load
  <2>1. PICK f \in Ns!FreshIds(Ns!Recorded(nsCur)) : Ns!BpfmanLoad(f) /\ nsCur' = Ns!WithIds(nsCur, f)
    BY <1>10 DEF Ns!load
  <2>2. UNCHANGED <<linkProg, freeLinks>>
    BY <1>10 DEF Ns!load
  <2>3. f \in Own!FreshIds(Ns!Recorded(nsCur)) /\ Own!BpfmanLoad(f) /\ UNCHANGED NsLinkProg /\ NsSpares
    BY <1>7, <2>1, <2>2
  <2>4. Ns!Recorded(nsCur) = Own!Recorded(nsCur) /\ Ns!WithIds(nsCur, f) = Own!WithIds(nsCur, f)
    BY DEF Ns!Recorded, Own!Recorded, Ns!WithIds, Own!WithIds
  <2>5. \E g \in Own!FreshIds(Own!Recorded(nsCur)) : Own!BpfmanLoad(g) /\ nsCur' = Own!WithIds(nsCur, g)
    BY <2>1, <2>3, <2>4
  <2>6. Own!load
    BY <1>5, <1>10, <2>2, <2>3, <2>5
       DEF Ns!load, Own!load, Ns!MustLoad, Own!MustLoad, Ns!validateProgramList, Own!validateProgramList,
           Ns!isNodeSelected, Ns!isNodeSelectedFails, Own!isNodeSelected, Own!isNodeSelectedFails, Ns!isBeingDeleted, Own!isBeingDeleted, Ns!CanRequestLoad,
           Own!CanRequestLoad, Ns!HasProgState, Own!HasProgState, Ns!Fault, Own!Fault, Ns!Recorded,
           Own!Recorded, Ns!objVars, Own!objVars, Ns!loopVars, Own!loopVars
  <2>7. QED
    BY <2>3, <2>6 DEF Own!Next, Own!ReconcileStep
<1>11. CASE Ns!loadFails
  <2>1. UNCHANGED <<loaded, freeProgs, linkProg, freeLinks>>
    BY <1>11 DEF Ns!loadFails, Ns!daemonVars, Ns!Fault
  <2>2. UNCHANGED <<NsLoaded, NsLinkProg>>
    BY <1>6, <2>1
  <2>3. Own!loadFails
    BY <1>5, <1>11, <2>1, <2>2
       DEF Ns!loadFails, Own!loadFails, Ns!LoadError, Own!LoadError, Ns!MustLoad, Own!MustLoad,
           Ns!validateProgramList, Own!validateProgramList, Ns!isNodeSelected, Ns!isNodeSelectedFails, Own!isNodeSelected, Own!isNodeSelectedFails,
           Ns!isBeingDeleted, Own!isBeingDeleted, Ns!CanRequestLoad, Own!CanRequestLoad, Ns!HasProgState,
           Own!HasProgState, Ns!Fault, Own!Fault, Ns!Recorded, Own!Recorded, Ns!objVars, Own!objVars,
           Ns!daemonVars, Own!daemonVars, Ns!loopVars, Own!loopVars, Ns!progVars, Own!progVars
  <2>4. QED
    BY <1>8, <2>1, <2>3 DEF Own!Next, Own!ReconcileStep
<1>12. ASSUME NEW p \in Progs, Ns!unload(p) PROVE Own!Next /\ NsSpares
  <2> DEFINE id == nsCur.progs[p].id
  <2>1. id \notin ClHeld
    <3>1. nsCur.progs[p] # None
      BY <1>12 DEF Ns!unload, Own!DataInv, Own!ControlOK
    <3>2. QED
      BY <1>2, <3>1 DEF Recorded
  <2>2. id \in NsLoaded <=> id \in loaded
    BY <1>3, <2>1
  <2>3. UNCHANGED <<freeProgs, freeLinks>>
    BY <1>12 DEF Ns!unload
  <2>4. \/ id \in loaded /\ Ns!BpfmanUnload(id) /\ UNCHANGED faults
        \/ id \notin loaded /\ UNCHANGED <<loaded, linkProg, faults>>
        \/ id \in loaded /\ Ns!Fault("unload") /\ UNCHANGED <<loaded, linkProg>>
    BY <1>12 DEF Ns!unload
  <2>5. ASSUME Ns!BpfmanUnload(id), id \in loaded PROVE Own!BpfmanUnload(id) /\ NsSpares
    <3>1. /\ loaded' = loaded \ {id} /\ id # None
          /\ linkProg' = [l \in LinkIds |-> IF linkProg[l] = id THEN None ELSE linkProg[l]]
      BY <2>5 DEF Ns!BpfmanUnload
    <3>2. NsLoaded' = NsLoaded \ {id}
      BY <3>1 DEF NsLoaded
    <3>3. NsLinkProg' = [l \in LinkIds |-> IF NsLinkProg[l] = id THEN None ELSE NsLinkProg[l]]
      BY <1>4, <2>1, <3>1 DEF NsLinkProg
    <3>4. NsSpares
      BY <1>1, <2>1, <2>3, <3>1 DEF NsSpares
    <3>5. QED
      BY <3>2, <3>3, <3>4 DEF Own!BpfmanUnload
  <2>6. /\ \/ id \in NsLoaded /\ Own!BpfmanUnload(id) /\ UNCHANGED faults
           \/ id \notin NsLoaded /\ UNCHANGED <<NsLoaded, NsLinkProg, faults>>
           \/ id \in NsLoaded /\ Own!Fault("unload") /\ UNCHANGED <<NsLoaded, NsLinkProg>>
        /\ NsSpares
    BY <1>6, <1>8, <2>2, <2>3, <2>4, <2>5 DEF Ns!Fault, Own!Fault
  <2>7. Own!unload(p)
    BY <1>12, <2>3, <2>6 DEF Ns!unload, Own!unload, Ns!UnloadedProg, Own!UnloadedProg, Ns!NoLinks, Own!NoLinks,
                             Ns!objVars, Own!objVars, Ns!loopVars, Own!loopVars
  <2>8. QED
    BY <2>6, <2>7 DEF Own!Next, Own!ReconcileStep
<1>13. ASSUME NEW x \in Points, Ns!AtLink(x), nsCp \in Progs, nsCur.progs[nsCp] # None, nsCur.progs[nsCp].links[x] # None
       PROVE  /\ nsCur.progs[nsCp].id \notin ClHeld /\ nsCur.progs[nsCp].links[x].id \in LinkIds \cup {None}
              /\ nsCur.progs[nsCp].id \in NsLoaded <=> nsCur.progs[nsCp].id \in loaded
              /\ Own!isAttached(x) <=> Ns!isAttached(x)
  <2>1. nsCur.progs[nsCp].id \notin ClHeld
    BY <1>2, <1>13 DEF Recorded
  <2>2. nsCur.progs[nsCp] \in Own!ProgState
    BY <1>1, <1>13 DEF Own!StateObj
  <2>3. nsCur.progs[nsCp].links[x] \in Own!LinkState
    BY <1>13, <2>2 DEF Own!ProgState
  <2>4. nsCur.progs[nsCp].links[x].id \in LinkIds \cup {None}
    BY <2>3 DEF Own!LinkState
  <2>5. nsCur.progs[nsCp].id \in NsLoaded <=> nsCur.progs[nsCp].id \in loaded
    BY <1>3, <2>1
  <2>6. Own!isAttached(x) <=> Ns!isAttached(x)
    <3> DEFINE id == nsCur.progs[nsCp].id
               l == nsCur.progs[nsCp].links[x].id
    <3>1. /\ Own!isAttached(x) <=> id \in NsLoaded /\ l # None /\ NsLinkProg[l] = id
          /\ Ns!isAttached(x) <=> id \in loaded /\ l # None /\ linkProg[l] = id
      BY DEF Ns!isAttached, Own!isAttached
    <3>2. id \in loaded => id # None
      OBVIOUS
    <3>3. id \in loaded /\ l # None => (NsLinkProg[l] = id <=> linkProg[l] = id)
      BY <1>4, <2>1, <2>4, <3>2
    <3> HIDE DEF id, l
    <3>4. QED
      BY <2>5, <3>1, <3>3 DEF id
  <2>7. QED
    BY <2>1, <2>4, <2>5, <2>6
<1>14. ASSUME NEW x \in Points, NEW new, Ns!VisitLink(x, new), UNCHANGED <<NsLoaded>> PROVE Own!VisitLink(x, new)
  BY <1>14 DEF Ns!VisitLink, Own!VisitLink, Ns!objVars, Own!objVars, Ns!loopVars, Own!loopVars
<1>15. ASSUME NEW x \in Points, \/ Ns!LinkInPlace(x) \/ Ns!LinkAttach(x) \/ Ns!LinkAttachFails(x)
                                \/ Ns!LinkDetach(x) \/ Ns!LinkDetachFails(x) \/ Ns!LinkDrop(x)
       PROVE  Own!Next /\ NsSpares
  <2> DEFINE id == nsCur.progs[nsCp].id
             l == nsCur.progs[nsCp].links[x].id
  <2>1. Ns!AtLink(x) /\ Own!AtLink(x)
    BY <1>15 DEF Ns!LinkInPlace, Ns!LinkAttach, Ns!LinkAttachFails, Ns!LinkDetach, Ns!BpfmanDetach, Ns!LinkDetachFails,
                 Ns!LinkDrop, Ns!AtLink,
                                                                                                 Own!AtLink
  <2>2. nsCp \in Progs /\ nsCur.progs[nsCp] # None /\ nsCur.progs[nsCp].links[x] # None
    BY <2>1 DEF Own!AtLink, Own!DataInv, Own!ControlOK
  <2>3. /\ id \notin ClHeld /\ l \in LinkIds \cup {None} /\ (id \in NsLoaded <=> id \in loaded)
        /\ Own!isAttached(x) <=> Ns!isAttached(x)
    BY <1>13, <2>1, <2>2
  <2>4. UNCHANGED <<loaded, freeProgs>>
    BY <1>15 DEF Ns!LinkInPlace, Ns!LinkAttach, Ns!LinkAttachFails, Ns!LinkDetach, Ns!BpfmanDetach, Ns!LinkDetachFails,
                 Ns!LinkDrop, Ns!VisitLink
  <2>5. UNCHANGED NsLoaded
    BY <2>4 DEF NsLoaded
  <2>6. Own!shouldAttach(x) = Ns!shouldAttach(x) /\ \A status : Own!WithStatus(x, status) = Ns!WithStatus(x, status)
    BY DEF Ns!shouldAttach, Own!shouldAttach, Ns!WithStatus, Own!WithStatus
  <2>7. CASE Ns!LinkInPlace(x) \/ Ns!LinkAttachFails(x) \/ Ns!LinkDetachFails(x) \/ Ns!LinkDrop(x)
    <3>1. UNCHANGED <<linkProg, freeLinks>>
      BY <2>7 DEF Ns!LinkInPlace, Ns!LinkAttachFails, Ns!LinkDetachFails, Ns!LinkDrop, Ns!Fault
    <3>2. UNCHANGED NsLinkProg
      BY <1>6, <2>4, <3>1
    <3>3. Own!LinkInPlace(x) \/ Own!LinkAttachFails(x) \/ Own!LinkDetachFails(x) \/ Own!LinkDrop(x)
      BY <1>14, <2>1, <2>3, <2>5, <2>6, <2>7, <3>1, <3>2
         DEF Ns!LinkInPlace, Own!LinkInPlace, Ns!LinkAttachFails, Own!LinkAttachFails, Ns!LinkDetachFails,
             Own!LinkDetachFails, Ns!LinkDrop, Own!LinkDrop, Ns!Fault, Own!Fault
    <3>4. QED
      BY <1>8, <2>4, <3>1, <3>3 DEF Own!Next, Own!ReconcileStep
  <2>8. CASE Ns!LinkAttach(x)
    <3>1. PICK m \in freeLinks : Ns!BpfmanAttach(m, id) /\ Ns!VisitLink(x, [Ns!WithStatus(x, "Attached") EXCEPT !.id = m])
      BY <2>8 DEF Ns!LinkAttach
    <3>2. /\ m \in LinkIds /\ id \in loaded /\ linkProg' = [linkProg EXCEPT ![m] = id]
          /\ freeLinks' = freeLinks \ {m} /\ \A k \in freeLinks : m <= k
      BY <2>8, <3>1 DEF Ns!LinkAttach, Ns!BpfmanAttach
    <3>3. NsLinkProg' = [NsLinkProg EXCEPT ![m] = id]
      BY <2>3, <3>2 DEF NsLinkProg
    <3>4. Own!BpfmanAttach(m, id)
      BY <3>2, <3>3 DEF Own!BpfmanAttach
    <3>5. Own!VisitLink(x, [Own!WithStatus(x, "Attached") EXCEPT !.id = m])
      BY <1>14, <2>5, <2>6, <3>1
    <3>6. Own!LinkAttach(x)
      BY <2>1, <2>3, <2>6, <2>8, <3>1, <3>4, <3>5 DEF Ns!LinkAttach, Own!LinkAttach, Ns!Fault, Own!Fault
    <3>7. NsSpares
      <4>1. linkProg[m] \notin ClHeld
        BY <1>1, <3>1
      <4>2. QED
        BY <2>3, <2>4, <3>2, <4>1 DEF NsSpares
    <3>8. QED
      BY <3>6, <3>7 DEF Own!Next, Own!ReconcileStep
  <2>9. CASE Ns!LinkDetach(x)
    <3>1. /\ l \in LinkIds /\ linkProg[l] = id /\ linkProg' = [linkProg EXCEPT ![l] = None]
          /\ Ns!VisitLink(x, None) /\ UNCHANGED <<freeLinks, faults>>
      BY <2>3, <2>9 DEF Ns!LinkDetach, Ns!BpfmanDetach, Ns!isAttached
    <3>2. NsLinkProg' = [NsLinkProg EXCEPT ![l] = None]
      BY <1>1, <3>1 DEF NsLinkProg
    <3>3. Own!LinkDetach(x)
      BY <1>14, <2>1, <2>3, <2>5, <2>6, <2>9, <3>1, <3>2 DEF Ns!LinkDetach, Ns!BpfmanDetach, Own!LinkDetach, Own!BpfmanDetach
    <3>4. NsSpares
      BY <1>1, <2>3, <2>4, <3>1 DEF NsSpares
    <3>5. QED
      BY <3>3, <3>4 DEF Own!Next, Own!ReconcileStep
  <2>10. QED
    BY <1>15, <2>7, <2>8, <2>9
<1>16. QED
  BY <1>9, <1>10, <1>11, <1>12, <1>15, Zenon DEF NsAsks

\* Those steps move on in the visit.
LEMMA ClusterMoves ==
  ASSUME ClusterAsks
  PROVE  ~UNCHANGED <<pc, ptodo, ltodo>>
BY DEF ClusterAsks, AlreadyLoaded, load, loadFails, MustLoad, LoadError, unload, LinkInPlace, LinkAttach,
               LinkAttachFails, LinkDetach, BpfmanDetach, LinkDetachFails, LinkDrop, AtLink, VisitLink

\* Those steps move on in the visit.
LEMMA NsMoves ==
  ASSUME NsAsks
  PROVE  ~UNCHANGED <<nsPc, nsPtodo, nsLtodo>>
BY DEF NsAsks, Ns!AlreadyLoaded, Ns!load, Ns!loadFails, Ns!MustLoad, Ns!LoadError, Ns!unload, Ns!LinkInPlace,
               Ns!LinkAttach, Ns!LinkAttachFails, Ns!LinkDetach, Ns!BpfmanDetach, Ns!LinkDetachFails, Ns!LinkDrop, Ns!AtLink,
               Ns!VisitLink

\* The steps of the cluster controller, and of the objects it watches, are of these
\* two kinds.
LEMMA ClusterKinds ==
  ASSUME ClusterReconcile \/ ClusterObjects
  PROVE  UNCHANGED nsVars /\ (ClusterApart \/ ClusterAsks)
<1>1. CASE ClusterReconcile
  BY <1>1, Zenon
     DEF ClusterReconcile, ClusterAlone, ClusterApart, ClusterAsks, ReconcileStep
<1>2. CASE ClusterObjects
  BY <1>2, Zenon DEF ClusterObjects, ClusterAlone, ClusterApart
<1>3. QED
  BY <1>1, <1>2

\* None of them changes where programs can be attached.
LEMMA ClusterSamePoints ==
  ASSUME ClusterApart \/ ClusterAsks
  PROVE  UNCHANGED avail
<1>1. CASE \/ ReconcileStart \/ ReconcileDone
           \/ \E a \in Apps : SkipDeletedApp(a) \/ DuplicateState(a) \/ NeedState(a)
           \/ \E a \in Apps, s \in StateIds : BeginApp(a, s)
           \/ createInitialBpfAppState \/ createInitialBpfAppStateFails
  BY <1>1
     DEF ReconcileStart, ReconcileDone, SkipDeletedApp, DuplicateState, NeedState, BeginApp,
         createInitialBpfAppState, createInitialBpfAppStateFails, objVars
<1>2. CASE \/ \E s \in StateIds : waitForBpfAppStateSpecUpdate(s) \/ waitForBpfAppStateStatusUpdate(s)
           \/ initBpfAppStateStatusFails \/ waitForBpfAppStateSpecUpdateTimesOut \/ waitForBpfAppStateStatusUpdateTimesOut
           \/ updateBpfAppStateStatus \/ updateBpfAppStateStatusFails
           \/ removeFinalizer \/ removeFinalizerFails
  BY <1>2
     DEF waitForBpfAppStateSpecUpdate, waitForBpfAppStateStatusUpdate, waitForBpfAppStateSpecUpdateTimesOut, initBpfAppStateStatusFails,
         waitForBpfAppStateStatusUpdateTimesOut, updateBpfAppStateStatus, updateBpfAppStateStatusFails,
         removeFinalizer, removeFinalizerFails, objVars
<1>3. CASE \/ BeginUnload \/ UnloadDone \/ NodeSelectorInvalid \/ ProgramListInvalid
           \/ \E p \in Progs : ProgramStateMissing(p) \/ updateLinks(p) \/ updateLinksFails(p)
           \/ \E x \in Points : LinkPanic(x)
           \/ LinksDone \/ StatusChanged \/ StatusUnchanged
  BY <1>3
     DEF BeginUnload, UnloadDone, ProgramListInvalid, NodeSelectorInvalid, LoadError, ProgramStateMissing, updateLinks,
         updateLinksFails, LinkPanic, LinksDone, StatusChanged, StatusUnchanged, objVars
<1>4. CASE \/ ClusterStep \/ Resync
           \/ \E a \in Apps : UserCreate(a) \/ UserDelete(a) \/ UserEdit(a)
  BY <1>4
     DEF ClusterStep, SyncState, GarbageCollect, OperatorRelease, Resync, UserCreate, Twice, Selectors, UserDelete, UserEdit,
         objVars
<1>5. CASE AlreadyLoaded \/ load \/ loadFails \/ \E p \in Progs : unload(p)
  BY <1>5 DEF AlreadyLoaded, load, loadFails, LoadError, unload, objVars
<1>6. ASSUME NEW x \in Points, \/ LinkInPlace(x) \/ LinkAttach(x) \/ LinkAttachFails(x)
                               \/ LinkDetach(x) \/ LinkDetachFails(x) \/ LinkDrop(x)
      PROVE  UNCHANGED avail
  BY <1>6 DEF LinkInPlace, LinkAttach, LinkAttachFails, LinkDetach, BpfmanDetach, LinkDetachFails, LinkDrop, VisitLink,
              objVars
<1>7. QED
  BY <1>1, <1>2, <1>3, <1>4, <1>5, <1>6, Zenon DEF ClusterApart, ClusterAsks

\* The steps of the namespaced controller, and of the objects it watches, are of these
\* two kinds.
LEMMA NsKinds ==
  ASSUME NsReconcile \/ NsObjects
  PROVE  UNCHANGED clusterVars /\ (NsApart \/ NsAsks)
<1>1. CASE NsReconcile
  BY <1>1, Zenon
     DEF NsReconcile, NsAlone, NsApart, NsAsks, nsReconcileStep, nsReconcile, nsCreateBpfAppState,
         nsWaitForBpfAppStateSpecUpdate,
         nsUpdateBpfAppStateStatus, nsWaitForBpfAppStateStatusUpdate, nsIsNodeSelected, nsValidateProgramList, nsLoad, nsUnload,
         nsGetProgState, nsReconcileProgram, nsCheckProgramStatus, nsRemoveFinalizer
<1>2. CASE NsObjects
  BY <1>2, Zenon DEF NsObjects, NsAlone, NsApart
<1>3. QED
  BY <1>1, <1>2

\* None of them changes where programs can be attached.
LEMMA NsSamePoints ==
  ASSUME NsApart \/ NsAsks
  PROVE  UNCHANGED avail
<1>1. CASE \/ Ns!ReconcileStart \/ Ns!ReconcileDone
           \/ \E a \in NsApps : Ns!SkipDeletedApp(a) \/ Ns!DuplicateState(a) \/ Ns!NeedState(a)
           \/ \E a \in NsApps, s \in NsStateIds : Ns!BeginApp(a, s)
           \/ Ns!createInitialBpfAppState \/ Ns!createInitialBpfAppStateFails
  BY <1>1
     DEF Ns!ReconcileStart, Ns!ReconcileDone, Ns!SkipDeletedApp, Ns!DuplicateState, Ns!NeedState, Ns!BeginApp,
         Ns!createInitialBpfAppState, Ns!createInitialBpfAppStateFails, Ns!objVars
<1>2. CASE \/ \E s \in NsStateIds : Ns!waitForBpfAppStateSpecUpdate(s) \/ Ns!waitForBpfAppStateStatusUpdate(s)
           \/ Ns!initBpfAppStateStatusFails \/ Ns!waitForBpfAppStateSpecUpdateTimesOut \/ Ns!waitForBpfAppStateStatusUpdateTimesOut
           \/ Ns!updateBpfAppStateStatus \/ Ns!updateBpfAppStateStatusFails
           \/ Ns!removeFinalizer \/ Ns!removeFinalizerFails
  BY <1>2
     DEF Ns!waitForBpfAppStateSpecUpdate, Ns!waitForBpfAppStateStatusUpdate,
         Ns!waitForBpfAppStateSpecUpdateTimesOut, Ns!initBpfAppStateStatusFails, Ns!waitForBpfAppStateStatusUpdateTimesOut,
         Ns!updateBpfAppStateStatus, Ns!updateBpfAppStateStatusFails, Ns!removeFinalizer,
         Ns!removeFinalizerFails, Ns!objVars
<1>3. CASE \/ Ns!BeginUnload \/ Ns!UnloadDone \/ Ns!NodeSelectorInvalid \/ Ns!ProgramListInvalid
           \/ \E p \in Progs : Ns!ProgramStateMissing(p) \/ Ns!updateLinks(p) \/ Ns!updateLinksFails(p)
           \/ \E x \in Points : Ns!LinkPanic(x)
           \/ Ns!LinksDone \/ Ns!StatusChanged \/ Ns!StatusUnchanged
  BY <1>3
     DEF Ns!BeginUnload, Ns!UnloadDone, Ns!ProgramListInvalid, Ns!NodeSelectorInvalid, Ns!LoadError, Ns!ProgramStateMissing,
         Ns!updateLinks, Ns!updateLinksFails, Ns!LinkPanic, Ns!LinksDone, Ns!StatusChanged, Ns!StatusUnchanged,
         Ns!objVars
<1>4. CASE \/ Ns!ClusterStep \/ Ns!Resync
           \/ \E a \in NsApps : Ns!UserCreate(a) \/ Ns!UserDelete(a) \/ Ns!UserEdit(a)
  BY <1>4
     DEF Ns!ClusterStep, Ns!SyncState, Ns!GarbageCollect, Ns!OperatorRelease, Ns!Resync, Ns!UserCreate, Ns!Twice, Ns!Selectors,
         Ns!UserDelete, Ns!UserEdit, Ns!objVars
<1>5. CASE Ns!AlreadyLoaded \/ Ns!load \/ Ns!loadFails \/ \E p \in Progs : Ns!unload(p)
  BY <1>5 DEF Ns!AlreadyLoaded, Ns!load, Ns!loadFails, Ns!LoadError, Ns!unload, Ns!objVars
<1>6. ASSUME NEW x \in Points, \/ Ns!LinkInPlace(x) \/ Ns!LinkAttach(x) \/ Ns!LinkAttachFails(x)
                               \/ Ns!LinkDetach(x) \/ Ns!LinkDetachFails(x) \/ Ns!LinkDrop(x)
      PROVE  UNCHANGED avail
  BY <1>6 DEF Ns!LinkInPlace, Ns!LinkAttach, Ns!LinkAttachFails, Ns!LinkDetach, Ns!BpfmanDetach, Ns!LinkDetachFails, Ns!LinkDrop,
              Ns!VisitLink, Ns!objVars
<1>7. QED
  BY <1>1, <1>2, <1>3, <1>4, <1>5, <1>6, Zenon DEF NsApart, NsAsks

(***************************************************************************)
(* What the proofs about one controller assume.                            *)
(***************************************************************************)
LEMMA ClusterAssumed == Cl!BpfAgentAssumption /\ Cl!NoneAssumption /\ Cl!PromiseAssumption
<1>1. Cl!BpfAgentAssumption
  BY BpfAgentAssumption DEF FaultKinds, Cl!FaultKinds
<1>2. Cl!NoneAssumption
  BY NoneAssumption
     DEF LinkState, Cl!LinkState, ProgState, Cl!ProgState, StateObj, Cl!StateObj, AppObj, Cl!AppObj,
         LinkStatus, Cl!LinkStatus, CondTypes, Cl!CondTypes, AppLoadStatus, Cl!AppLoadStatus,
         ProgramLinkStatus, Cl!ProgramLinkStatus
<1>3. Cl!PromiseAssumption
  BY PromiseAssumption DEF Contract!Obj, Cl!Contract!Obj, Contract!Conds, Cl!Contract!Conds
<1>4. QED
  BY <1>1, <1>2, <1>3

LEMMA NsAssumed == Own!BpfAgentAssumption /\ Own!NoneAssumption /\ Own!PromiseAssumption
<1>1. Own!BpfAgentAssumption
  BY BpfAgentAssumption, BpfNodeAssumption DEF FaultKinds, Own!FaultKinds
<1>2. None \notin Own!LinkState \cup Own!ProgState \cup Own!AppObj
  BY NoneAssumption
     DEF LinkState, Own!LinkState, ProgState, Own!ProgState, AppObj, Own!AppObj,
         LinkStatus, Own!LinkStatus, ProgramLinkStatus, Own!ProgramLinkStatus
<1>3. None \notin Own!StateObj
  BY NsNoneAssumption
     DEF Ns!StateObj, Own!StateObj, Ns!ProgState, Own!ProgState, Ns!LinkState, Own!LinkState, Ns!LinkStatus,
         Own!LinkStatus, Ns!CondTypes, Own!CondTypes, Ns!AppLoadStatus, Own!AppLoadStatus, Ns!ProgramLinkStatus,
         Own!ProgramLinkStatus
<1>4. Own!PromiseAssumption
  BY PromiseAssumption DEF Contract!Obj, Own!Contract!Obj, Contract!Conds, Own!Contract!Conds
<1>5. QED
  BY <1>1, <1>2, <1>3, <1>4 DEF Own!NoneAssumption

(***************************************************************************)
(* The inductive invariant.                                                *)
(***************************************************************************)
\* The failures a node must be spared, besides those BpfNode leaves out.
Disturbing == {"timeout", "write", "unload", "reply", "get", "recreate", "retype"}

\* Each controller's invariant holds in its own view, and nothing is in both.
NodeInv ==
  /\ DaemonTypeOK /\ Cl!AgentInv /\ Own!AgentInv
  /\ ClHeld \cap NsHeld = {} /\ ClHeldLinks \cap NsHeldLinks = {}

LEMMA NothingMisleads ==
  ASSUME Disturbing \cap Faults = {}
  PROVE  Cl!Misleading \cap Faults = {} /\ Own!Misleading \cap Faults = {} /\ "reply" \notin Faults /\ "get" \notin Faults
BY BpfNodeAssumption DEF Disturbing, Cl!Misleading, Cl!Separating, Own!Misleading, Own!Separating

\* bpfman holds nothing that the cluster controller sees and has not recorded, and
\* what that controller has recorded is not to be given away.
ClusterCover ==
  /\ \A i \in loaded \ NsHeld : i \in ClusterProgs
  /\ \A l \in LinkIds : linkProg[l] # None /\ linkProg[l] \notin NsHeld => l \in ClusterLinks /\ linkProg[l] \in ClHeld
  /\ \A l \in freeLinks : linkProg[l] = None \/ linkProg[l] \in NsHeld
  /\ ClusterProgs \subseteq ClHeld /\ ClusterLinks \subseteq ClHeldLinks
  /\ ClHeld \cap freeProgs = {} /\ ClHeldLinks \cap freeLinks = {}
  /\ edits \in Nat /\ faults \in Nat

LEMMA ClusterCovers == DaemonTypeOK /\ Cl!AgentInv => ClusterCover
<1> SUFFICES ASSUME DaemonTypeOK, Cl!AgentInv
             PROVE  ClusterCover
  OBVIOUS
<1>1. Cl!AgentInv /\ DaemonTypeOK
  OBVIOUS
<1>2. /\ Cl!DaemonOK /\ edits \in Nat /\ faults \in Nat
      /\ Cl!HeldProgs \cap freeProgs = {} /\ Cl!HeldLinks \cap freeLinks = {}
      /\ Cl!NoOrphanProgram /\ Cl!NoOrphanLink
  BY <1>1, ClusterAssumed, Cl!AgentFacts
<1>3. ClusterProgs \subseteq ClHeld /\ ClusterLinks \subseteq ClHeldLinks
  BY DEF ClusterProgs, ClusterLinks, ClusterObjs, ClHeld, ClHeldLinks, ClCopies
<1>4. ASSUME NEW i \in loaded \ NsHeld PROVE i \in ClusterProgs
  <2>1. i \in ClLoaded /\ i \in ProgIds
    BY <1>1 DEF ClLoaded, DaemonTypeOK
  <2>2. \/ \E s \in StateIds : st[s] # None /\ Cl!RecordsProg(st[s], i)
        \/ cur # None /\ Cl!RecordsProg(cur, i)
    BY <1>2, <2>1 DEF Cl!NoOrphanProgram
  <2>3. QED
    BY <2>1, <2>2 DEF ClusterProgs, ClusterObjs, RecordsProg, Cl!RecordsProg, Recorded, Cl!Recorded
<1>5. ASSUME NEW l \in LinkIds, linkProg[l] # None, linkProg[l] \notin NsHeld
      PROVE  l \in ClusterLinks /\ linkProg[l] \in ClHeld /\ l \notin freeLinks
  <2>1. ClLinkProg[l] # None /\ ClLinkProg[l] = linkProg[l]
    BY <1>5 DEF ClLinkProg
  <2>2. \/ \E s \in StateIds : st[s] # None /\ Cl!RecordsLink(st[s], l)
        \/ cur # None /\ Cl!RecordsLink(cur, l)
    BY <1>2, <2>1 DEF Cl!NoOrphanLink
  <2>3. l \in ClusterLinks
    BY <2>2 DEF ClusterLinks, ClusterObjs, RecordsLink, Cl!RecordsLink, Recorded, Cl!Recorded
  <2>4. linkProg[l] \in loaded \ NsHeld /\ l \notin freeLinks
    BY <1>2, <1>5, <2>1 DEF Cl!DaemonOK, ClLoaded
  <2>5. QED
    BY <1>3, <1>4, <2>3, <2>4
<1>6. ClHeld \cap freeProgs = {} /\ ClHeldLinks \cap freeLinks = {}
  BY <1>2, ClusterHeldIs
<1>7. freeLinks \subseteq LinkIds
  BY <1>1 DEF DaemonTypeOK
<1>8. QED
  BY <1>2, <1>3, <1>4, <1>5, <1>6, <1>7 DEF ClusterCover

LEMMA ClusterCoversAfter == (DaemonTypeOK /\ Cl!AgentInv)' => ClusterCover'
BY ClusterCovers, PTL

\* bpfman holds nothing that the namespaced controller sees and has not recorded, and
\* what that controller has recorded is not to be given away.
NsCover ==
  /\ \A i \in loaded \ ClHeld : i \in NsProgs
  /\ \A l \in LinkIds : linkProg[l] # None /\ linkProg[l] \notin ClHeld => l \in NsLinks /\ linkProg[l] \in NsHeld
  /\ \A l \in freeLinks : linkProg[l] = None \/ linkProg[l] \in ClHeld
  /\ NsProgs \subseteq NsHeld /\ NsLinks \subseteq NsHeldLinks
  /\ NsHeld \cap freeProgs = {} /\ NsHeldLinks \cap freeLinks = {}
  /\ edits \in Nat /\ faults \in Nat

LEMMA NsCovers == DaemonTypeOK /\ Own!AgentInv => NsCover
<1> SUFFICES ASSUME DaemonTypeOK, Own!AgentInv
             PROVE  NsCover
  OBVIOUS
<1>1. Own!AgentInv /\ DaemonTypeOK
  OBVIOUS
<1>2. /\ Own!DaemonOK /\ edits \in Nat /\ faults \in Nat
      /\ Own!HeldProgs \cap freeProgs = {} /\ Own!HeldLinks \cap freeLinks = {}
      /\ Own!NoOrphanProgram /\ Own!NoOrphanLink
  BY <1>1, NsAssumed, Own!AgentFacts
<1>3. NsProgs \subseteq NsHeld /\ NsLinks \subseteq NsHeldLinks
  BY DEF NsProgs, NsLinks, NsObjs, NsHeld, NsHeldLinks, NsCopies
<1>4. ASSUME NEW i \in loaded \ ClHeld PROVE i \in NsProgs
  <2>1. i \in NsLoaded /\ i \in ProgIds
    BY <1>1 DEF NsLoaded, DaemonTypeOK
  <2>2. \/ \E s \in NsStateIds : nsSt[s] # None /\ Own!RecordsProg(nsSt[s], i)
        \/ nsCur # None /\ Own!RecordsProg(nsCur, i)
    BY <1>2, <2>1 DEF Own!NoOrphanProgram
  <2>3. QED
    BY <2>1, <2>2 DEF NsProgs, NsObjs, RecordsProg, Own!RecordsProg, Recorded, Own!Recorded
<1>5. ASSUME NEW l \in LinkIds, linkProg[l] # None, linkProg[l] \notin ClHeld
      PROVE  l \in NsLinks /\ linkProg[l] \in NsHeld /\ l \notin freeLinks
  <2>1. NsLinkProg[l] # None /\ NsLinkProg[l] = linkProg[l]
    BY <1>5 DEF NsLinkProg
  <2>2. \/ \E s \in NsStateIds : nsSt[s] # None /\ Own!RecordsLink(nsSt[s], l)
        \/ nsCur # None /\ Own!RecordsLink(nsCur, l)
    BY <1>2, <2>1 DEF Own!NoOrphanLink
  <2>3. l \in NsLinks
    BY <2>2 DEF NsLinks, NsObjs, RecordsLink, Own!RecordsLink, Recorded, Own!Recorded
  <2>4. linkProg[l] \in loaded \ ClHeld /\ l \notin freeLinks
    BY <1>2, <1>5, <2>1 DEF Own!DaemonOK, NsLoaded
  <2>5. QED
    BY <1>3, <1>4, <2>3, <2>4
<1>6. NsHeld \cap freeProgs = {} /\ NsHeldLinks \cap freeLinks = {}
  BY <1>2, NsHeldIs
<1>7. freeLinks \subseteq LinkIds
  BY <1>1 DEF DaemonTypeOK
<1>8. QED
  BY <1>2, <1>3, <1>4, <1>5, <1>6, <1>7 DEF NsCover

LEMMA NsCoversAfter == (DaemonTypeOK /\ Own!AgentInv)' => NsCover'
BY NsCovers, PTL

(***************************************************************************)
(* Every step keeps the invariant.                                         *)
(***************************************************************************)
\* A step of the cluster controller changes nothing in the other's view of bpfman.
LEMMA ClusterUnseen ==
  ASSUME NodeInv, ClusterCover, ClusterSpares, NsHeld' = NsHeld, ClusterCover', (ClHeld \cap NsHeld = {})'
  PROVE  UNCHANGED <<NsLoaded, NsLinkProg>>
<1>1. ClHeld \cap NsHeld = {} /\ ClHeld' \cap NsHeld = {}
  BY DEF NodeInv
<1>2. NsLoaded' = NsLoaded
  <2>1. \A i : /\ i \in loaded \ ClHeld => i \in NsHeld
               /\ i \in loaded' \ ClHeld' => i \in NsHeld
    BY DEF ClusterCover
  <2>2. \A i \in NsHeld : i \in loaded' <=> i \in loaded
    BY DEF ClusterSpares
  <2>3. \A i : i \in loaded' \ ClHeld' <=> i \in loaded \ ClHeld
    BY <1>1, <2>1, <2>2
  <2>4. QED
    BY <2>3, Zenon DEF NsLoaded
<1>3. ASSUME NEW l \in LinkIds PROVE NsLinkProg'[l] = NsLinkProg[l]
  <2>1. /\ linkProg[l] = None \/ linkProg[l] \in NsHeld \cup ClHeld
        /\ linkProg'[l] = None \/ linkProg'[l] \in NsHeld \cup ClHeld'
    BY DEF ClusterCover
  <2>2. linkProg[l] \in NsHeld \/ linkProg'[l] \in NsHeld => linkProg'[l] = linkProg[l]
    BY DEF ClusterSpares
  <2>3. /\ NsLinkProg[l] = IF linkProg[l] \in ClHeld THEN None ELSE linkProg[l]
        /\ NsLinkProg'[l] = IF linkProg'[l] \in ClHeld' THEN None ELSE linkProg'[l]
    BY DEF NsLinkProg
  <2>4. QED
    BY <1>1, <2>1, <2>2, <2>3
<1>4. NsLinkProg' = NsLinkProg
  BY <1>3 DEF NsLinkProg
<1>5. QED
  BY <1>2, <1>4

\* A step of the cluster controller is one in its view, and spares the other.
LEMMA ClusterActs ==
  ASSUME Disturbing \cap Faults = {}, NodeInv, ClusterReconcile \/ ClusterObjects
  PROVE  Cl!Next /\ ClusterSpares /\ UNCHANGED nsVars /\ UNCHANGED avail
<1>1. UNCHANGED nsVars /\ (ClusterApart \/ ClusterAsks)
  BY ClusterKinds
<1>2. NsHeld' = NsHeld /\ UNCHANGED avail
  BY <1>1, ClusterSameHeld, ClusterSamePoints
<1>3. CASE ClusterApart
  <2>1. Cl!Next /\ UNCHANGED daemonVars
    BY <1>2, <1>3, ClusterQuiet
  <2>2. ClusterSpares
    BY <2>1 DEF ClusterSpares, daemonVars, NodeInv, DaemonTypeOK
  <2>3. QED
    BY <1>1, <1>2, <2>1, <2>2
<1>4. CASE ClusterAsks
  <2>1. DaemonTypeOK /\ Cl!AgentInv /\ Own!AgentInv /\ Cl!AgentInv /\ ClHeld \cap NsHeld = {}
    BY DEF NodeInv
  <2>2. Cl!DataInv
    BY <2>1 DEF Cl!AgentInv, Cl!ContractInv
  <2>3. ClusterCover /\ NsCover
    BY <2>1, ClusterCovers, NsCovers
  <2>4. \A m \in freeLinks : linkProg[m] = None
    BY <2>1, <2>3 DEF ClusterCover, NsCover
  <2>5. NsHeld \cap freeProgs = {}
    BY <2>3 DEF NsCover
  <2>6. "reply" \notin Faults /\ "get" \notin Faults
    BY NothingMisleads
  <2>7. Cl!Next /\ ClusterSpares
    BY <1>2, <1>4, <2>1, <2>2, <2>4, <2>5, <2>6, ClusterBusy
  <2>8. QED
    BY <1>1, <1>2, <2>7
<1>5. QED
  BY <1>1, <1>3, <1>4

\* It keeps the invariant of both.
LEMMA ClusterKeeps ==
  ASSUME Disturbing \cap Faults = {}, NodeInv, ClusterReconcile \/ ClusterObjects
  PROVE  NodeInv'
<1>1. Cl!Next /\ ClusterSpares /\ UNCHANGED nsVars /\ UNCHANGED avail
  BY ClusterActs
<1>2. NsHeld' = NsHeld /\ NsHeldLinks' = NsHeldLinks
  BY <1>1, ClusterSameHeld
<1>3. /\ DaemonTypeOK /\ Cl!AgentInv /\ Own!AgentInv
      /\ ClHeld \cap NsHeld = {} /\ ClHeldLinks \cap NsHeldLinks = {}
  BY DEF NodeInv
<1>4. ClusterCover /\ NsCover
  BY <1>3, ClusterCovers, NsCovers
<1>5. DaemonTypeOK' /\ freeProgs' \subseteq freeProgs /\ freeLinks' \subseteq freeLinks
  BY <1>1 DEF ClusterSpares
<1>6. Cl!Misleading \cap Faults = {}
  BY NothingMisleads
<1>7. /\ Cl!AgentInv'
      /\ Cl!HeldProgs' \subseteq Cl!HeldProgs \cup freeProgs
      /\ Cl!HeldLinks' \subseteq Cl!HeldLinks \cup freeLinks
  BY <1>1, <1>3, <1>6, ClusterAssumed, Cl!AgentSteps
<1>8. ClHeld' \subseteq ClHeld \cup freeProgs /\ ClHeldLinks' \subseteq ClHeldLinks \cup freeLinks
  BY <1>7, ClusterHeldIs, ClusterHeldAfter
<1>9. (ClHeld \cap NsHeld = {})' /\ (ClHeldLinks \cap NsHeldLinks = {})'
  BY <1>2, <1>3, <1>4, <1>8 DEF NsCover
<1>10. ClusterCover'
  BY <1>5, <1>7, ClusterCoversAfter
<1>11. edits' \in Nat /\ faults' \in Nat
  BY <1>10 DEF ClusterCover
<1>12. UNCHANGED <<NsLoaded, NsLinkProg>>
  BY <1>1, <1>2, <1>4, <1>9, <1>10, ClusterUnseen
<1>13. Own!AgentInv'
  BY <1>1, <1>3, <1>5, <1>11, <1>12, NsAssumed, Own!AgentUndisturbed
     DEF nsVars, agentVars, loopVars, appVars, progVars, Own!agentVars, Own!loopVars, Own!appVars, Own!progVars
<1>14. QED
  BY <1>5, <1>7, <1>9, <1>13 DEF NodeInv

\* A step of the namespaced controller changes nothing in the other's view of bpfman.
LEMMA NsUnseen ==
  ASSUME NodeInv, NsCover, NsSpares, ClHeld' = ClHeld, NsCover', (NsHeld \cap ClHeld = {})'
  PROVE  UNCHANGED <<ClLoaded, ClLinkProg>>
<1>1. NsHeld \cap ClHeld = {} /\ NsHeld' \cap ClHeld = {}
  BY DEF NodeInv
<1>2. ClLoaded' = ClLoaded
  <2>1. \A i : /\ i \in loaded \ NsHeld => i \in ClHeld
               /\ i \in loaded' \ NsHeld' => i \in ClHeld
    BY DEF NsCover
  <2>2. \A i \in ClHeld : i \in loaded' <=> i \in loaded
    BY DEF NsSpares
  <2>3. \A i : i \in loaded' \ NsHeld' <=> i \in loaded \ NsHeld
    BY <1>1, <2>1, <2>2
  <2>4. QED
    BY <2>3, Zenon DEF ClLoaded
<1>3. ASSUME NEW l \in LinkIds PROVE ClLinkProg'[l] = ClLinkProg[l]
  <2>1. /\ linkProg[l] = None \/ linkProg[l] \in ClHeld \cup NsHeld
        /\ linkProg'[l] = None \/ linkProg'[l] \in ClHeld \cup NsHeld'
    BY DEF NsCover
  <2>2. linkProg[l] \in ClHeld \/ linkProg'[l] \in ClHeld => linkProg'[l] = linkProg[l]
    BY DEF NsSpares
  <2>3. /\ ClLinkProg[l] = IF linkProg[l] \in NsHeld THEN None ELSE linkProg[l]
        /\ ClLinkProg'[l] = IF linkProg'[l] \in NsHeld' THEN None ELSE linkProg'[l]
    BY DEF ClLinkProg
  <2>4. QED
    BY <1>1, <2>1, <2>2, <2>3
<1>4. ClLinkProg' = ClLinkProg
  BY <1>3 DEF ClLinkProg
<1>5. QED
  BY <1>2, <1>4

\* A step of the namespaced controller is one in its view, and spares the other.
LEMMA NsActs ==
  ASSUME Disturbing \cap Faults = {}, NodeInv, NsReconcile \/ NsObjects
  PROVE  Own!Next /\ NsSpares /\ UNCHANGED clusterVars /\ UNCHANGED avail
<1>1. UNCHANGED clusterVars /\ (NsApart \/ NsAsks)
  BY NsKinds
<1>2. ClHeld' = ClHeld /\ UNCHANGED avail
  BY <1>1, NsSameHeld, NsSamePoints
<1>3. CASE NsApart
  <2>1. Own!Next /\ UNCHANGED daemonVars
    BY <1>2, <1>3, NsQuiet
  <2>2. NsSpares
    BY <2>1 DEF NsSpares, daemonVars, NodeInv, DaemonTypeOK
  <2>3. QED
    BY <1>1, <1>2, <2>1, <2>2
<1>4. CASE NsAsks
  <2>1. DaemonTypeOK /\ Own!AgentInv /\ Own!AgentInv /\ Cl!AgentInv /\ NsHeld \cap ClHeld = {}
    BY DEF NodeInv
  <2>2. Own!DataInv
    BY <2>1 DEF Own!AgentInv, Own!ContractInv
  <2>3. NsCover /\ ClusterCover
    BY <2>1, NsCovers, ClusterCovers
  <2>4. \A m \in freeLinks : linkProg[m] = None
    BY <2>1, <2>3 DEF ClusterCover, NsCover
  <2>5. ClHeld \cap freeProgs = {}
    BY <2>3 DEF ClusterCover
  <2>6. "reply" \notin Faults /\ "get" \notin Faults
    BY NothingMisleads
  <2>7. Own!Next /\ NsSpares
    BY <1>2, <1>4, <2>1, <2>2, <2>4, <2>5, <2>6, NsBusy
  <2>8. QED
    BY <1>1, <1>2, <2>7
<1>5. QED
  BY <1>1, <1>3, <1>4

\* It keeps the invariant of both.
LEMMA NsKeeps ==
  ASSUME Disturbing \cap Faults = {}, NodeInv, NsReconcile \/ NsObjects
  PROVE  NodeInv'
<1>1. Own!Next /\ NsSpares /\ UNCHANGED clusterVars /\ UNCHANGED avail
  BY NsActs
<1>2. ClHeld' = ClHeld /\ ClHeldLinks' = ClHeldLinks
  BY <1>1, NsSameHeld
<1>3. /\ DaemonTypeOK /\ Cl!AgentInv /\ Own!AgentInv
      /\ ClHeld \cap NsHeld = {} /\ ClHeldLinks \cap NsHeldLinks = {}
  BY DEF NodeInv
<1>4. NsCover /\ ClusterCover
  BY <1>3, NsCovers, ClusterCovers
<1>5. DaemonTypeOK' /\ freeProgs' \subseteq freeProgs /\ freeLinks' \subseteq freeLinks
  BY <1>1 DEF NsSpares
<1>6. Own!Misleading \cap Faults = {}
  BY NothingMisleads
<1>7. /\ Own!AgentInv'
      /\ Own!HeldProgs' \subseteq Own!HeldProgs \cup freeProgs
      /\ Own!HeldLinks' \subseteq Own!HeldLinks \cup freeLinks
  BY <1>1, <1>3, <1>6, NsAssumed, Own!AgentSteps
<1>8. NsHeld' \subseteq NsHeld \cup freeProgs /\ NsHeldLinks' \subseteq NsHeldLinks \cup freeLinks
  BY <1>7, NsHeldIs, NsHeldAfter
<1>9. (ClHeld \cap NsHeld = {})' /\ (ClHeldLinks \cap NsHeldLinks = {})'
  BY <1>2, <1>3, <1>4, <1>8 DEF ClusterCover
<1>10. NsCover'
  BY <1>5, <1>7, NsCoversAfter
<1>11. edits' \in Nat /\ faults' \in Nat
  BY <1>10 DEF NsCover
<1>12. UNCHANGED <<ClLoaded, ClLinkProg>>
  BY <1>1, <1>2, <1>4, <1>9, <1>10, NsUnseen
<1>13. Cl!AgentInv'
  BY <1>1, <1>3, <1>5, <1>11, <1>12, ClusterAssumed, Cl!AgentUndisturbed
     DEF clusterVars, agentVars, loopVars, appVars, progVars, Cl!agentVars, Cl!loopVars, Cl!appVars, Cl!progVars
<1>14. QED
  BY <1>5, <1>7, <1>9, <1>13 DEF NodeInv

\* It leaves alone what the other controller knows of, and bpfman when nothing of
\* its own changes.
LEMMA ClusterHandsOff ==
  ASSUME Disturbing \cap Faults = {}, NodeInv, ClusterReconcile \/ ClusterObjects
  PROVE  /\ /\ NsProgs \cap loaded \subseteq loaded'
            /\ \A l \in NsLinks : linkProg[l] \in NsProgs => linkProg'[l] = linkProg[l]
         /\ UNCHANGED clusterVars => UNCHANGED <<loaded, linkProg>>
<1>1. ClusterSpares /\ UNCHANGED nsVars
  BY ClusterActs
<1>2. NsProgs \subseteq NsHeld
  BY NsCovers DEF NodeInv, NsCover
<1>3. NsProgs \cap loaded \subseteq loaded'
  BY <1>1, <1>2 DEF ClusterSpares
<1>4. \A l \in NsLinks : linkProg[l] \in NsProgs => linkProg'[l] = linkProg[l]
  BY <1>1, <1>2 DEF ClusterSpares, NsLinks
<1>5. ASSUME UNCHANGED clusterVars PROVE UNCHANGED <<loaded, linkProg>>
  <2>1. UNCHANGED <<pc, ptodo, ltodo>>
    BY <1>5 DEF clusterVars, agentVars, progVars
  <2>2. ClusterApart
    BY <2>1, ClusterKinds, ClusterMoves
  <2>3. NsHeld' = NsHeld
    BY <1>1, ClusterSameHeld
  <2>4. QED
    BY <2>2, <2>3, ClusterQuiet DEF daemonVars
<1>6. QED
  BY <1>3, <1>4, <1>5

\* It leaves alone what the other controller knows of, and bpfman when nothing of
\* its own changes.
LEMMA NsHandsOff ==
  ASSUME Disturbing \cap Faults = {}, NodeInv, NsReconcile \/ NsObjects
  PROVE  /\ /\ ClusterProgs \cap loaded \subseteq loaded'
            /\ \A l \in ClusterLinks : linkProg[l] \in ClusterProgs => linkProg'[l] = linkProg[l]
         /\ UNCHANGED nsVars => UNCHANGED <<loaded, linkProg>>
<1>1. NsSpares /\ UNCHANGED clusterVars
  BY NsActs
<1>2. ClusterProgs \subseteq ClHeld
  BY ClusterCovers DEF NodeInv, ClusterCover
<1>3. ClusterProgs \cap loaded \subseteq loaded'
  BY <1>1, <1>2 DEF NsSpares
<1>4. \A l \in ClusterLinks : linkProg[l] \in ClusterProgs => linkProg'[l] = linkProg[l]
  BY <1>1, <1>2 DEF NsSpares, ClusterLinks
<1>5. ASSUME UNCHANGED nsVars PROVE UNCHANGED <<loaded, linkProg>>
  <2>1. UNCHANGED <<nsPc, nsPtodo, nsLtodo>>
    BY <1>5 DEF nsVars, agentVars, progVars
  <2>2. NsApart
    BY <2>1, NsKinds, NsMoves
  <2>3. ClHeld' = ClHeld
    BY <1>1, NsSameHeld
  <2>4. QED
    BY <2>2, <2>3, NsQuiet DEF daemonVars
<1>6. QED
  BY <1>3, <1>4, <1>5

\* What the cluster controller's view shows is so.
LEMMA ClusterReports ==
  ASSUME NodeInv
  PROVE  SuccessIsTrue
<1>1. Cl!SuccessIsTrue /\ Cl!StateTypeOK /\ DaemonTypeOK
  <2>1. Cl!AgentInv /\ DaemonTypeOK
    BY DEF NodeInv
  <2>2. Cl!SuccessIsTrue
    BY <2>1, ClusterAssumed, Cl!AgentFacts
  <2>3. Cl!StateTypeOK
    BY <2>1 DEF Cl!AgentInv, Cl!ContractInv, Cl!DataInv
  <2>4. QED
    BY <2>1, <2>2, <2>3
<1> SUFFICES ASSUME NEW s \in StateIds, pc = "idle", st[s] # None, st[s].cond = "Success",
                    st[s].load = "LoadSuccess", NEW p \in Recorded(st[s])
             PROVE  /\ st[s].progs[p].id \in loaded
                    /\ \A x \in Points : st[s].progs[p].links[x] # None =>
                         /\ st[s].progs[p].links[x].id # None
                         /\ linkProg[st[s].progs[p].links[x].id] = st[s].progs[p].id
  BY DEF SuccessIsTrue
<1>2. /\ st[s].progs[p].id \in ClLoaded
      /\ \A x \in Points : st[s].progs[p].links[x] # None =>
           /\ st[s].progs[p].links[x].id # None
           /\ ClLinkProg[st[s].progs[p].links[x].id] = st[s].progs[p].id
  BY <1>1 DEF Cl!SuccessIsTrue, Cl!Recorded, Recorded
<1>3. /\ st[s].progs[p].id \in loaded /\ st[s].progs[p].id # None
  BY <1>1, <1>2, BpfAgentAssumption DEF ClLoaded, DaemonTypeOK
<1>4. st[s].progs[p] \in Cl!ProgState
  BY <1>1 DEF Cl!StateTypeOK, Cl!StateObj, Recorded
<1>5. ASSUME NEW x \in Points, st[s].progs[p].links[x] # None
      PROVE  st[s].progs[p].links[x].id \in LinkIds
  <2>1. st[s].progs[p].links[x] \in Cl!LinkState
    BY <1>4, <1>5 DEF Cl!ProgState
  <2>2. QED
    BY <1>2, <1>5, <2>1 DEF Cl!LinkState
<1>6. \A l \in LinkIds : ClLinkProg[l] # None => linkProg[l] = ClLinkProg[l]
  BY DEF ClLinkProg
<1>7. QED
  BY <1>2, <1>3, <1>5, <1>6

\* What the namespaced controller's view shows is so.
LEMMA NsReports ==
  ASSUME NodeInv
  PROVE  Ns!SuccessIsTrue
<1>1. Own!SuccessIsTrue /\ Own!StateTypeOK /\ DaemonTypeOK
  <2>1. Own!AgentInv /\ DaemonTypeOK
    BY DEF NodeInv
  <2>2. Own!SuccessIsTrue
    BY <2>1, NsAssumed, Own!AgentFacts
  <2>3. Own!StateTypeOK
    BY <2>1 DEF Own!AgentInv, Own!ContractInv, Own!DataInv
  <2>4. QED
    BY <2>1, <2>2, <2>3
<1> SUFFICES ASSUME NEW s \in NsStateIds, nsPc = "idle", nsSt[s] # None, nsSt[s].cond = "Success",
                    nsSt[s].load = "LoadSuccess", NEW p \in Ns!Recorded(nsSt[s])
             PROVE  /\ nsSt[s].progs[p].id \in loaded
                    /\ \A x \in Points : nsSt[s].progs[p].links[x] # None =>
                         /\ nsSt[s].progs[p].links[x].id # None
                         /\ linkProg[nsSt[s].progs[p].links[x].id] = nsSt[s].progs[p].id
  BY DEF Ns!SuccessIsTrue
<1>2. /\ nsSt[s].progs[p].id \in NsLoaded
      /\ \A x \in Points : nsSt[s].progs[p].links[x] # None =>
           /\ nsSt[s].progs[p].links[x].id # None
           /\ NsLinkProg[nsSt[s].progs[p].links[x].id] = nsSt[s].progs[p].id
  BY <1>1 DEF Own!SuccessIsTrue, Own!Recorded, Ns!Recorded
<1>3. /\ nsSt[s].progs[p].id \in loaded /\ nsSt[s].progs[p].id # None
  BY <1>1, <1>2, BpfAgentAssumption DEF NsLoaded, DaemonTypeOK
<1>4. nsSt[s].progs[p] \in Own!ProgState
  BY <1>1 DEF Own!StateTypeOK, Own!StateObj, Ns!Recorded
<1>5. ASSUME NEW x \in Points, nsSt[s].progs[p].links[x] # None
      PROVE  nsSt[s].progs[p].links[x].id \in LinkIds
  <2>1. nsSt[s].progs[p].links[x] \in Own!LinkState
    BY <1>4, <1>5 DEF Own!ProgState
  <2>2. QED
    BY <1>2, <1>5, <2>1 DEF Own!LinkState
<1>6. \A l \in LinkIds : NsLinkProg[l] # None => linkProg[l] = NsLinkProg[l]
  BY DEF NsLinkProg
<1>7. QED
  BY <1>2, <1>3, <1>5, <1>6

LEMMA NodeStarts ==
  ASSUME NodeInit
  PROVE  NodeInv
<1>1. loaded = {} /\ linkProg = [l \in LinkIds |-> None]
  BY DEF NodeInit, Init
<1>2. /\ ClCopies = {} /\ NsCopies = {}
  BY DEF NodeInit, Init, Ns!Init, ClCopies, NsCopies
<1>3. ClHeld = {} /\ NsHeld = {} /\ ClHeldLinks = {} /\ NsHeldLinks = {}
  BY <1>2 DEF ClHeld, NsHeld, ClHeldLinks, NsHeldLinks
<1>4. ClLoaded = {} /\ NsLoaded = {} /\ ClLinkProg = linkProg /\ NsLinkProg = linkProg
  BY <1>1, <1>3 DEF ClLoaded, NsLoaded, ClLinkProg, NsLinkProg
<1>5. Cl!Init
  BY <1>1, <1>4 DEF NodeInit, Init, Cl!Init, NoApps, Cl!NoApps
<1>6. Own!Init
  BY <1>1, <1>4 DEF NodeInit, Init, Ns!Init, Own!Init, Ns!NoApps, Own!NoApps
<1>7. Cl!AgentInv /\ Own!AgentInv
  BY <1>5, <1>6, ClusterAssumed, NsAssumed, Cl!AgentStarts, Own!AgentStarts
<1>8. DaemonTypeOK
  BY DEF NodeInit, Init, DaemonTypeOK
<1>9. QED
  BY <1>3, <1>7, <1>8 DEF NodeInv

LEMMA NodeRests ==
  ASSUME NodeInv, UNCHANGED nodeVars
  PROVE  NodeInv'
<1>1. DaemonTypeOK /\ Cl!AgentInv /\ Own!AgentInv
  BY DEF NodeInv
<1>2. /\ UNCHANGED clusterVars /\ UNCHANGED nsVars
      /\ UNCHANGED <<avail, edits, faults, loaded, freeProgs, linkProg, freeLinks>>
  BY DEF nodeVars, vars, objVars, daemonVars, agentVars, clusterVars
<1>3. /\ ClHeld' = ClHeld /\ NsHeld' = NsHeld /\ ClHeldLinks' = ClHeldLinks /\ NsHeldLinks' = NsHeldLinks
  BY <1>2, ClusterSameHeld, NsSameHeld
<1>4. UNCHANGED <<ClLoaded, ClLinkProg, NsLoaded, NsLinkProg>>
  BY <1>2, <1>3, ClusterSameView, NsSameView
<1>5. edits' \in Nat /\ faults' \in Nat
  BY <1>1, <1>2, ClusterCovers DEF ClusterCover
<1>6. Cl!AgentInv'
  BY <1>1, <1>2, <1>4, <1>5, ClusterAssumed, Cl!AgentUndisturbed
     DEF clusterVars, agentVars, loopVars, appVars, progVars, Cl!agentVars, Cl!loopVars, Cl!appVars, Cl!progVars
<1>7. Own!AgentInv'
  BY <1>1, <1>2, <1>4, <1>5, NsAssumed, Own!AgentUndisturbed
     DEF nsVars, Own!agentVars, Own!loopVars, Own!appVars, Own!progVars
<1>8. DaemonTypeOK'
  BY <1>1, <1>2 DEF DaemonTypeOK
<1>9. QED
  BY <1>3, <1>6, <1>7, <1>8 DEF NodeInv

LEMMA NodeInductive ==
  ASSUME Disturbing \cap Faults = {}, NodeInv, [NodeNext]_nodeVars
  PROVE  NodeInv'
BY ClusterKeeps, NsKeeps, NodeRests DEF NodeNext

LEMMA NodeInvHolds ==
  ASSUME Disturbing \cap Faults = {}
  PROVE  NodeSpec => []NodeInv
<1>1. NodeInit => NodeInv
  BY NodeStarts
<1>2. NodeInv /\ [NodeNext]_nodeVars => NodeInv'
  BY NodeInductive
<1>3. QED
  BY <1>1, <1>2, PTL DEF NodeSpec

(***************************************************************************)
(* The theorems.                                                           *)
(***************************************************************************)
\* Of the programs and links bpfman has, each is known to exactly one of the two
\* controllers, whichever failures of a load, an attach or a detach both meet
\* (OneMaster; load, unload and reconcileBpfLink of both reconcilers).
THEOREM EachHasOneMaster ==
  ASSUME Disturbing \cap Faults = {}
  PROVE  NodeSpec => []OneMaster
<1>1. NodeInv => OneMaster
  <2> SUFFICES ASSUME NodeInv
               PROVE  OneMaster
    OBVIOUS
  <2>1. ClusterCover /\ NsCover /\ DaemonTypeOK /\ ClHeld \cap NsHeld = {} /\ ClHeldLinks \cap NsHeldLinks = {}
    BY ClusterCovers, NsCovers DEF NodeInv
  <2>2. ASSUME NEW i \in loaded
        PROVE  i \in ClusterProgs <=> i \notin NsProgs
    BY <2>1 DEF ClusterCover, NsCover
  <2>3. ASSUME NEW l \in LinkIds, linkProg[l] # None
        PROVE  l \in ClusterLinks <=> l \notin NsLinks
    BY <2>1, <2>3 DEF ClusterCover, NsCover
  <2>4. QED
    BY <2>2, <2>3 DEF OneMaster
<1>2. QED
  BY <1>1, NodeInvHolds, PTL

\* No step of one controller unloads a program or detaches a link that the other
\* knows of (HandsOff; unload, reconcileBpfLink).
THEOREM NeitherDisturbsTheOther ==
  ASSUME Disturbing \cap Faults = {}
  PROVE  NodeSpec => HandsOff
<1> DEFINE Cautious ==
      /\ UNCHANGED nsVars =>
           /\ NsProgs \cap loaded \subseteq loaded'
           /\ \A l \in NsLinks : linkProg[l] \in NsProgs => linkProg'[l] = linkProg[l]
      /\ UNCHANGED clusterVars =>
           /\ ClusterProgs \cap loaded \subseteq loaded'
           /\ \A l \in ClusterLinks : linkProg[l] \in ClusterProgs => linkProg'[l] = linkProg[l]
<1>1. ASSUME NodeInv, [NodeNext]_nodeVars
      PROVE  [Cautious]_nodeVars
  <2>1. CASE ClusterReconcile \/ ClusterObjects
    BY <1>1, <2>1, ClusterHandsOff
  <2>2. CASE NsReconcile \/ NsObjects
    BY <1>1, <2>2, NsHandsOff
  <2>3. QED
    BY <1>1, <2>1, <2>2 DEF NodeNext
<1>2. NodeInv /\ [NodeNext]_nodeVars => [Cautious]_nodeVars
  BY <1>1
<1>3. QED
  BY <1>2, NodeInvHolds, PTL DEF NodeSpec, HandsOff

\* A Success condition of either controller names programs that are loaded and
\* links that are attached, whatever the other has done since (BothReportTruly;
\* isLoaded, doesLinkExist).
THEOREM BothControllersReportTruly ==
  ASSUME Disturbing \cap Faults = {}
  PROVE  NodeSpec => []BothReportTruly
<1>1. NodeInv => BothReportTruly
  BY ClusterReports, NsReports DEF BothReportTruly
<1>2. QED
  BY <1>1, NodeInvHolds, PTL

=============================================================================

--------------------------- MODULE BpfAgentProofs ---------------------------
(***************************************************************************)
(* Proofs about BpfAgent, for every number of applications, programs,      *)
(* attach points and state objects and whatever fails: its types, one      *)
(* state object per application, the links it never takes down, and the    *)
(* contract it keeps.                                                      *)
(***************************************************************************)
EXTENDS BpfAgent, TLAPS

(***************************************************************************)
(* Typing.                                                                 *)
(***************************************************************************)
\* The places of Reconcile() where it works on a state object.
AtState == {"load", "unload", "programs", "links", "write", "waitStatus", "finalizer"}

\* What the control state says about the locals of Reconcile().
ControlOK ==
  /\ \A a \in todo : list[a] # None
  /\ pc \in AtState \cup {"create", "waitSpec"} => ca \in Apps /\ list[ca] # None
  /\ pc \in AtState => cs \in StateIds /\ orig # None /\ cur # None
  /\ pc = "unload" => \A p \in ptodo : cur.progs[p] # None
  /\ pc = "links" => /\ cp \in Progs /\ cur.progs[cp] # None
                     /\ \A x \in ltodo : cur.progs[cp].links[x] # None

\* Everything but the flags, and what it takes to be preserved.
DataInv == ObjTypeOK /\ StateTypeOK /\ DaemonTypeOK /\ LocalTypeOK /\ ControlOK

LEMMA LinksWithType ==
  ASSUME NEW links \in [Points -> LinkState \cup {None}], NEW got \in SUBSET Points
  PROVE  LinksWith(links, got) \in [Points -> LinkState \cup {None}]
<1>1. ASSUME NEW ls \in LinkState, NEW b \in BOOLEAN
      PROVE  [ls EXCEPT !.should = b] \in LinkState
  BY DEF LinkState
<1>2. NewLink \in LinkState
  BY DEF NewLink, LinkState, LinkStatus
<1>3. ASSUME NEW x \in Points
      PROVE  (x \in got) \in BOOLEAN
  OBVIOUS
<1>4. ASSUME NEW x \in Points, links[x] # None
      PROVE  [links[x] EXCEPT !.should = x \in got] \in LinkState
  <2>1. links[x] \in LinkState
    BY <1>4
  <2>2. QED
    BY <2>1, <1>1, <1>3
<1>5. QED
  BY <1>2, <1>4 DEF LinksWith

\* Replacing one program entry of a state object leaves a state object.
LEMMA SetProgType ==
  ASSUME NEW obj \in StateObj, NEW p \in Progs, NEW ps \in ProgState \cup {None}
  PROVE  /\ [obj EXCEPT !.progs[p] = ps] \in StateObj
         /\ [obj EXCEPT !.progs[p] = ps].progs = [obj.progs EXCEPT ![p] = ps]
         /\ [obj EXCEPT !.progs[p] = ps].app = obj.app
BY DEF StateObj

LEMMA UnloadedProgType ==
  ASSUME NEW ps \in ProgState
  PROVE  UnloadedProg(ps) \in ProgState
BY DEF UnloadedProg, ProgState, NoLinks, ProgramLinkStatus


LEMMA ReturnOK ==
  ASSUME ReturnLocals
  PROVE  LocalTypeOK' /\ ControlOK'
BY DEF ReturnLocals, LocalTypeOK, ControlOK, AtState, NoApps, PCs

LEMMA InitDataInv == Init => DataInv
BY DEF Init, DataInv, ObjTypeOK, StateTypeOK, DaemonTypeOK, LocalTypeOK, ControlOK, AtState, NoApps, PCs

\* What a step inside the visit to one application may rely on.
LEMMA VisitFacts ==
  ASSUME DataInv, pc \in AtState
  PROVE  /\ ca \in Apps /\ cs \in StateIds /\ list[ca] \in AppObj
         /\ cur \in StateObj /\ orig \in StateObj
BY DEF DataInv, LocalTypeOK, ControlOK

LEMMA InitStatusType ==
  ASSUME NEW obj \in StateObj, NEW ap \in AppObj
  PROVE  /\ initBpfAppStateStatus(obj, ap) \in StateObj
         /\ initBpfAppStateStatus(obj, ap).app = obj.app
<1>1. ASSUME NEW p \in Progs, p \in ap.progs
      PROVE  [id |-> None, fn |-> p \in ap.fn, attach |-> "Pending", links |-> NoLinks] \in ProgState
  BY DEF ProgState, NoLinks, ProgramLinkStatus
<1>2. initializeNodeProgramList(ap) \in [Progs -> ProgState \cup {None}]
  BY <1>1 DEF initializeNodeProgramList
<1>3. QED
  BY <1>2 DEF initBpfAppStateStatus, StateObj, AppLoadStatus, CondTypes

LEMMA InitStateType ==
  ASSUME NEW a \in Apps, list[a] \in AppObj
  PROVE  initBpfAppState(a) \in StateObj
BY DEF initBpfAppState, StateObj, AppObj, AppLoadStatus, CondTypes, NoProgs

LEMMA SetLinkType ==
  ASSUME NEW obj \in StateObj, NEW p \in Progs, obj.progs[p] # None,
         NEW x \in Points, NEW new \in LinkState \cup {None}
  PROVE  /\ [obj EXCEPT !.progs[p].links[x] = new] \in StateObj
         /\ [obj EXCEPT !.progs[p].links[x] = new].app = obj.app
         /\ [obj EXCEPT !.progs[p].links[x] = new].progs[p] # None
         /\ [obj EXCEPT !.progs[p].links[x] = new].progs[p].links
              = [obj.progs[p].links EXCEPT ![x] = new]
<1>1. obj.progs[p] \in ProgState
  BY DEF StateObj
<1>2. [obj.progs[p] EXCEPT !.links[x] = new] \in ProgState
  BY <1>1 DEF ProgState
<1>3. [obj EXCEPT !.progs[p].links[x] = new]
        = [obj EXCEPT !.progs[p] = [obj.progs[p] EXCEPT !.links[x] = new]]
  BY <1>1 DEF StateObj, ProgState
<1> DEFINE ps == [obj.progs[p] EXCEPT !.links[x] = new]
           res == [obj EXCEPT !.progs[p] = ps]
<1>4. ps \in ProgState /\ ps # None /\ ps.links = [obj.progs[p].links EXCEPT ![x] = new]
  BY <1>1, <1>2, NoneAssumption DEF ProgState
<1> HIDE DEF ps
<1>5. res \in StateObj /\ res.app = obj.app /\ res.progs = [obj.progs EXCEPT ![p] = ps]
  BY <1>4, SetProgType
<1>6. res.progs[p] = ps
  BY <1>5 DEF StateObj
<1>7. QED
  BY <1>3, <1>4, <1>5, <1>6 DEF ps

\* A visit to one link keeps the locals in order.
LEMMA VisitLinkOK ==
  ASSUME DataInv, NEW x \in Points, AtLink(x), NEW new \in LinkState \cup {None}, VisitLink(x, new)
  PROVE  StateTypeOK' /\ LocalTypeOK' /\ ControlOK'
<1>1. /\ cur \in StateObj /\ cp \in Progs /\ cur.progs[cp] # None
      /\ \A y \in ltodo : cur.progs[cp].links[y] # None
  BY DEF DataInv, LocalTypeOK, ControlOK, AtState, AtLink
<1>2. /\ cur' \in StateObj /\ cur'.progs[cp] # None
      /\ cur'.progs[cp].links = [cur.progs[cp].links EXCEPT ![x] = new]
  BY <1>1, SetLinkType DEF VisitLink
<1>3. \A y \in ltodo' : cur'.progs[cp].links[y] # None
  BY <1>1, <1>2 DEF VisitLink, StateObj, ProgState
<1>4. StateTypeOK'
  BY DEF VisitLink, DataInv, StateTypeOK
<1>5. LocalTypeOK'
  BY <1>2 DEF VisitLink, DataInv, LocalTypeOK, loopVars
<1>6. ControlOK'
  BY <1>1, <1>2, <1>3, NoneAssumption DEF VisitLink, AtLink, DataInv, ControlOK, AtState, loopVars
<1>7. QED
  BY <1>4, <1>5, <1>6

LEMMA LinkEntryType ==
  ASSUME DataInv, NEW x \in Points, AtLink(x)
  PROVE  /\ cur.progs[cp] \in ProgState /\ cur.progs[cp].links[x] \in LinkState
         /\ \A status \in LinkStatus : WithStatus(x, status) \in LinkState
<1>1. cur.progs[cp] \in ProgState /\ cur.progs[cp].links[x] \in LinkState
  BY DEF DataInv, LocalTypeOK, ControlOK, AtState, AtLink, StateObj, ProgState
<1>2. QED
  BY <1>1 DEF WithStatus, LinkState

\* Steps that start, walk and end the loop over applications.
LoopStep ==
  \/ ReconcileStart \/ ReconcileDone
  \/ \E a \in Apps : SkipDeletedApp(a) \/ DuplicateState(a) \/ NeedState(a)
  \/ \E a \in Apps, s \in StateIds : BeginApp(a, s)

LEMMA LoopStepOK ==
  ASSUME DataInv, LoopStep
  PROVE  DataInv'
<1> USE DEF DataInv, ObjTypeOK, StateTypeOK, DaemonTypeOK, objVars, daemonVars
<1>1. CASE ReconcileStart
  BY <1>1 DEF ReconcileStart, LocalTypeOK, ControlOK, AtState, PCs, appVars, progVars
<1>2. CASE ReconcileDone
  BY <1>2, ReturnOK DEF ReconcileDone, Return
<1>3. ASSUME NEW a \in Apps, SkipDeletedApp(a) PROVE DataInv'
  BY <1>3 DEF SkipDeletedApp, LocalTypeOK, ControlOK, appVars, progVars
<1>4. ASSUME NEW a \in Apps, DuplicateState(a) PROVE DataInv'
  BY <1>4, ReturnOK DEF DuplicateState, ReturnAndRequeue
<1>5. ASSUME NEW a \in Apps, NeedState(a) PROVE DataInv'
  BY <1>5 DEF NeedState, LocalTypeOK, ControlOK, AtState, PCs, loopVars, progVars
<1>6. ASSUME NEW a \in Apps, NEW s \in StateIds, BeginApp(a, s) PROVE DataInv'
  BY <1>6 DEF BeginApp, getBpfAppState, LocalTypeOK, ControlOK, AtState, PCs, loopVars, progVars
<1>7. QED
  BY <1>1, <1>2, <1>3, <1>4, <1>5, <1>6 DEF LoopStep

\* Steps that create a state object or write its status.
WriteStep ==
  \/ createInitialBpfAppState \/ createInitialBpfAppStateFails
  \/ \E s \in StateIds : waitForBpfAppStateSpecUpdate(s) \/ waitForBpfAppStateStatusUpdate(s)
  \/ initBpfAppStateStatusFails \/ waitForBpfAppStateSpecUpdateTimesOut \/ waitForBpfAppStateStatusUpdateTimesOut
  \/ updateBpfAppStateStatus \/ updateBpfAppStateStatusFails
  \/ removeFinalizer \/ removeFinalizerFails

LEMMA WriteStepOK ==
  ASSUME DataInv, WriteStep
  PROVE  DataInv'
<1> USE DEF DataInv, ObjTypeOK, StateTypeOK, DaemonTypeOK, objVars, daemonVars
<1>1. CASE createInitialBpfAppState
  <2>1. ca \in Apps /\ initBpfAppState(ca) \in StateObj
    BY <1>1, InitStateType DEF createInitialBpfAppState, LocalTypeOK, ControlOK
  <2>2. StateTypeOK'
    BY <1>1, <2>1 DEF createInitialBpfAppState
  <2>3. LocalTypeOK' /\ ControlOK'
    BY <1>1 DEF createInitialBpfAppState, LocalTypeOK, ControlOK, AtState, PCs, loopVars, appVars, progVars
  <2>4. QED
    BY <1>1, <2>2, <2>3 DEF createInitialBpfAppState
<1>2. CASE createInitialBpfAppStateFails
  BY <1>2, ReturnOK DEF createInitialBpfAppStateFails, ReturnAndRequeue, Fault
<1>3. ASSUME NEW s \in StateIds, waitForBpfAppStateSpecUpdate(s) PROVE DataInv'
  <2>1. stCache[s] \in StateObj /\ stCache[s] # None
    BY <1>3 DEF waitForBpfAppStateSpecUpdate, getBpfAppState
  <2>2. ca \in Apps /\ list[ca] \in AppObj
    BY <1>3 DEF waitForBpfAppStateSpecUpdate, LocalTypeOK, ControlOK
  <2>3. cur' \in StateObj /\ cur' # None /\ orig' \in StateObj /\ orig' # None
    BY <1>3, <2>1, <2>2, InitStatusType, NoneAssumption DEF waitForBpfAppStateSpecUpdate
  <2>4. LocalTypeOK' /\ ControlOK'
    BY <1>3, <2>3 DEF waitForBpfAppStateSpecUpdate, LocalTypeOK, ControlOK, AtState, PCs, loopVars, progVars
  <2>5. QED
    BY <1>3, <2>4 DEF waitForBpfAppStateSpecUpdate
<1>4. ASSUME NEW s \in StateIds, waitForBpfAppStateStatusUpdate(s) PROVE DataInv'
  BY <1>4, ReturnOK DEF waitForBpfAppStateStatusUpdate, Return
<1>5. CASE initBpfAppStateStatusFails \/ waitForBpfAppStateSpecUpdateTimesOut
  BY <1>5, ReturnOK DEF waitForBpfAppStateSpecUpdateTimesOut, initBpfAppStateStatusFails, ReturnAndRequeue, Fault
<1>6. CASE waitForBpfAppStateStatusUpdateTimesOut
  BY <1>6, ReturnOK DEF waitForBpfAppStateStatusUpdateTimesOut, ReturnAndRequeue, Fault
<1>7. CASE updateBpfAppStateStatus
  <2>1. cur \in StateObj /\ cs \in StateIds
    BY <1>7, VisitFacts DEF updateBpfAppStateStatus, AtState
  <2>2. cur' \in StateObj /\ cur' # None
    BY <1>7, <2>1, NoneAssumption DEF updateBpfAppStateStatus, StateObj
  <2>3. StateTypeOK'
    BY <1>7, <2>2 DEF updateBpfAppStateStatus
  <2>4. LocalTypeOK' /\ ControlOK'
    BY <1>7, <2>2 DEF updateBpfAppStateStatus, LocalTypeOK, ControlOK, AtState, PCs, loopVars, progVars
  <2>5. QED
    BY <1>7, <2>3, <2>4 DEF updateBpfAppStateStatus
<1>8. CASE updateBpfAppStateStatusFails
  BY <1>8, ReturnOK DEF updateBpfAppStateStatusFails, ReturnAndRequeue, Fault
<1>9. CASE removeFinalizer
  <2>1. orig \in StateObj /\ cs \in StateIds
    BY <1>9, VisitFacts DEF removeFinalizer, AtState
  <2>2. [orig EXCEPT !.finalizer = FALSE] \in StateObj
    BY <2>1 DEF StateObj
  <2>3. StateTypeOK'
    BY <1>9, <2>2 DEF removeFinalizer
  <2>4. QED
    BY <1>9, <2>3, ReturnOK DEF removeFinalizer, Return
<1>10. CASE removeFinalizerFails
  BY <1>10, ReturnOK DEF removeFinalizerFails, Return, Fault
<1>11. QED
  BY <1>1, <1>2, <1>3, <1>4, <1>5, <1>6, <1>7, <1>8, <1>9, <1>10 DEF WriteStep

\* Steps of reconcileLoad.
LoadStep ==
  \/ BeginUnload \/ UnloadDone \/ NodeSelectorInvalid \/ ProgramListInvalid \/ AlreadyLoaded \/ load \/ loadFails
  \/ \E p \in Progs : unload(p)

LEMMA SetLoadType ==
  ASSUME NEW obj \in StateObj, NEW status \in AppLoadStatus
  PROVE  /\ [obj EXCEPT !.load = status] \in StateObj
         /\ [obj EXCEPT !.load = status, !.cond = "Error"] \in StateObj
BY DEF StateObj, CondTypes

LEMMA LoadErrorOK ==
  ASSUME DataInv, pc \in AtState, NEW status \in AppLoadStatus, LoadError(status)
  PROVE  StateTypeOK' /\ LocalTypeOK' /\ ControlOK'
<1>1. cur' \in StateObj /\ cur' # None
  BY VisitFacts, SetLoadType, NoneAssumption DEF LoadError
<1>2. QED
  BY <1>1 DEF LoadError, DataInv, StateTypeOK, LocalTypeOK, ControlOK, AtState, PCs, loopVars, progVars

LEMMA LoadedIdsType ==
  ASSUME NEW obj \in StateObj, NEW f \in [Recorded(obj) -> ProgIds]
  PROVE  WithIds(obj, f) \in StateObj
<1>1. ASSUME NEW p \in Recorded(obj)
      PROVE  [obj.progs[p] EXCEPT !.id = f[p]] \in ProgState
  <2>1. obj.progs[p] \in ProgState /\ f[p] \in ProgIds
    BY DEF Recorded, StateObj
  <2>2. QED
    BY <2>1 DEF ProgState
<1>2. [p \in Progs |-> IF p \in Recorded(obj) THEN [obj.progs[p] EXCEPT !.id = f[p]] ELSE None]
        \in [Progs -> ProgState \cup {None}]
  BY <1>1
<1>3. QED
  BY <1>2 DEF WithIds, StateObj, AppLoadStatus

LEMMA LoadStepOK ==
  ASSUME DataInv, LoadStep
  PROVE  DataInv'
<1> USE DEF DataInv, ObjTypeOK, StateTypeOK, DaemonTypeOK, objVars, daemonVars
<1>1. CASE BeginUnload
  <2>1. cur \in StateObj
    BY <1>1, VisitFacts DEF BeginUnload, AtState
  <2>2. LocalTypeOK' /\ ControlOK'
    BY <1>1, <2>1 DEF BeginUnload, Recorded, LocalTypeOK, ControlOK, AtState, PCs, loopVars, appVars
  <2>3. QED
    BY <1>1, <2>2 DEF BeginUnload
<1>2. CASE UnloadDone
  <2>1. cur \in StateObj /\ list[ca] \in AppObj
    BY <1>2, VisitFacts DEF UnloadDone, AtState
  <2>2. cur' \in StateObj /\ cur' # None
    BY <1>2, <2>1, SetLoadType, NoneAssumption DEF UnloadDone, AppLoadStatus
  <2>3. ptodo' \in SUBSET Progs
    BY <1>2, <2>1 DEF UnloadDone, AppObj
  <2>4. LocalTypeOK' /\ ControlOK'
    BY <1>2, <2>2, <2>3 DEF UnloadDone, LocalTypeOK, ControlOK, AtState, PCs, loopVars
  <2>5. QED
    BY <1>2, <2>4 DEF UnloadDone
<1>3. CASE NodeSelectorInvalid \/ ProgramListInvalid
  <2>1. pc \in AtState
    BY <1>3 DEF ProgramListInvalid, NodeSelectorInvalid, MustLoad, AtState
  <2>2. cur.load \in AppLoadStatus
    BY <2>1, VisitFacts DEF StateObj
  <2>3. StateTypeOK' /\ LocalTypeOK' /\ ControlOK'
    BY <1>3, <2>1, <2>2, LoadErrorOK DEF ProgramListInvalid, NodeSelectorInvalid, AppLoadStatus
  <2>4. QED
    BY <1>3, <2>3 DEF ProgramListInvalid, NodeSelectorInvalid, LoadError
<1>4. CASE AlreadyLoaded
  <2>1. cur \in StateObj /\ list[ca] \in AppObj
    BY <1>4, VisitFacts DEF AlreadyLoaded, MustLoad, AtState
  <2>2. cur' \in StateObj /\ cur' # None
    BY <1>4, <2>1, SetLoadType, NoneAssumption DEF AlreadyLoaded, AppLoadStatus
  <2>3. ptodo' \in SUBSET Progs
    BY <1>4, <2>1 DEF AlreadyLoaded, AppObj
  <2>4. LocalTypeOK' /\ ControlOK'
    BY <1>4, <2>2, <2>3 DEF AlreadyLoaded, MustLoad, LocalTypeOK, ControlOK, AtState, PCs, loopVars
  <2>5. QED
    BY <1>4, <2>4 DEF AlreadyLoaded
<1>5. CASE load
  <2>1. cur \in StateObj /\ list[ca] \in AppObj /\ pc = "load"
    BY <1>5, VisitFacts DEF load, MustLoad, AtState
  <2>2. PICK f \in FreshIds(Recorded(cur)) : BpfmanLoad(f) /\ cur' = WithIds(cur, f)
    BY <1>5 DEF load
  <2>3. f \in [Recorded(cur) -> ProgIds]
    BY DEF FreshIds
  <2>4. cur' \in StateObj /\ cur' # None
    BY <2>1, <2>2, <2>3, LoadedIdsType, NoneAssumption
  <2>5. ptodo' \in SUBSET Progs
    BY <1>5, <2>1 DEF load, AppObj
  <2>6. LocalTypeOK' /\ ControlOK'
    BY <1>5, <2>1, <2>4, <2>5 DEF load, LocalTypeOK, ControlOK, AtState, PCs, loopVars
  <2>7. DaemonTypeOK'
    BY <1>5, <2>2, <2>3 DEF load, BpfmanLoad
  <2>8. QED
    BY <1>5, <2>6, <2>7 DEF load, Fault
<1>6. CASE loadFails
  <2>1. StateTypeOK' /\ LocalTypeOK' /\ ControlOK'
    BY <1>6, LoadErrorOK DEF loadFails, MustLoad, AtState, AppLoadStatus
  <2>2. DaemonTypeOK'
    BY <1>6 DEF loadFails, FreshIds, BpfmanLoad
  <2>3. QED
    BY <1>6, <2>1, <2>2 DEF loadFails, LoadError, Fault
<1>7. ASSUME NEW p \in Progs, unload(p) PROVE DataInv'
  <2>1. cur \in StateObj /\ cur.progs[p] # None /\ p \in ptodo /\ pc = "unload"
    BY <1>7, VisitFacts DEF unload, AtState, ControlOK
  <2>2. cur.progs[p] \in ProgState
    BY <2>1 DEF StateObj
  <2>3. UnloadedProg(cur.progs[p]) \in ProgState
    BY <2>2, UnloadedProgType
  <2>4. cur' = [cur EXCEPT !.progs[p] = UnloadedProg(cur.progs[p])]
    BY <1>7, <2>1 DEF unload, StateObj
  <2>5. cur' \in StateObj /\ cur'.progs = [cur.progs EXCEPT ![p] = UnloadedProg(cur.progs[p])]
    BY <2>1, <2>3, <2>4, SetProgType
  <2>6. DaemonTypeOK' /\ StateTypeOK' /\ ObjTypeOK'
    BY <1>7 DEF unload, BpfmanUnload, Fault
  <2>7. LocalTypeOK'
    BY <1>7, <2>5 DEF unload, LocalTypeOK, loopVars
  <2>8. ControlOK'
    BY <1>7, <2>1, <2>5, NoneAssumption DEF unload, ControlOK, AtState, loopVars, StateObj
  <2>9. QED
    BY <2>6, <2>7, <2>8
<1>8. QED
  BY <1>1, <1>2, <1>3, <1>4, <1>5, <1>6, <1>7 DEF LoadStep

\* Steps of reconcileProgram.
LinkStep ==
  \/ \E p \in Progs : ProgramStateMissing(p) \/ updateLinks(p) \/ updateLinksFails(p)
  \/ \E x \in Points : \/ LinkInPlace(x) \/ LinkAttach(x) \/ LinkAttachFails(x) \/ LinkPanic(x)
                       \/ LinkDetach(x) \/ LinkDetachFails(x) \/ LinkDrop(x)
  \/ LinksDone

\* Replacing the links and the status of one program leaves a state object.
LEMMA SetLinksType ==
  ASSUME NEW obj \in StateObj, NEW p \in Progs, obj.progs[p] # None,
         NEW links \in [Points -> LinkState \cup {None}], NEW status \in ProgramLinkStatus
  PROVE  /\ [obj EXCEPT !.progs[p].links = links] \in StateObj
         /\ [obj EXCEPT !.progs[p].links = links].progs[p] # None
         /\ [obj EXCEPT !.progs[p].attach = status] \in StateObj
         /\ [obj EXCEPT !.progs[p].links = links, !.progs[p].attach = status] \in StateObj
<1>1. obj.progs[p] \in ProgState
  BY DEF StateObj
<1> DEFINE ps1 == [obj.progs[p] EXCEPT !.links = links]
           ps2 == [obj.progs[p] EXCEPT !.attach = status]
           ps3 == [obj.progs[p] EXCEPT !.links = links, !.attach = status]
<1>2. ps1 \in ProgState /\ ps2 \in ProgState /\ ps3 \in ProgState
  BY <1>1 DEF ProgState
<1>3. /\ [obj EXCEPT !.progs[p].links = links] = [obj EXCEPT !.progs[p] = ps1]
      /\ [obj EXCEPT !.progs[p].attach = status] = [obj EXCEPT !.progs[p] = ps2]
  BY <1>1 DEF StateObj, ProgState
<1>4. [obj EXCEPT !.progs[p].links = links, !.progs[p].attach = status]
        = [obj EXCEPT !.progs[p] = ps3]
  BY <1>1 DEF StateObj, ProgState
<1> HIDE DEF ps1, ps2, ps3
<1>5. [obj EXCEPT !.progs[p] = ps1].progs[p] = ps1
  BY DEF StateObj
<1>6. \A ps \in ProgState : [obj EXCEPT !.progs[p] = ps] \in StateObj
  BY SetProgType
<1>7. ps1 # None
  BY <1>2, NoneAssumption
<1>8. [obj EXCEPT !.progs[p].links = links].progs[p] # None
  BY <1>3, <1>5, <1>7
<1>9. [obj EXCEPT !.progs[p].links = links, !.progs[p].attach = status] \in StateObj
  BY <1>2, <1>4, <1>6
<1>10. QED
  BY <1>2, <1>3, <1>6, <1>8, <1>9

LEMMA LinkStepOK ==
  ASSUME DataInv, LinkStep
  PROVE  DataInv'
<1> USE DEF DataInv, ObjTypeOK, StateTypeOK, DaemonTypeOK, objVars, daemonVars
<1>1. ASSUME NEW p \in Progs, ProgramStateMissing(p) PROVE DataInv'
  BY <1>1 DEF ProgramStateMissing, LocalTypeOK, ControlOK, AtState, loopVars
<1>2. ASSUME NEW p \in Progs, updateLinks(p) PROVE DataInv'
  <2>1. cur \in StateObj /\ cur.progs[p] # None /\ pc = "programs"
    BY <1>2, VisitFacts DEF updateLinks, HasProgState, AtState
  <2>2. PICK got \in SUBSET getExpectedLinks(p) :
          cur' = [cur EXCEPT !.progs[p].links = LinksWith(cur.progs[p].links, got)]
    BY <1>2, <2>1 DEF updateLinks, StateObj, ProgState
  <2>3. LinksWith(cur.progs[p].links, got) \in [Points -> LinkState \cup {None}]
    <3>1. cur.progs[p].links \in [Points -> LinkState \cup {None}]
      BY <2>1 DEF StateObj, ProgState
    <3>2. got \in SUBSET Points
      BY DEF getExpectedLinks
    <3>3. QED
      BY <3>1, <3>2, LinksWithType
  <2>4. cur' \in StateObj /\ cur'.progs[p] # None
    BY <2>1, <2>2, <2>3, SetLinksType DEF ProgramLinkStatus
  <2>5. LocalTypeOK' /\ ControlOK'
    BY <1>2, <2>1, <2>4, NoneAssumption
       DEF updateLinks, LocalTypeOK, ControlOK, AtState, PCs, loopVars
  <2>6. QED
    BY <1>2, <2>5 DEF updateLinks, Fault
<1>3. ASSUME NEW p \in Progs, updateLinksFails(p) PROVE DataInv'
  <2>1. cur \in StateObj /\ cur.progs[p] # None /\ pc = "programs"
    BY <1>3, VisitFacts DEF updateLinksFails, HasProgState, AtState
  <2>2. PICK got \in SUBSET getExpectedLinks(p) :
          cur' = [cur EXCEPT !.progs[p].links = LinksWith(cur.progs[p].links, got),
                             !.progs[p].attach = "UpdateAttachInfoError"]
    BY <1>3, <2>1 DEF updateLinksFails, StateObj, ProgState
  <2>3. LinksWith(cur.progs[p].links, got) \in [Points -> LinkState \cup {None}]
    <3>1. cur.progs[p].links \in [Points -> LinkState \cup {None}]
      BY <2>1 DEF StateObj, ProgState
    <3>2. got \in SUBSET Points
      BY DEF getExpectedLinks
    <3>3. QED
      BY <3>1, <3>2, LinksWithType
  <2>4. cur' \in StateObj
    BY <2>1, <2>2, <2>3, SetLinksType DEF ProgramLinkStatus
  <2>5. LocalTypeOK' /\ ControlOK'
    BY <1>3, <2>1, <2>4, NoneAssumption
       DEF updateLinksFails, LocalTypeOK, ControlOK, AtState, PCs, loopVars
  <2>6. QED
    BY <1>3, <2>5 DEF updateLinksFails, Fault
<1>4. ASSUME NEW x \in Points,
             LinkInPlace(x) \/ LinkAttachFails(x) \/ LinkDetachFails(x)
      PROVE  DataInv'
  <2>1. AtLink(x)
    BY <1>4 DEF LinkInPlace, LinkAttachFails, LinkDetachFails
  <2>2. PICK status \in LinkStatus : VisitLink(x, WithStatus(x, status))
    BY <1>4 DEF LinkInPlace, LinkAttachFails, LinkDetachFails, LinkStatus
  <2>3. StateTypeOK' /\ LocalTypeOK' /\ ControlOK'
    <3>1. WithStatus(x, status) \in LinkState
      BY <2>1, LinkEntryType
    <3>2. QED
      BY <2>1, <2>2, <3>1, VisitLinkOK
  <2>4. DaemonTypeOK'
    <3>1. cur.progs[cp].id \in ProgIds \cup {None}
      BY <2>1, LinkEntryType DEF ProgState
    <3>2. ASSUME LinkDetachFails(x)
          PROVE  UNCHANGED <<loaded, freeProgs, freeLinks>> /\ linkProg' \in [LinkIds -> ProgIds \cup {None}]
      BY <2>2, <3>2 DEF LinkDetachFails, VisitLink, BpfmanDetach
    <3>3. QED
      BY <1>4, <2>2, <3>1, <3>2 DEF VisitLink, LinkInPlace, LinkAttachFails, BpfmanAttach
  <2>5. ObjTypeOK'
    BY <1>4, <2>2 DEF VisitLink, LinkInPlace, LinkAttachFails, LinkDetachFails, Fault
  <2>6. QED
    BY <2>3, <2>4, <2>5
<1>5. ASSUME NEW x \in Points, LinkAttach(x) PROVE DataInv'
  <2>1. AtLink(x) /\ cur.progs[cp].id \in loaded
    BY <1>5 DEF LinkAttach
  <2>2. PICK l \in freeLinks : /\ BpfmanAttach(l, cur.progs[cp].id)
                               /\ VisitLink(x, [WithStatus(x, "Attached") EXCEPT !.id = l])
    BY <1>5 DEF LinkAttach
  <2>3. [WithStatus(x, "Attached") EXCEPT !.id = l] \in LinkState
    <3>1. WithStatus(x, "Attached") \in LinkState
      BY <2>1, LinkEntryType DEF LinkStatus
    <3>2. QED
      BY <3>1 DEF LinkState
  <2>4. StateTypeOK' /\ LocalTypeOK' /\ ControlOK'
    BY <2>1, <2>2, <2>3, VisitLinkOK
  <2>5. DaemonTypeOK'
    BY <2>1, <2>2 DEF VisitLink, BpfmanAttach
  <2>6. QED
    BY <1>5, <2>2, <2>4, <2>5 DEF LinkAttach, VisitLink, Fault
<1>6. ASSUME NEW x \in Points, LinkPanic(x) PROVE DataInv'
  BY <1>6, ReturnOK DEF LinkPanic, ReturnAndRequeue
<1>7. ASSUME NEW x \in Points, LinkDetach(x) \/ LinkDrop(x) PROVE DataInv'
  <2>1. AtLink(x) /\ VisitLink(x, None)
    BY <1>7 DEF LinkDetach, BpfmanDetach, LinkDrop
  <2>2. StateTypeOK' /\ LocalTypeOK' /\ ControlOK'
    BY <2>1, VisitLinkOK
  <2>3. DaemonTypeOK' /\ ObjTypeOK'
    BY <1>7, <2>1 DEF LinkDetach, BpfmanDetach, LinkDrop, VisitLink, Fault
  <2>4. QED
    BY <2>2, <2>3
<1>8. CASE LinksDone
  <2>1. cur \in StateObj /\ cp \in Progs /\ cur.progs[cp] # None
    BY <1>8, VisitFacts DEF LinksDone, AtState, ControlOK
  <2>2. cur' \in StateObj
    <3>1. updateProgramAttachStatus(cur.progs[cp]) \in ProgramLinkStatus
      BY DEF updateProgramAttachStatus, ProgramLinkStatus
    <3>2. NoLinks \in [Points -> LinkState \cup {None}]
      BY DEF NoLinks
    <3>3. QED
      BY <1>8, <2>1, <3>1, <3>2, SetLinksType DEF LinksDone
  <2>3. LocalTypeOK' /\ ControlOK'
    BY <1>8, <2>2, NoneAssumption DEF LinksDone, LocalTypeOK, ControlOK, AtState, PCs, loopVars
  <2>4. QED
    BY <1>8, <2>3 DEF LinksDone
<1>9. QED
  BY <1>1, <1>2, <1>3, <1>4, <1>5, <1>6, <1>7, <1>8 DEF LinkStep

\* The two ways a visit to an application ends.
EndStep == StatusChanged \/ StatusUnchanged

LEMMA FinalStateType ==
  ASSUME cur \in StateObj
  PROVE  FinalState \in StateObj /\ FinalState.app = cur.app
<1>1. checkProgramStatus(cur) \in CondTypes
  BY DEF checkProgramStatus, CondTypes
<1>2. Condition(IF listChanged THEN "ProgramListChangedError" ELSE checkProgramStatus(cur))
        \in CondTypes
  BY <1>1 DEF Condition, CondTypes
<1>3. QED
  BY <1>2 DEF FinalState, StateObj

LEMMA EndStepOK ==
  ASSUME DataInv, EndStep
  PROVE  DataInv'
<1> USE DEF DataInv, ObjTypeOK, StateTypeOK, DaemonTypeOK, objVars, daemonVars
<1>1. CASE StatusChanged
  <2>1. cur' \in StateObj /\ cur' # None
    BY <1>1, VisitFacts, FinalStateType, NoneAssumption DEF StatusChanged, VisitOver, AtState
  <2>2. LocalTypeOK' /\ ControlOK'
    BY <1>1, <2>1
       DEF StatusChanged, VisitOver, LocalTypeOK, ControlOK, AtState, PCs, loopVars, progVars
  <2>3. QED
    BY <1>1, <2>2 DEF StatusChanged
<1>2. CASE StatusUnchanged
  <2>1. CASE ReadyToRelease
    BY <1>2, <2>1
       DEF StatusUnchanged, VisitOver, LocalTypeOK, ControlOK, AtState, PCs, appVars, progVars
  <2>2. CASE ~ReadyToRelease
    BY <1>2, <2>2
       DEF StatusUnchanged, VisitOver, LocalTypeOK, ControlOK, AtState, PCs, progVars
  <2>3. QED
    BY <2>1, <2>2
<1>3. QED
  BY <1>1, <1>2 DEF EndStep

\* Steps around the agent leave its locals alone, or wipe them.
LEMMA AroundOK ==
  ASSUME DataInv, UNCHANGED agentVars
  PROVE  LocalTypeOK' /\ ControlOK'
BY DEF DataInv, LocalTypeOK, ControlOK, AtState, agentVars, loopVars, appVars, progVars

LEMMA ClusterStepOK ==
  ASSUME DataInv, ClusterStep
  PROVE  DataInv'
<1> USE DEF DataInv, ObjTypeOK, StateTypeOK, DaemonTypeOK, objVars, daemonVars
<1>1. ASSUME NEW s \in StateIds, SyncState(s) PROVE DataInv'
  BY <1>1, AroundOK DEF SyncState
<1>2. ASSUME NEW s \in StateIds, GarbageCollect(s) PROVE DataInv'
  <2>1. st[s] \in StateObj
    BY <1>2 DEF GarbageCollect
  <2>2. [st[s] EXCEPT !.deleting = TRUE] \in StateObj
    BY <2>1 DEF StateObj
  <2>3. StateTypeOK'
    BY <1>2, <2>2 DEF GarbageCollect
  <2>4. QED
    BY <1>2, <2>3, AroundOK DEF GarbageCollect
<1>3. ASSUME NEW a \in Apps, OperatorRelease(a) PROVE DataInv'
  BY <1>3, AroundOK DEF OperatorRelease
<1>4. QED
  BY <1>1, <1>2, <1>3 DEF ClusterStep

LEMMA EnvironmentStepOK ==
  ASSUME DataInv, EnvironmentStep
  PROVE  DataInv'
<1> USE DEF DataInv, ObjTypeOK, StateTypeOK, DaemonTypeOK, objVars, daemonVars
<1>1. CASE Crash
  BY <1>1, ReturnOK DEF Crash, ReturnAndRequeue, Fault
<1>2. CASE Resync
  BY <1>2, AroundOK DEF Resync
<1>3. ASSUME NEW a \in Apps, UserCreate(a) PROVE DataInv'
  <2>1. PICK P \in (SUBSET Progs) \ {{}}, W \in SUBSET (Progs \X Points), D \in Twice, sel \in Selectors :
          app' = [app EXCEPT ![a] = [uid |-> created[a] + 1, deleting |-> FALSE, progs |-> P,
                                     twice |-> D, fn |-> {}, want |-> W, selector |-> sel]]
    BY <1>3 DEF UserCreate
  <2>2. [uid |-> created[a] + 1, deleting |-> FALSE, progs |-> P, twice |-> D, fn |-> {}, want |-> W,
         selector |-> sel] \in AppObj
    <3>1. D \in SUBSET Progs /\ sel \in {"valid", "malformed"}
      BY DEF Twice, Selectors
    <3>2. QED
      BY <3>1 DEF AppObj
  <2>3. app' \in [Apps -> AppObj \cup {None}]
    <3>1. ASSUME NEW n \in AppObj PROVE [app EXCEPT ![a] = n] \in [Apps -> AppObj \cup {None}]
      OBVIOUS
    <3>2. QED
      BY <2>1, <2>2, <3>1
  <2>4. QED
    BY <1>3, <2>3, AroundOK DEF UserCreate, Twice, Selectors
<1>4. ASSUME NEW a \in Apps, UserDelete(a) PROVE DataInv'
  <2>1. app[a] \in AppObj
    BY <1>4 DEF UserDelete
  <2>2. [app[a] EXCEPT !.deleting = TRUE] \in AppObj
    BY <2>1 DEF AppObj
  <2>3. app' = [app EXCEPT ![a] = [app[a] EXCEPT !.deleting = TRUE]]
    BY <1>4 DEF UserDelete
  <2>4. QED
    BY <1>4, <2>2, <2>3, AroundOK DEF UserDelete
<1>5. ASSUME NEW a \in Apps, UserEdit(a) PROVE DataInv'
  <2>1. app[a] \in AppObj
    BY <1>5 DEF UserEdit
  <2>2. PICK new \in AppObj : app' = [app EXCEPT ![a] = new]
    <3>1. ASSUME NEW W \in SUBSET (app[a].progs \X Points), app' = [app EXCEPT ![a].want = W]
          PROVE  \E new \in AppObj : app' = [app EXCEPT ![a] = new]
      <4>1. [app[a] EXCEPT !.want = W] \in AppObj
        BY <2>1 DEF AppObj
      <4>2. QED
        BY <3>1, <4>1
    <3>2. ASSUME NEW P \in (SUBSET Progs) \ {{}}, NEW D \in Twice,
                 app' = [app EXCEPT ![a].progs = P, ![a].twice = D]
          PROVE  \E new \in AppObj : app' = [app EXCEPT ![a] = new]
      <4>1. D \in SUBSET Progs
        BY DEF Twice
      <4>2. [app[a] EXCEPT !.progs = P, !.twice = D] \in AppObj
        BY <2>1, <4>1 DEF AppObj
      <4>3. app' = [app EXCEPT ![a] = [app[a] EXCEPT !.progs = P, !.twice = D]]
        BY <3>2
      <4>4. QED
        BY <4>2, <4>3
    <3>3. ASSUME NEW p \in app[a].progs,
                 app' = [app EXCEPT ![a].fn = IF p \in @ THEN @ \ {p} ELSE @ \cup {p}]
          PROVE  \E new \in AppObj : app' = [app EXCEPT ![a] = new]
      <4> DEFINE F == IF p \in app[a].fn THEN app[a].fn \ {p} ELSE app[a].fn \cup {p}
      <4>1. F \in SUBSET Progs
        BY <2>1 DEF AppObj
      <4>2. app' = [app EXCEPT ![a] = [app[a] EXCEPT !.fn = F]]
        BY <3>3
      <4> HIDE DEF F
      <4>3. [app[a] EXCEPT !.fn = F] \in AppObj
        BY <2>1, <4>1 DEF AppObj
      <4>4. QED
        BY <4>2, <4>3
    <3>4. ASSUME NEW sel \in Selectors, app' = [app EXCEPT ![a].selector = sel]
          PROVE  \E new \in AppObj : app' = [app EXCEPT ![a] = new]
      <4>1. sel \in {"valid", "malformed"}
        BY DEF Selectors
      <4>2. [app[a] EXCEPT !.selector = sel] \in AppObj
        BY <2>1, <4>1 DEF AppObj
      <4>3. QED
        BY <3>4, <4>2
    <3>5. QED
      BY <1>5, <3>1, <3>2, <3>3, <3>4 DEF UserEdit
  <2>3. app' \in [Apps -> AppObj \cup {None}]
    <3>1. app \in [Apps -> AppObj \cup {None}]
      OBVIOUS
    <3>2. ASSUME NEW n \in AppObj PROVE [app EXCEPT ![a] = n] \in [Apps -> AppObj \cup {None}]
      BY <3>1
    <3>3. QED
      BY <2>2, <3>2
  <2>4. QED
    BY <1>5, <2>3, AroundOK DEF UserEdit, Edit
<1>6. ASSUME NEW a \in Apps, RelabelNode(a) PROVE DataInv'
  BY <1>6, AroundOK DEF RelabelNode, Edit
<1>7. ASSUME NEW x \in Points, PointChanges(x) PROVE DataInv'
  BY <1>7, AroundOK DEF PointChanges, Edit
<1>8. ASSUME NEW i \in ProgIds, ProgramLost(i) PROVE DataInv'
  BY <1>8, AroundOK DEF ProgramLost, BpfmanUnload, Fault
<1>9. QED
  BY <1>1, <1>2, <1>3, <1>4, <1>5, <1>6, <1>7, <1>8 DEF EnvironmentStep

LEMMA StutterOK ==
  ASSUME DataInv, UNCHANGED vars
  PROVE  DataInv'
BY DEF DataInv, ObjTypeOK, StateTypeOK, DaemonTypeOK, LocalTypeOK, ControlOK, AtState,
       vars, objVars, daemonVars, loopVars, appVars, progVars

LEMMA DataInvInductive == DataInv /\ [Next]_vars => DataInv'
<1> SUFFICES ASSUME DataInv, [Next]_vars PROVE DataInv'
  OBVIOUS
<1>1. CASE ReconcileStep
  <2>1. LoopStep \/ WriteStep \/ LoadStep \/ LinkStep \/ EndStep
    BY <1>1, Zenon DEF ReconcileStep, LoopStep, WriteStep, LoadStep, LinkStep, EndStep
  <2>2. QED
    BY <2>1, LoopStepOK, WriteStepOK, LoadStepOK, LinkStepOK, EndStepOK
<1>2. QED
  BY <1>1, ClusterStepOK, EnvironmentStepOK, StutterOK DEF Next

\* The flags are set, cleared or left alone.
LEMMA ReturnFlags ==
  ASSUME FlagTypeOK, Return \/ ReturnAndRequeue
  PROVE  FlagTypeOK'
BY Zenon DEF FlagTypeOK, Return, ReturnAndRequeue, ReturnLocals

LEMMA FlagsInductive == FlagTypeOK /\ [Next]_vars => FlagTypeOK'
<1> SUFFICES ASSUME FlagTypeOK, [Next]_vars PROVE FlagTypeOK'
  OBVIOUS
<1>1. CASE LoopStep
  BY <1>1, ReturnFlags, Zenon
     DEF FlagTypeOK, LoopStep, ReconcileStart, ReconcileDone, SkipDeletedApp, DuplicateState,
         NeedState, BeginApp, appVars
<1>2. CASE WriteStep
  BY <1>2, ReturnFlags, Zenon
     DEF FlagTypeOK, WriteStep, createInitialBpfAppState, createInitialBpfAppStateFails,
         waitForBpfAppStateSpecUpdate, waitForBpfAppStateStatusUpdate,
         waitForBpfAppStateSpecUpdateTimesOut, initBpfAppStateStatusFails, waitForBpfAppStateStatusUpdateTimesOut,
         updateBpfAppStateStatus, updateBpfAppStateStatusFails, removeFinalizer,
         removeFinalizerFails, appVars
<1>3. CASE LoadStep
  BY <1>3, Zenon
     DEF FlagTypeOK, LoadStep, BeginUnload, UnloadDone, ProgramListInvalid, NodeSelectorInvalid, AlreadyLoaded, load,
         loadFails, unload, LoadError, appVars
<1>4. CASE LinkStep
  BY <1>4, ReturnFlags, Zenon
     DEF FlagTypeOK, LinkStep, ProgramStateMissing, updateLinks, updateLinksFails, LinkInPlace,
         LinkAttach, LinkAttachFails, LinkPanic, LinkDetach, BpfmanDetach, LinkDetachFails, LinkDrop, LinksDone,
         VisitLink
<1>5. CASE EndStep
  <2>1. CASE StatusChanged
    BY <2>1, Zenon DEF FlagTypeOK, StatusChanged
  <2>2. CASE StatusUnchanged
    BY <2>2, Zenon DEF FlagTypeOK, StatusUnchanged, appVars
  <2>3. QED
    BY <1>5, <2>1, <2>2 DEF EndStep
<1>6. CASE ClusterStep
  BY <1>6, Zenon
     DEF FlagTypeOK, ClusterStep, SyncState, GarbageCollect, OperatorRelease, agentVars, appVars
<1>7. CASE EnvironmentStep
  <2>1. CASE Crash
    BY <2>1, ReturnFlags, Zenon DEF Crash
  <2>2. CASE Resync
    BY <2>2, Zenon DEF FlagTypeOK, Resync, agentVars, appVars
  <2>3. ASSUME NEW a \in Apps, UserCreate(a) \/ UserDelete(a) \/ UserEdit(a) \/ RelabelNode(a)
        PROVE  FlagTypeOK'
    BY <2>3, Zenon
       DEF FlagTypeOK, UserCreate, Twice, Selectors, UserDelete, UserEdit, RelabelNode, agentVars, appVars
  <2>4. ASSUME NEW x \in Points, PointChanges(x) PROVE FlagTypeOK'
    <3>1. queued' \in BOOLEAN
      BY <2>4 DEF PointChanges
    <3>2. listChanged' \in BOOLEAN
      BY <2>4, Zenon DEF FlagTypeOK, PointChanges, agentVars, appVars
    <3>3. QED
      BY <3>1, <3>2, Zenon DEF FlagTypeOK
  <2>5. ASSUME NEW i \in ProgIds, ProgramLost(i) PROVE FlagTypeOK'
    BY <2>5, Zenon DEF FlagTypeOK, ProgramLost, agentVars, appVars
  <2>6. QED
    BY <1>7, <2>1, <2>2, <2>3, <2>4, <2>5, Zenon DEF EnvironmentStep
<1>8. CASE UNCHANGED vars
  BY <1>8, Zenon DEF FlagTypeOK, vars, appVars
<1>9. LoopStep \/ WriteStep \/ LoadStep \/ LinkStep \/ EndStep \/ ClusterStep \/ EnvironmentStep
      \/ UNCHANGED vars
  BY Zenon DEF Next, ReconcileStep, LoopStep, WriteStep, LoadStep, LinkStep, EndStep
<1>10. QED
  BY <1>1, <1>2, <1>3, <1>4, <1>5, <1>6, <1>7, <1>8, <1>9, Zenon

\* Every step of the agent and of its surroundings, failed calls, crashes and
\* users included, leaves every variable with a value of its kind, and the
\* locals of Reconcile() such that the code never follows a nil pointer to a
\* state object, to a program entry or to a link entry.
THEOREM TypeCorrect == Spec => [](TypeOK /\ ControlOK)
<1>1. Init => DataInv /\ FlagTypeOK
  BY InitDataInv, Zenon DEF Init, FlagTypeOK
<1>2. DataInv /\ FlagTypeOK /\ [Next]_vars => (DataInv /\ FlagTypeOK)'
  BY DataInvInductive, FlagsInductive
<1>3. DataInv /\ FlagTypeOK => TypeOK /\ ControlOK
  BY DEF DataInv, TypeOK
<1>4. QED
  BY <1>1, <1>2, <1>3, PTL DEF Spec

(***************************************************************************)
(* At most one state object for an application, as long as no wait for the *)
(* cache gives up.                                                         *)
(***************************************************************************)
\* An object and its cached copy belong to the same application.
AppAgree ==
  \A s \in StateIds : st[s] # None /\ stCache[s] # None => st[s].app = stCache[s].app

\* Except between a create and the end of its wait, the cache knows every object.
CacheComplete == pc # "waitSpec" => \A s \in StateIds : st[s] # None => stCache[s] # None

\* Where an object is about to be created, the cache shows none.
CreateOnlyFirst == pc = "create" => getBpfAppState(ca) = {}

\* While the agent waits, object n is the one it has created: it cannot go
\* away, and it is the only one the cache may be missing.
WaitsFor(n) ==
  /\ st[n] # None /\ st[n].app = ca /\ st[n].finalizer
  /\ getBpfAppState(ca) \subseteq {n}
  /\ \A s \in StateIds : st[s] # None => stCache[s] # None \/ s = n

CreatedIsMissing == pc = "waitSpec" => \E n \in StateIds : WaitsFor(n)

\* The copy at work stays the copy of the same application's object.
SameApp == pc \in AtState => cur.app = orig.app

UniqueInv ==
  /\ AtMostOneState /\ AppAgree /\ CacheComplete
  /\ CreateOnlyFirst /\ CreatedIsMissing /\ SameApp

LEMMA InitUnique == Init => UniqueInv
BY DEF Init, UniqueInv, AtMostOneState, AppAgree, CacheComplete, CreateOnlyFirst,
       CreatedIsMissing, SameApp, AtState

\* Steps that touch neither the objects nor the cache nor the creation.
LEMMA QuietUnique ==
  ASSUME UniqueInv, UNCHANGED <<st, stCache>>, pc # "waitSpec",
         pc' \notin {"create", "waitSpec"}, pc' \in AtState => cur'.app = orig'.app
  PROVE  UniqueInv'
BY DEF UniqueInv, AtMostOneState, AppAgree, CacheComplete, CreateOnlyFirst,
       CreatedIsMissing, SameApp, AtState

\* Steps around the agent that touch neither the objects nor the cache.
LEMMA AroundUnique ==
  ASSUME UniqueInv, UNCHANGED <<st, stCache, agentVars>>
  PROVE  UniqueInv'
BY DEF UniqueInv, AtMostOneState, AppAgree, CacheComplete, CreateOnlyFirst,
       CreatedIsMissing, SameApp, AtState, WaitsFor, getBpfAppState, agentVars, appVars

\* The steps of a visit change what the object says, never whose it is.
LEMMA VisitKeepsApp ==
  ASSUME DataInv, LoadStep \/ LinkStep \/ EndStep
  PROVE  /\ UNCHANGED <<st, stCache>> /\ pc \in AtState
         /\ pc' \notin {"create", "waitSpec"}
         /\ pc' \in AtState => cur'.app = cur.app /\ orig' = orig
<1>1. ASSUME NEW obj \in StateObj, NEW status, NEW cond
      PROVE  /\ [obj EXCEPT !.load = status].app = obj.app
             /\ [obj EXCEPT !.load = status, !.cond = cond].app = obj.app
  BY DEF StateObj
<1>2. ASSUME NEW obj \in StateObj, NEW p \in Progs, NEW links, NEW status
      PROVE  /\ [obj EXCEPT !.progs[p] = links].app = obj.app
             /\ [obj EXCEPT !.progs[p].links = links].app = obj.app
             /\ [obj EXCEPT !.progs[p].attach = status].app = obj.app
             /\ [obj EXCEPT !.progs[p].links = links, !.progs[p].attach = status].app = obj.app
  BY DEF StateObj
<1>3. CASE LoadStep
  <2>1. pc \in AtState
    BY <1>3 DEF LoadStep, BeginUnload, UnloadDone, ProgramListInvalid, NodeSelectorInvalid, AlreadyLoaded, load,
                loadFails, unload, MustLoad, AtState
  <2>2. cur \in StateObj
    BY <2>1, VisitFacts
  <2>3. CASE BeginUnload
    BY <2>1, <2>3 DEF BeginUnload, appVars
  <2>4. CASE UnloadDone
    BY <2>1, <2>2, <2>4, <1>1 DEF UnloadDone
  <2>5. CASE NodeSelectorInvalid \/ ProgramListInvalid
    <3>1. PICK status \in {cur.load, "ProgramListChangedError"} : LoadError(status)
      BY <2>5 DEF ProgramListInvalid, NodeSelectorInvalid
    <3>2. QED
      BY <2>1, <2>2, <3>1, <1>1 DEF LoadError
  <2>6. CASE AlreadyLoaded
    BY <2>1, <2>2, <2>6, <1>1 DEF AlreadyLoaded
  <2>7. CASE load
    <3>1. ASSUME NEW f PROVE WithIds(cur, f).app = cur.app
      BY <2>2 DEF WithIds, StateObj
    <3>2. QED
      BY <2>1, <2>7, <3>1 DEF load
  <2>8. CASE loadFails
    BY <2>1, <2>2, <2>8, <1>1 DEF loadFails, LoadError
  <2>9. ASSUME NEW p \in Progs, unload(p)
        PROVE  UNCHANGED <<st, stCache, pc, orig>> /\ cur'.app = cur.app
    <3>1. cur' = [cur EXCEPT !.progs[p] = UnloadedProg(cur.progs[p])]
      BY <2>2, <2>9 DEF unload, StateObj
    <3>2. QED
      BY <2>2, <2>9, <3>1, <1>2 DEF unload
  <2>10. QED
    BY <1>3, <2>1, <2>3, <2>4, <2>5, <2>6, <2>7, <2>8, <2>9 DEF LoadStep, AtState
<1>4. CASE LinkStep
  <2>1. pc \in AtState
    BY <1>4 DEF LinkStep, ProgramStateMissing, updateLinks, updateLinksFails, LinkInPlace,
                LinkAttach, LinkAttachFails, LinkPanic, LinkDetach, BpfmanDetach, LinkDetachFails, LinkDrop,
                LinksDone, AtLink, AtState
  <2>2. cur \in StateObj
    BY <2>1, VisitFacts
  <2>3. ASSUME NEW p \in Progs, ProgramStateMissing(p)
        PROVE  UNCHANGED <<st, stCache, pc, orig, cur>>
    BY <2>3 DEF ProgramStateMissing
  <2>4. ASSUME NEW p \in Progs, updateLinks(p)
        PROVE  UNCHANGED <<st, stCache, orig>> /\ pc' = "links" /\ cur'.app = cur.app
    BY <2>2, <2>4, <1>2 DEF updateLinks, StateObj
  <2>5. ASSUME NEW p \in Progs, updateLinksFails(p)
        PROVE  UNCHANGED <<st, stCache, pc, orig>> /\ cur'.app = cur.app
    BY <2>2, <2>5, <1>2 DEF updateLinksFails, StateObj
  <2>6. ASSUME NEW x \in Points, LinkInPlace(x) \/ LinkAttachFails(x) \/ LinkDetachFails(x)
                                 \/ LinkAttach(x) \/ LinkDetach(x) \/ LinkDrop(x)
        PROVE  UNCHANGED <<st, stCache, pc, orig>> /\ cur'.app = cur.app
    <3>1. PICK new : VisitLink(x, new)
      BY <2>6 DEF LinkInPlace, LinkAttach, LinkAttachFails, LinkDetach, BpfmanDetach, LinkDetachFails, LinkDrop
    <3>2. QED
      BY <2>2, <3>1 DEF VisitLink, StateObj
  <2>7. ASSUME NEW x \in Points, LinkPanic(x)
        PROVE  UNCHANGED <<st, stCache>> /\ pc' = "idle"
    BY <2>7 DEF LinkPanic, ReturnAndRequeue, ReturnLocals
  <2>8. CASE LinksDone
    <3>1. cp \in Progs
      BY <2>8 DEF LinksDone, DataInv, ControlOK
    <3>2. QED
      BY <2>1, <2>2, <2>8, <3>1, <1>2 DEF LinksDone
  <2>9. QED
    BY <1>4, <2>1, <2>3, <2>4, <2>5, <2>6, <2>7, <2>8 DEF LinkStep, AtState
<1>5. CASE EndStep
  <2>1. pc \in AtState
    BY <1>5 DEF EndStep, StatusChanged, StatusUnchanged, VisitOver, AtState
  <2>2. CASE StatusChanged
    BY <2>1, <2>2, VisitFacts, FinalStateType DEF StatusChanged
  <2>3. CASE StatusUnchanged
    BY <2>1, <2>3 DEF StatusUnchanged, AtState, appVars
  <2>4. QED
    BY <1>5, <2>2, <2>3 DEF EndStep
<1>6. QED
  BY <1>3, <1>4, <1>5

LEMMA LoopUnique ==
  ASSUME UniqueInv, LoopStep
  PROVE  UniqueInv'
<1>1. CASE ReconcileStart
  BY <1>1, QuietUnique DEF ReconcileStart, AtState
<1>2. CASE ReconcileDone
  BY <1>2, QuietUnique DEF ReconcileDone, Return, ReturnLocals, AtState
<1>3. ASSUME NEW a \in Apps, SkipDeletedApp(a) PROVE UniqueInv'
  BY <1>3, QuietUnique DEF SkipDeletedApp, AtState
<1>4. ASSUME NEW a \in Apps, DuplicateState(a) PROVE UniqueInv'
  BY <1>4, QuietUnique DEF DuplicateState, ReturnAndRequeue, ReturnLocals, AtState
<1>5. ASSUME NEW a \in Apps, NeedState(a) PROVE UniqueInv'
  BY <1>5 DEF NeedState, getBpfAppState, UniqueInv, AtMostOneState, AppAgree, CacheComplete,
              CreateOnlyFirst, CreatedIsMissing, SameApp, AtState
<1>6. ASSUME NEW a \in Apps, NEW s \in StateIds, BeginApp(a, s) PROVE UniqueInv'
  BY <1>6, QuietUnique DEF BeginApp
<1>7. QED
  BY <1>1, <1>2, <1>3, <1>4, <1>5, <1>6 DEF LoopStep

\* Changing object s without changing its application, or removing it.
LEMMA WriteUnique ==
  ASSUME DataInv, UniqueInv, NEW s \in StateIds, st[s] # None, NEW obj \in StateObj \cup {None},
         obj # None => obj.app = st[s].app,
         st' = [st EXCEPT ![s] = obj], stCache' = stCache
  PROVE  /\ AtMostOneState' /\ AppAgree'
         /\ (\A t \in StateIds : st[t] # None => stCache[t] # None) =>
              (\A t \in StateIds : st'[t] # None => stCache'[t] # None)
BY DEF DataInv, StateTypeOK, UniqueInv, AtMostOneState, AppAgree

LEMMA WriteStepUnique ==
  ASSUME "timeout" \notin Faults, DataInv, UniqueInv, WriteStep
  PROVE  UniqueInv'
<1>1. CASE createInitialBpfAppState
  <2>1. ca \in Apps /\ initBpfAppState(ca) \in StateObj
    BY <1>1, InitStateType DEF createInitialBpfAppState, DataInv, LocalTypeOK, ControlOK
  <2>2. initBpfAppState(ca).app = ca /\ initBpfAppState(ca).finalizer = TRUE
        /\ initBpfAppState(ca) # None
    BY <2>1, NoneAssumption DEF initBpfAppState
  <2>3. PICK n \in StateIds : /\ st[n] = None /\ stCache[n] = None
                              /\ st' = [st EXCEPT ![n] = initBpfAppState(ca)]
    BY <1>1 DEF createInitialBpfAppState
  <2>4. \A s \in StateIds : st[s] # None => stCache[s] # None /\ st[s].app # ca
    BY <1>1 DEF createInitialBpfAppState, UniqueInv, CacheComplete, CreateOnlyFirst, AppAgree,
                getBpfAppState
  <2>5. /\ st'[n] = initBpfAppState(ca)
        /\ \A s \in StateIds : s # n => st'[s] = st[s]
    BY <2>3 DEF DataInv, StateTypeOK
  <2>6. pc' = "waitSpec" /\ ca' = ca /\ stCache' = stCache /\ pc = "create"
    BY <1>1 DEF createInitialBpfAppState, appVars
  <2>7. AtMostOneState'
    BY <2>2, <2>4, <2>5 DEF UniqueInv, AtMostOneState
  <2>8. AppAgree'
    BY <2>3, <2>5, <2>6 DEF UniqueInv, AppAgree
  <2>9. CreatedIsMissing'
    <3>1. getBpfAppState(ca)' = {}
      BY <2>6 DEF UniqueInv, CreateOnlyFirst, getBpfAppState
    <3>2. WaitsFor(n)'
      BY <2>2, <2>4, <2>5, <2>6, <3>1 DEF WaitsFor
    <3>3. QED
      BY <3>2 DEF CreatedIsMissing
  <2>10. QED
    BY <2>6, <2>7, <2>8, <2>9 DEF UniqueInv, CacheComplete, CreateOnlyFirst, SameApp, AtState
<1>2. CASE createInitialBpfAppStateFails
  BY <1>2, QuietUnique DEF createInitialBpfAppStateFails, ReturnAndRequeue, ReturnLocals, AtState
<1>3. ASSUME NEW s \in StateIds, waitForBpfAppStateSpecUpdate(s) PROVE UniqueInv'
  <2>1. stCache[s] \in StateObj /\ stCache[s] # None
    BY <1>3 DEF waitForBpfAppStateSpecUpdate, getBpfAppState, DataInv, StateTypeOK
  <2>2. list[ca] \in AppObj
    BY <1>3 DEF waitForBpfAppStateSpecUpdate, DataInv, LocalTypeOK, ControlOK
  <2>3. cur'.app = orig'.app
    BY <1>3, <2>1, <2>2, InitStatusType DEF waitForBpfAppStateSpecUpdate
  <2>4. PICK n \in StateIds : WaitsFor(n)
    BY <1>3 DEF waitForBpfAppStateSpecUpdate, UniqueInv, CreatedIsMissing
  <2>5. n = s
    BY <1>3, <2>4 DEF waitForBpfAppStateSpecUpdate, WaitsFor
  <2>6. \A t \in StateIds : st[t] # None => stCache[t] # None
    BY <2>1, <2>4, <2>5 DEF WaitsFor
  <2>7. UNCHANGED <<st, stCache>> /\ pc' = "write"
    BY <1>3 DEF waitForBpfAppStateSpecUpdate
  <2>8. QED
    BY <2>3, <2>6, <2>7 DEF UniqueInv, AtMostOneState, AppAgree, CacheComplete, CreateOnlyFirst,
                            CreatedIsMissing, SameApp
<1>4. ASSUME NEW s \in StateIds, waitForBpfAppStateStatusUpdate(s) PROVE UniqueInv'
  BY <1>4, QuietUnique DEF waitForBpfAppStateStatusUpdate, Return, ReturnLocals, AtState
<1>5. CASE waitForBpfAppStateSpecUpdateTimesOut \/ waitForBpfAppStateStatusUpdateTimesOut
  BY <1>5 DEF waitForBpfAppStateSpecUpdateTimesOut, waitForBpfAppStateStatusUpdateTimesOut, Fault
<1>10. CASE initBpfAppStateStatusFails
  <2>1. UNCHANGED <<st, stCache>> /\ pc = "waitSpec" /\ pc' = "idle"
    BY <1>10 DEF initBpfAppStateStatusFails, ReturnAndRequeue, ReturnLocals
  <2>2. PICK n \in StateIds : WaitsFor(n)
    BY <2>1 DEF UniqueInv, CreatedIsMissing
  <2>3. PICK s \in StateIds : getBpfAppState(ca) = {s}
    BY <1>10 DEF initBpfAppStateStatusFails
  <2>4. n = s /\ stCache[s] # None
    BY <2>2, <2>3 DEF WaitsFor, getBpfAppState
  <2>5. \A t \in StateIds : st[t] # None => stCache[t] # None
    BY <2>2, <2>4 DEF WaitsFor
  <2>6. QED
    BY <2>1, <2>5 DEF UniqueInv, AtMostOneState, AppAgree, CacheComplete, CreateOnlyFirst,
                      CreatedIsMissing, SameApp, AtState
<1>6. CASE updateBpfAppStateStatus
  <2>1. cur \in StateObj /\ orig \in StateObj /\ cs \in StateIds /\ cur.app = orig.app
    BY <1>6, VisitFacts DEF updateBpfAppStateStatus, AtState, UniqueInv, SameApp
  <2>2. cur' \in StateObj /\ cur'.app = cur.app
    BY <1>6, <2>1 DEF updateBpfAppStateStatus, StateObj
  <2>3. st[cs] = orig /\ st[cs] # None /\ orig' = orig
    BY <1>6, <2>1, NoneAssumption DEF updateBpfAppStateStatus, Accepted
  <2>4. st' = [st EXCEPT ![cs] = cur'] /\ stCache' = stCache
        /\ pc = "write" /\ pc' = "waitStatus"
    BY <1>6 DEF updateBpfAppStateStatus
  <2>5. QED
    BY <2>1, <2>2, <2>3, <2>4, WriteUnique
       DEF UniqueInv, CacheComplete, CreateOnlyFirst, CreatedIsMissing, SameApp
<1>7. CASE updateBpfAppStateStatusFails
  BY <1>7, QuietUnique DEF updateBpfAppStateStatusFails, ReturnAndRequeue, ReturnLocals, AtState
<1>8. CASE removeFinalizer
  <2>1. orig \in StateObj /\ cs \in StateIds
    BY <1>8, VisitFacts DEF removeFinalizer, AtState
  <2>2. st[cs] = orig /\ st[cs] # None
    BY <1>8, <2>1, NoneAssumption DEF removeFinalizer
  <2>3. /\ [orig EXCEPT !.finalizer = FALSE] \in StateObj
        /\ [orig EXCEPT !.finalizer = FALSE].app = orig.app
    BY <2>1 DEF StateObj
  <2>4. PICK obj \in StateObj \cup {None} : /\ obj # None => obj.app = st[cs].app
                                            /\ st' = [st EXCEPT ![cs] = obj]
    BY <1>8, <2>2, <2>3 DEF removeFinalizer
  <2>5. stCache' = stCache /\ pc = "finalizer" /\ pc' = "idle"
    BY <1>8 DEF removeFinalizer, Return, ReturnLocals
  <2>6. QED
    BY <2>1, <2>2, <2>4, <2>5, WriteUnique
       DEF UniqueInv, CacheComplete, CreateOnlyFirst, CreatedIsMissing, SameApp, AtState
<1>9. CASE removeFinalizerFails
  BY <1>9, QuietUnique DEF removeFinalizerFails, Return, ReturnLocals, AtState
<1>11. QED
  BY <1>1, <1>2, <1>3, <1>4, <1>5, <1>6, <1>7, <1>8, <1>9, <1>10 DEF WriteStep

LEMMA ClusterUnique ==
  ASSUME DataInv, UniqueInv, ClusterStep
  PROVE  UniqueInv'
<1>1. ASSUME NEW s \in StateIds, SyncState(s) PROVE UniqueInv'
  <2>1. /\ stCache'[s] = st[s] /\ \A t \in StateIds : t # s => stCache'[t] = stCache[t]
        /\ UNCHANGED <<st, pc, ca, cur, orig>>
    BY <1>1 DEF SyncState, DataInv, StateTypeOK, agentVars, appVars
  <2>2. AtMostOneState' /\ AppAgree' /\ CacheComplete' /\ SameApp'
    BY <2>1 DEF UniqueInv, AtMostOneState, AppAgree, CacheComplete, SameApp
  <2>3. CreateOnlyFirst'
    BY <2>1 DEF UniqueInv, AppAgree, CacheComplete, CreateOnlyFirst, getBpfAppState
  <2>4. ASSUME NEW n \in StateIds, WaitsFor(n) PROVE WaitsFor(n)'
    BY <2>1, <2>4 DEF WaitsFor, getBpfAppState, UniqueInv, AtMostOneState
  <2>5. CreatedIsMissing'
    BY <2>1, <2>4 DEF UniqueInv, CreatedIsMissing
  <2>6. QED
    BY <2>2, <2>3, <2>5 DEF UniqueInv
<1>2. ASSUME NEW s \in StateIds, GarbageCollect(s) PROVE UniqueInv'
  <2>1. st[s] \in StateObj /\ st[s] # None
    BY <1>2 DEF GarbageCollect, DataInv, StateTypeOK
  <2>2. /\ [st[s] EXCEPT !.deleting = TRUE] \in StateObj
        /\ [st[s] EXCEPT !.deleting = TRUE].app = st[s].app
        /\ [st[s] EXCEPT !.deleting = TRUE].finalizer = st[s].finalizer
    BY <2>1 DEF StateObj
  <2>3. PICK obj \in StateObj \cup {None} :
          /\ obj # None => obj.app = st[s].app
          /\ st[s].finalizer => obj # None /\ obj.finalizer
          /\ st' = [st EXCEPT ![s] = obj]
    BY <1>2, <2>1, <2>2, NoneAssumption DEF GarbageCollect
  <2>4. UNCHANGED <<stCache, pc, ca, cur, orig>>
    BY <1>2 DEF GarbageCollect, agentVars, appVars
  <2>5. AtMostOneState' /\ AppAgree' /\ CacheComplete' /\ SameApp'
    BY <2>1, <2>3, <2>4, WriteUnique DEF UniqueInv, CacheComplete, SameApp
  <2>6. CreateOnlyFirst'
    BY <2>4 DEF UniqueInv, CreateOnlyFirst, getBpfAppState
  <2>7. ASSUME NEW n \in StateIds, WaitsFor(n) PROVE WaitsFor(n)'
    <3>1. /\ st'[s] = obj /\ \A t \in StateIds : t # s => st'[t] = st[t]
      BY <2>3 DEF DataInv, StateTypeOK
    <3>2. st'[n] # None /\ st'[n].app = ca' /\ st'[n].finalizer
      <4>1. CASE n = s
        BY <2>3, <2>4, <2>7, <3>1, <4>1 DEF WaitsFor
      <4>2. CASE n # s
        BY <2>4, <2>7, <3>1, <4>2 DEF WaitsFor
      <4>3. QED
        BY <4>1, <4>2
    <3>3. getBpfAppState(ca)' \subseteq {n}
      BY <2>4, <2>7 DEF WaitsFor, getBpfAppState
    <3>4. \A t \in StateIds : st'[t] # None => stCache'[t] # None \/ t = n
      BY <2>1, <2>4, <2>7, <3>1 DEF WaitsFor
    <3>5. QED
      BY <3>2, <3>3, <3>4 DEF WaitsFor
  <2>8. CreatedIsMissing'
    BY <2>4, <2>7 DEF UniqueInv, CreatedIsMissing
  <2>9. QED
    BY <2>5, <2>6, <2>8 DEF UniqueInv
<1>3. ASSUME NEW a \in Apps, OperatorRelease(a) PROVE UniqueInv'
  BY <1>3, AroundUnique DEF OperatorRelease
<1>4. QED
  BY <1>1, <1>2, <1>3 DEF ClusterStep

LEMMA EnvironmentUnique ==
  ASSUME UniqueInv, EnvironmentStep
  PROVE  UniqueInv'
<1>1. CASE Crash
  BY <1>1 DEF Crash, ReturnAndRequeue, ReturnLocals, UniqueInv, AtMostOneState, AppAgree,
              CacheComplete, CreateOnlyFirst, CreatedIsMissing, SameApp, AtState
<1>2. CASE ~Crash
  BY <1>2, AroundUnique
     DEF EnvironmentStep, Resync, UserCreate, Twice, Selectors, UserDelete, UserEdit, RelabelNode, PointChanges,
         ProgramLost
<1>3. QED
  BY <1>1, <1>2

LEMMA UniqueInductive ==
  ASSUME "timeout" \notin Faults, DataInv, UniqueInv, [Next]_vars
  PROVE  UniqueInv'
<1>1. CASE LoadStep \/ LinkStep \/ EndStep
  BY <1>1, VisitKeepsApp, QuietUnique DEF UniqueInv, SameApp, AtState
<1>2. CASE UNCHANGED vars
  BY <1>2, AroundUnique DEF vars, agentVars
<1>3. LoopStep \/ WriteStep \/ LoadStep \/ LinkStep \/ EndStep \/ ClusterStep
      \/ EnvironmentStep \/ UNCHANGED vars
  BY Zenon DEF Next, ReconcileStep, LoopStep, WriteStep, LoadStep, LinkStep, EndStep
<1>4. QED
  BY <1>1, <1>2, <1>3, LoopUnique, WriteStepUnique, ClusterUnique, EnvironmentUnique

\* If no wait for the informer cache ever gives up and no reply to a create is
\* lost, the API server never holds two state objects for one application on
\* this node, whatever else fails, crashes or is retried: getBpfAppState's
\* "This should never happen" is right under exactly this condition.
THEOREM OneStatePerApp ==
  ASSUME "timeout" \notin Faults
  PROVE  Spec => []AtMostOneState
<1>1. Init => DataInv /\ UniqueInv
  BY InitDataInv, InitUnique
<1>2. DataInv /\ UniqueInv /\ [Next]_vars => (DataInv /\ UniqueInv)'
  BY DataInvInductive, UniqueInductive
<1>3. DataInv /\ UniqueInv => AtMostOneState
  BY DEF UniqueInv
<1>4. QED
  BY <1>1, <1>2, <1>3, PTL DEF Spec

(***************************************************************************)
(* What the walk over the links of a program never takes down.             *)
(***************************************************************************)
\* Every attach point is there: pods and interfaces do not come and go.
AllAvailable == avail = Points

\* updateLinks cleared ShouldAttach only on points the application does not
\* ask for; processLinks has not changed the flag of a link it still has to
\* visit, and the application it works for is still the one it started with.
UnwantedOnly ==
  pc = "links" =>
    \A x \in ltodo : ~cur.progs[cp].links[x].should => <<cp, x>> \notin list[ca].want

DetachInv == DataInv /\ AllAvailable /\ UnwantedOnly

\* Only updateLinks starts the walk, and only a visit to a link continues it.
WalkStep ==
  \/ \E p \in Progs : updateLinks(p)
  \/ \E x \in Points : \E new \in LinkState \cup {None} : AtLink(x) /\ VisitLink(x, new)
  \/ UNCHANGED <<pc, list, ca, cur, cp, ltodo>>

LEMMA LinksStepKind ==
  ASSUME DataInv, [Next]_vars, pc' = "links"
  PROVE  WalkStep
<1>1. CASE LoopStep
  BY <1>1 DEF LoopStep, ReconcileStart, ReconcileDone, SkipDeletedApp, DuplicateState, NeedState, BeginApp,
              Return, ReturnAndRequeue, ReturnLocals
<1>2. CASE WriteStep
  BY <1>2 DEF WriteStep, createInitialBpfAppState, createInitialBpfAppStateFails, waitForBpfAppStateSpecUpdate,
              waitForBpfAppStateStatusUpdate, waitForBpfAppStateSpecUpdateTimesOut, initBpfAppStateStatusFails,
              waitForBpfAppStateStatusUpdateTimesOut, updateBpfAppStateStatus, updateBpfAppStateStatusFails,
              removeFinalizer, removeFinalizerFails, Return, ReturnAndRequeue, ReturnLocals
<1>3. CASE LoadStep \/ EndStep
  BY <1>3 DEF LoadStep, BeginUnload, UnloadDone, ProgramListInvalid, NodeSelectorInvalid, AlreadyLoaded, load, loadFails, unload,
              LoadError, EndStep, StatusChanged, StatusUnchanged
<1>4. ASSUME NEW x \in Points, LinkInPlace(x) \/ LinkAttachFails(x) \/ LinkDetachFails(x)
      PROVE  WalkStep
  <2>1. AtLink(x)
    BY <1>4 DEF LinkInPlace, LinkAttachFails, LinkDetachFails
  <2>2. PICK status \in LinkStatus : VisitLink(x, WithStatus(x, status))
    BY <1>4 DEF LinkInPlace, LinkAttachFails, LinkDetachFails, LinkStatus
  <2>3. WithStatus(x, status) \in LinkState
    BY <2>1, LinkEntryType
  <2>4. QED
    BY <2>1, <2>2, <2>3 DEF WalkStep
<1>5. ASSUME NEW x \in Points, LinkAttach(x)
      PROVE  WalkStep
  <2>1. AtLink(x)
    BY <1>5 DEF LinkAttach
  <2>2. PICK l \in freeLinks : VisitLink(x, [WithStatus(x, "Attached") EXCEPT !.id = l])
    BY <1>5 DEF LinkAttach
  <2>3. WithStatus(x, "Attached") \in LinkState
    BY <2>1, LinkEntryType DEF LinkStatus
  <2>4. [WithStatus(x, "Attached") EXCEPT !.id = l] \in LinkState
    BY <2>3 DEF LinkState, DataInv, DaemonTypeOK
  <2>5. QED
    BY <2>1, <2>2, <2>4 DEF WalkStep
<1>6. ASSUME NEW x \in Points, LinkDetach(x) \/ LinkDrop(x)
      PROVE  WalkStep
  BY <1>6 DEF WalkStep, LinkDetach, BpfmanDetach, LinkDrop
<1>7. ASSUME NEW x \in Points, LinkPanic(x)
      PROVE  WalkStep
  BY <1>7 DEF LinkPanic, ReturnAndRequeue, ReturnLocals
<1>8. CASE LinksDone \/ \E p \in Progs : ProgramStateMissing(p) \/ updateLinks(p) \/ updateLinksFails(p)
  BY <1>8 DEF WalkStep, LinksDone, ProgramStateMissing, updateLinksFails
<1>9. CASE LinkStep
  BY <1>4, <1>5, <1>6, <1>7, <1>8, <1>9 DEF LinkStep
<1>10. CASE ClusterStep
  BY <1>10 DEF WalkStep, ClusterStep, SyncState, GarbageCollect, OperatorRelease, agentVars, loopVars, appVars,
               progVars
<1>11. CASE EnvironmentStep
  BY <1>11 DEF WalkStep, EnvironmentStep, Crash, Resync, UserCreate, Twice, Selectors, UserDelete, UserEdit, RelabelNode,
               PointChanges, ProgramLost, ReturnAndRequeue, ReturnLocals, agentVars, loopVars, appVars, progVars
<1>12. CASE UNCHANGED vars
  BY <1>12 DEF WalkStep, vars, loopVars, appVars, progVars
<1>13. LoopStep \/ WriteStep \/ LoadStep \/ LinkStep \/ EndStep \/ ClusterStep \/ EnvironmentStep
      \/ UNCHANGED vars
  BY Zenon DEF Next, ReconcileStep, LoopStep, WriteStep, LoadStep, LinkStep, EndStep
<1>14. QED
  BY <1>1, <1>2, <1>3, <1>9, <1>10, <1>11, <1>12, <1>13

\* What the flag of an entry is once updateLinks has looked at the points got.
LEMMA FlagOfLink ==
  ASSUME NEW links \in [Points -> LinkState \cup {None}], NEW got \in SUBSET Points, NEW x \in Points,
         LinksWith(links, got)[x] # None, x \in got
  PROVE  LinksWith(links, got)[x].should
<1>1. CASE links[x] = None
  BY <1>1 DEF LinksWith, NewLink
<1>2. CASE links[x] # None
  <2>1. links[x] \in LinkState
    BY <1>2
  <2>2. LinksWith(links, got)[x] = [links[x] EXCEPT !.should = x \in got]
    BY <1>2 DEF LinksWith
  <2>3. [links[x] EXCEPT !.should = x \in got].should = (x \in got)
    BY <2>1 DEF LinkState
  <2>4. QED
    BY <2>2, <2>3
<1>3. QED
  BY <1>1, <1>2

LEMMA StartOfWalk ==
  ASSUME DataInv, AllAvailable, "netns" \notin Faults, NEW p \in Progs, updateLinks(p)
  PROVE  UnwantedOnly'
<1>1. cur \in StateObj /\ cur.progs[p] # None /\ cur.progs[p] \in ProgState
  BY VisitFacts DEF updateLinks, HasProgState, AtState, StateObj
<1> DEFINE got == getExpectedLinks(p)
           new == LinksWith(cur.progs[p].links, got)
<1>2. cur' = [cur EXCEPT !.progs[p].links = new]
  BY <1>1 DEF updateLinks, Fault, StateObj, ProgState
<1>3. /\ cp' = p /\ ca' = ca /\ list' = list
      /\ ltodo' = {x \in Points : cur'.progs[p].links[x] # None}
  BY DEF updateLinks, loopVars
<1>4. cur'.progs[p].links = new
  BY <1>1, <1>2 DEF StateObj, ProgState
<1>5. ASSUME NEW x \in Points, new[x] # None, <<p, x>> \in list[ca].want
      PROVE  new[x].should
  <2>1. x \in got /\ got \in SUBSET Points
    BY <1>5 DEF AllAvailable, getExpectedLinks
  <2>2. cur.progs[p].links \in [Points -> LinkState \cup {None}]
    BY <1>1 DEF ProgState
  <2>3. QED
    BY <1>5, <2>1, <2>2, FlagOfLink
<1> HIDE DEF new
<1>6. QED
  BY <1>3, <1>4, <1>5 DEF UnwantedOnly

LEMMA WalkGoesOn ==
  ASSUME DataInv, UnwantedOnly, NEW x \in Points, NEW new \in LinkState \cup {None},
         AtLink(x), VisitLink(x, new)
  PROVE  UnwantedOnly'
<1>1. cur \in StateObj /\ cp \in Progs /\ cur.progs[cp] # None /\ pc = "links"
  BY DEF DataInv, LocalTypeOK, ControlOK, AtState, AtLink
<1>2. cur'.progs[cp].links = [cur.progs[cp].links EXCEPT ![x] = new]
  BY <1>1, SetLinkType DEF VisitLink
<1>3. ltodo' = ltodo \ {x} /\ cp' = cp /\ ca' = ca /\ list' = list
  BY DEF VisitLink, loopVars
<1>4. \A y \in ltodo' : y \in Points /\ cur'.progs[cp].links[y] = cur.progs[cp].links[y]
  BY <1>1, <1>2, <1>3 DEF StateObj, ProgState, DataInv, LocalTypeOK
<1>5. QED
  BY <1>1, <1>3, <1>4 DEF UnwantedOnly

LEMMA AvailabilityStays ==
  ASSUME AllAvailable, [Next]_vars, "points" \notin Faults
  PROVE  AllAvailable'
<1>1. CASE LoopStep \/ WriteStep
  BY <1>1 DEF AllAvailable, LoopStep, ReconcileStart, ReconcileDone, SkipDeletedApp, DuplicateState, NeedState,
              BeginApp, WriteStep, createInitialBpfAppState, createInitialBpfAppStateFails,
              waitForBpfAppStateSpecUpdate, waitForBpfAppStateStatusUpdate,
              waitForBpfAppStateSpecUpdateTimesOut, initBpfAppStateStatusFails, waitForBpfAppStateStatusUpdateTimesOut,
              updateBpfAppStateStatus, updateBpfAppStateStatusFails, removeFinalizer, removeFinalizerFails,
              objVars
<1>2. CASE LoadStep \/ EndStep
  BY <1>2 DEF AllAvailable, LoadStep, BeginUnload, UnloadDone, ProgramListInvalid, NodeSelectorInvalid, AlreadyLoaded, load,
              loadFails, unload, LoadError, EndStep, StatusChanged, StatusUnchanged, objVars
<1>3. CASE LinkStep
  BY <1>3 DEF AllAvailable, LinkStep, ProgramStateMissing, updateLinks, updateLinksFails, LinkInPlace, LinkAttach,
              LinkAttachFails, LinkPanic, LinkDetach, BpfmanDetach, LinkDetachFails, LinkDrop, LinksDone, VisitLink, objVars
<1>4. CASE ClusterStep
  BY <1>4 DEF AllAvailable, ClusterStep, SyncState, GarbageCollect, OperatorRelease, objVars
<1>5. CASE EnvironmentStep
  BY <1>5 DEF AllAvailable, EnvironmentStep, Crash, Resync, UserCreate, Twice, Selectors, UserDelete, UserEdit, RelabelNode,
              PointChanges, ProgramLost, objVars
<1>6. CASE UNCHANGED vars
  BY <1>6 DEF AllAvailable, vars, objVars
<1>7. LoopStep \/ WriteStep \/ LoadStep \/ LinkStep \/ EndStep \/ ClusterStep \/ EnvironmentStep
      \/ UNCHANGED vars
  BY Zenon DEF Next, ReconcileStep, LoopStep, WriteStep, LoadStep, LinkStep, EndStep
<1>8. QED
  BY <1>1, <1>2, <1>3, <1>4, <1>5, <1>6, <1>7

LEMMA DetachInductive ==
  ASSUME "points" \notin Faults, "netns" \notin Faults, DetachInv, [Next]_vars
  PROVE  DetachInv'
<1>1. DataInv' /\ AllAvailable'
  BY DataInvInductive, AvailabilityStays DEF DetachInv
<1>2. UnwantedOnly'
  <2>1. CASE pc' # "links"
    BY <2>1 DEF UnwantedOnly
  <2>2. CASE pc' = "links"
    <3>1. WalkStep
      BY <2>2, LinksStepKind DEF DetachInv
    <3>2. CASE UNCHANGED <<pc, list, ca, cur, cp, ltodo>>
      BY <3>2 DEF DetachInv, UnwantedOnly
    <3>3. QED
      BY <3>1, <3>2, StartOfWalk, WalkGoesOn DEF WalkStep, DetachInv
  <2>3. QED
    BY <2>1, <2>2
<1>3. QED
  BY <1>1, <1>2 DEF DetachInv

(***************************************************************************)
(* Who takes a link down.                                                  *)
(***************************************************************************)
LEMMA UnloadTakesOwnLinks ==
  ASSUME DaemonTypeOK, NEW i \in ProgIds, BpfmanUnload(i),
         NEW l \in LinkIds, linkProg[l] # None, linkProg'[l] = None
  PROVE  linkProg[l] \notin loaded'
BY DEF DaemonTypeOK, BpfmanUnload

LEMMA AttachTakesNothing ==
  ASSUME DaemonTypeOK, NEW m \in LinkIds, NEW i \in ProgIds, BpfmanAttach(m, i),
         NEW l \in LinkIds, linkProg[l] # None
  PROVE  linkProg'[l] # None
BY BpfAgentAssumption DEF DaemonTypeOK, BpfmanAttach

\* A link goes with its program, or it is the one a detach works on, whether
\* bpfman's answer arrives or not.
LEMMA WhoDetaches ==
  ASSUME DataInv, [Next]_vars, NEW l \in LinkIds, linkProg[l] # None, linkProg'[l] = None,
         linkProg[l] \in loaded'
  PROVE  \E x \in Points : (LinkDetach(x) \/ LinkDetachFails(x)) /\ cur.progs[cp].links[x].id = l
<1>1. linkProg' # linkProg
  OBVIOUS
<1>2. CASE LoopStep \/ WriteStep
  BY <1>1, <1>2
     DEF LoopStep, ReconcileStart, ReconcileDone, SkipDeletedApp, DuplicateState, NeedState,
         BeginApp, WriteStep, createInitialBpfAppState, createInitialBpfAppStateFails,
         waitForBpfAppStateSpecUpdate, waitForBpfAppStateStatusUpdate,
         waitForBpfAppStateSpecUpdateTimesOut, initBpfAppStateStatusFails, waitForBpfAppStateStatusUpdateTimesOut,
         updateBpfAppStateStatus, updateBpfAppStateStatusFails, removeFinalizer, removeFinalizerFails,
         daemonVars
<1>3. ASSUME NEW p \in Progs, unload(p)
      PROVE  FALSE
  <2>1. cur.progs[p].id \in loaded /\ BpfmanUnload(cur.progs[p].id)
    BY <1>1, <1>3 DEF unload
  <2>2. QED
    BY <2>1, UnloadTakesOwnLinks DEF DataInv, DaemonTypeOK
<1>4. CASE LoadStep \/ EndStep
  BY <1>1, <1>3, <1>4
     DEF LoadStep, BeginUnload, UnloadDone, ProgramListInvalid, NodeSelectorInvalid, AlreadyLoaded, load,
         loadFails, EndStep, StatusChanged, StatusUnchanged, daemonVars
<1>5. ASSUME NEW x \in Points, LinkAttach(x) \/ LinkAttachFails(x)
      PROVE  FALSE
  <2>1. PICK m \in freeLinks : cur.progs[cp].id \in loaded /\ BpfmanAttach(m, cur.progs[cp].id)
    BY <1>1, <1>5 DEF LinkAttach, LinkAttachFails
  <2>2. m \in LinkIds /\ cur.progs[cp].id \in ProgIds /\ DaemonTypeOK
    BY <2>1 DEF DataInv, DaemonTypeOK
  <2>3. QED
    BY <2>1, <2>2, AttachTakesNothing
<1>6. ASSUME NEW x \in Points, LinkDetach(x) \/ LinkDetachFails(x)
      PROVE  cur.progs[cp].links[x].id = l
  BY <1>1, <1>6 DEF LinkDetach, LinkDetachFails, BpfmanDetach, DataInv, DaemonTypeOK
<1>7. CASE LinkStep
  BY <1>1, <1>5, <1>6, <1>7
     DEF LinkStep, ProgramStateMissing, updateLinks, updateLinksFails, LinkInPlace, LinkPanic,
         LinkDrop, LinksDone, daemonVars
<1>8. CASE ClusterStep
  BY <1>1, <1>8 DEF ClusterStep, SyncState, GarbageCollect, OperatorRelease, daemonVars
<1>9. ASSUME NEW i \in ProgIds, ProgramLost(i)
      PROVE  FALSE
  BY <1>9, UnloadTakesOwnLinks DEF ProgramLost, DataInv
<1>10. CASE EnvironmentStep
  BY <1>1, <1>9, <1>10
     DEF EnvironmentStep, Crash, Resync, UserCreate, Twice, Selectors, UserDelete, UserEdit, RelabelNode, PointChanges,
         daemonVars
<1>11. CASE UNCHANGED vars
  BY <1>1, <1>11 DEF vars, daemonVars
<1>12. LoopStep \/ WriteStep \/ LoadStep \/ LinkStep \/ EndStep \/ ClusterStep \/ EnvironmentStep
      \/ UNCHANGED vars
  BY Zenon DEF Next, ReconcileStep, LoopStep, WriteStep, LoadStep, LinkStep, EndStep
<1>13. QED
  BY <1>2, <1>4, <1>7, <1>8, <1>10, <1>11, <1>12

\* As long as no attach point vanishes and findLink can stat every network
\* namespace, and whatever else fails, crashes or is edited meanwhile, the agent
\* takes down a link of a program that stays loaded only at a point the
\* application, as this reconcile has read it, does not ask for (updateLinks,
\* reconcileBpfLink).
THEOREM WantedLinksStay ==
  ASSUME "points" \notin Faults, "netns" \notin Faults
  PROVE  Spec => OnlyUnwantedDetached
<1>1. Init => DetachInv
  BY InitDataInv DEF Init, DetachInv, AllAvailable, UnwantedOnly
<1>2. DetachInv /\ [Next]_vars => DetachInv'
  BY DetachInductive
<1>3. DetachInv /\ [Next]_vars =>
        [\A l \in LinkIds :
           linkProg[l] # None /\ linkProg'[l] = None /\ linkProg[l] \in loaded' =>
             \E x \in Points : /\ cur.progs[cp].links[x] # None /\ cur.progs[cp].links[x].id = l
                               /\ <<cp, x>> \notin list[ca].want]_vars
  <2> SUFFICES ASSUME DetachInv, [Next]_vars, NEW l \in LinkIds,
                      linkProg[l] # None, linkProg'[l] = None, linkProg[l] \in loaded'
               PROVE  \E x \in Points : /\ cur.progs[cp].links[x] # None /\ cur.progs[cp].links[x].id = l
                                        /\ <<cp, x>> \notin list[ca].want
    OBVIOUS
  <2>1. PICK x \in Points : (LinkDetach(x) \/ LinkDetachFails(x)) /\ cur.progs[cp].links[x].id = l
    BY WhoDetaches DEF DetachInv
  <2>2. AtLink(x) /\ ~cur.progs[cp].links[x].should
    BY <2>1 DEF LinkDetach, LinkDetachFails, shouldAttach
  <2>3. cur.progs[cp].links[x] # None
    BY <2>2 DEF AtLink, DetachInv, DataInv, ControlOK
  <2>4. <<cp, x>> \notin list[ca].want
    BY <2>2 DEF AtLink, DetachInv, UnwantedOnly
  <2>5. QED
    BY <2>1, <2>3, <2>4
<1>4. QED
  BY <1>1, <1>2, <1>3, PTL DEF Spec, OnlyUnwantedDetached

(***************************************************************************)
(* BpfAgent implements AgentContract, whatever fails, crashes or is        *)
(* retried, as long as no name of an application is taken again while      *)
(* something of its old bearer is left.                                    *)
(***************************************************************************)
\* The object records the id of a program.
Busy(o) == \E p \in Recorded(o) : o.progs[p].id # None

\* The application does not exist or is about to go, in the API server and in
\* the snapshot of this reconcile.
Leaving(a) ==
  /\ app[a] = None \/ app[a].deleting
  /\ list[a] = None \/ list[a].deleting

\* A copy of a state object: programs are recorded under the finalizer, the
\* finalizer is missing only when the application is leaving, and no accepted
\* status has a condition without a type.
CopyOK(o) ==
  /\ Busy(o) => o.finalizer
  /\ ~o.finalizer => Leaving(o.app)
  /\ o.cond # ""

CopiesOK ==
  /\ \A s \in StateIds : st[s] # None => CopyOK(st[s])
  /\ \A s \in StateIds : stCache[s] # None => CopyOK(stCache[s])
  /\ pc \in AtState => CopyOK(orig)

\* A deletion the reconcile has seen is not taken back.
DeletionStays ==
  \A a \in Apps : list[a] # None /\ list[a].deleting => app[a] = None \/ app[a].deleting

\* The copy at work differs from the original in its status only.
SameMeta ==
  pc \in AtState => /\ orig.app = ca /\ cur.app = ca
                    /\ cur.finalizer = orig.finalizer /\ cur.deleting = orig.deleting

\* Ids come into the copy only under the finalizer, and unload() takes them out
\* before a deleted application's status is decided.
WorkOK ==
  /\ pc \in AtState => (Busy(cur) => cur.finalizer)
  /\ pc = "unload" => \A p \in Recorded(cur) \ ptodo : cur.progs[p].id = None
  /\ pc \in {"programs", "links"} /\ list[ca].deleting => ~Busy(cur)

\* The finalizer is given back only for what this promises.
ReleaseOK ==
  pc = "finalizer" => /\ list[ca].deleting /\ orig.finalizer /\ ~Busy(orig)
                      /\ orig.cond \in {"Success", "Unloaded"}

\* Pending is written once: over the empty status the cache first shows.
FirstStatusOK ==
  /\ pc = "write" => /\ cur.cond # "NoCond"
                     /\ cur.cond = "Pending" => orig.cond = "NoCond" /\ ~Busy(cur)
  /\ pc \in {"create", "waitSpec"} =>
       \A s \in StateIds : /\ st[s] # None /\ st[s].app = ca => st[s].cond = "NoCond"
                           /\ stCache[s] # None /\ stCache[s].app = ca => stCache[s].cond = "NoCond"

\* An object the cache does not know has never been written to.
UnseenIsNew ==
  /\ \A s \in StateIds : st[s] # None /\ stCache[s] = None => st[s].cond = "NoCond"
  /\ pc \in AtState => st[cs] = None \/ stCache[cs] # None

ContractInv ==
  /\ DataInv /\ AppAgree /\ CopiesOK /\ DeletionStays /\ SameMeta /\ WorkOK /\ ReleaseOK
  /\ FirstStatusOK /\ UnseenIsNew

(***************************************************************************)
(* What the steps of a visit leave of the object at work.                  *)
(***************************************************************************)
\* The object keeps its metadata, and its programs keep or lose their ids.
Kept(new, old) ==
  /\ new.app = old.app /\ new.finalizer = old.finalizer /\ new.deleting = old.deleting
  /\ \A p \in Progs : new.progs[p] # None =>
       old.progs[p] # None /\ new.progs[p].id \in {None, old.progs[p].id}

LEMMA KeptBusy ==
  ASSUME NEW new, NEW old, Kept(new, old), Busy(new)
  PROVE  Busy(old)
BY DEF Kept, Busy, Recorded

LEMMA SetStatusKept ==
  ASSUME NEW obj \in StateObj, NEW status, NEW cond, NEW count
  PROVE  /\ Kept(obj, obj)
         /\ Kept([obj EXCEPT !.load = status], obj)
         /\ Kept([obj EXCEPT !.cond = cond], obj)
         /\ Kept([obj EXCEPT !.count = count], obj)
BY DEF Kept, StateObj

LEMMA SetProgKept ==
  ASSUME NEW obj \in StateObj, NEW p \in Progs, obj.progs[p] # None,
         NEW ps \in ProgState, ps.id \in {None, obj.progs[p].id}
  PROVE  Kept([obj EXCEPT !.progs[p] = ps], obj)
BY DEF Kept, StateObj

LEMMA SetLinksKept ==
  ASSUME NEW obj \in StateObj, NEW p \in Progs, obj.progs[p] # None,
         NEW links \in [Points -> LinkState \cup {None}], NEW status \in ProgramLinkStatus
  PROVE  /\ Kept([obj EXCEPT !.progs[p].links = links], obj)
         /\ Kept([obj EXCEPT !.progs[p].attach = status], obj)
         /\ Kept([obj EXCEPT !.progs[p].links = links, !.progs[p].attach = status], obj)
<1>1. obj.progs[p] \in ProgState
  BY DEF StateObj
<1> DEFINE ps1 == [obj.progs[p] EXCEPT !.links = links]
           ps2 == [obj.progs[p] EXCEPT !.attach = status]
           ps3 == [obj.progs[p] EXCEPT !.links = links, !.attach = status]
<1>2. ps1 \in ProgState /\ ps2 \in ProgState /\ ps3 \in ProgState
  BY <1>1 DEF ProgState
<1>3. ps1.id = obj.progs[p].id /\ ps2.id = obj.progs[p].id /\ ps3.id = obj.progs[p].id
  BY <1>1 DEF ProgState
<1>4. /\ [obj EXCEPT !.progs[p].links = links] = [obj EXCEPT !.progs[p] = ps1]
      /\ [obj EXCEPT !.progs[p].attach = status] = [obj EXCEPT !.progs[p] = ps2]
      /\ [obj EXCEPT !.progs[p].links = links, !.progs[p].attach = status] = [obj EXCEPT !.progs[p] = ps3]
  BY <1>1 DEF StateObj, ProgState
<1> HIDE DEF ps1, ps2, ps3
<1>5. QED
  BY <1>2, <1>3, <1>4, SetProgKept

LEMMA SetLinkKept ==
  ASSUME NEW obj \in StateObj, NEW p \in Progs, obj.progs[p] # None,
         NEW x \in Points, NEW new \in LinkState \cup {None}
  PROVE  Kept([obj EXCEPT !.progs[p].links[x] = new], obj)
<1>1. obj.progs[p] \in ProgState
  BY DEF StateObj
<1> DEFINE ps == [obj.progs[p] EXCEPT !.links[x] = new]
<1>2. ps \in ProgState /\ ps.id = obj.progs[p].id
  BY <1>1 DEF ProgState
<1>3. [obj EXCEPT !.progs[p].links[x] = new] = [obj EXCEPT !.progs[p] = ps]
  BY <1>1 DEF StateObj, ProgState
<1> HIDE DEF ps
<1>4. QED
  BY <1>2, <1>3, SetProgKept

\* A step of a visit goes on with the same object, whose programs get ids only
\* from load(), or ends the visit.
LEMMA VisitEffect ==
  ASSUME DataInv, LoadStep \/ LinkStep \/ EndStep
  PROVE  /\ pc \in AtState /\ UNCHANGED <<objVars, st, stCache>>
         /\ \/ /\ pc' \in AtState /\ UNCHANGED <<loopVars, ca, cs, orig>>
               /\ \/ Kept(cur', cur)
                  \/ load /\ \E f : cur' = WithIds(cur, f)
            \/ pc' = "idle" /\ list' = NoApps
            \/ pc' = "next" /\ list' = list
<1>1. pc \in AtState /\ UNCHANGED <<objVars, st, stCache>>
  BY DEF LoadStep, BeginUnload, UnloadDone, ProgramListInvalid, NodeSelectorInvalid, AlreadyLoaded, load,
         loadFails, unload, MustLoad, LoadError, LinkStep, ProgramStateMissing, updateLinks, updateLinksFails,
         LinkInPlace, LinkAttach, LinkAttachFails, LinkPanic, LinkDetach, BpfmanDetach, LinkDetachFails, LinkDrop,
         LinksDone, AtLink, VisitLink, EndStep, StatusChanged, StatusUnchanged, VisitOver, AtState
<1>2. cur \in StateObj
  BY <1>1, VisitFacts
<1> DEFINE GoesOn == pc' \in AtState /\ UNCHANGED <<loopVars, ca, cs, orig>> /\ Kept(cur', cur)
<1>3. CASE LoadStep
  <2>1. CASE BeginUnload
    <3>1. GoesOn
      BY <1>2, <2>1, SetStatusKept DEF BeginUnload, appVars, AtState
    <3>2. QED
      BY <1>1, <3>1
  <2>2. CASE UnloadDone \/ AlreadyLoaded
    <3>1. GoesOn
      BY <1>2, <2>2, SetStatusKept DEF UnloadDone, AlreadyLoaded, AtState
    <3>2. QED
      BY <1>1, <3>1
  <2>3. CASE NodeSelectorInvalid \/ ProgramListInvalid \/ loadFails
    <3>1. PICK status : LoadError(status)
      BY <2>3 DEF ProgramListInvalid, NodeSelectorInvalid, loadFails
    <3>2. Kept([cur EXCEPT !.load = status, !.cond = "Error"], cur)
      BY <1>2 DEF Kept, StateObj
    <3>3. GoesOn
      BY <3>1, <3>2 DEF LoadError, AtState
    <3>4. QED
      BY <1>1, <3>3
  <2>4. CASE load
    <3>1. pc' \in AtState /\ UNCHANGED <<loopVars, ca, cs, orig>> /\ \E f : cur' = WithIds(cur, f)
      BY <2>4 DEF load, AtState
    <3>2. QED
      BY <1>1, <2>4, <3>1
  <2>5. ASSUME NEW p \in Progs, unload(p) PROVE GoesOn
    <3>1. cur.progs[p] \in ProgState /\ cur.progs[p] # None
      BY <1>2, <2>5 DEF unload, DataInv, ControlOK, StateObj
    <3>2. cur' = [cur EXCEPT !.progs[p] = UnloadedProg(cur.progs[p])]
      BY <1>2, <2>5 DEF unload, StateObj
    <3>3. UnloadedProg(cur.progs[p]) \in ProgState /\ UnloadedProg(cur.progs[p]).id = None
      BY <3>1, UnloadedProgType DEF UnloadedProg, ProgState
    <3>4. Kept(cur', cur)
      BY <1>2, <3>1, <3>2, <3>3, SetProgKept
    <3>5. QED
      BY <1>1, <2>5, <3>4 DEF unload
  <2>6. QED
    BY <1>1, <1>3, <2>1, <2>2, <2>3, <2>4, <2>5 DEF LoadStep
<1>4. CASE LinkStep
  <2>1. ASSUME NEW p \in Progs, ProgramStateMissing(p) PROVE GoesOn
    BY <1>1, <1>2, <2>1, SetStatusKept DEF ProgramStateMissing
  <2>2. ASSUME NEW p \in Progs, updateLinks(p) \/ updateLinksFails(p) PROVE GoesOn
    <3>1. cur.progs[p] \in ProgState /\ cur.progs[p] # None
      BY <1>2, <2>2 DEF updateLinks, updateLinksFails, HasProgState, StateObj
    <3>2. PICK got \in SUBSET getExpectedLinks(p) :
            \/ cur' = [cur EXCEPT !.progs[p].links = LinksWith(cur.progs[p].links, got)]
            \/ cur' = [cur EXCEPT !.progs[p].links = LinksWith(cur.progs[p].links, got),
                                  !.progs[p].attach = "UpdateAttachInfoError"]
      BY <1>2, <2>2, <3>1 DEF updateLinks, updateLinksFails, StateObj, ProgState
    <3>3. LinksWith(cur.progs[p].links, got) \in [Points -> LinkState \cup {None}]
      <4>1. cur.progs[p].links \in [Points -> LinkState \cup {None}] /\ got \in SUBSET Points
        BY <3>1 DEF ProgState, getExpectedLinks, DataInv, ObjTypeOK
      <4>2. QED
        BY <4>1, LinksWithType
    <3>4. Kept(cur', cur)
      <4> DEFINE links == LinksWith(cur.progs[p].links, got)
      <4> HIDE DEF links
      <4>1. /\ Kept([cur EXCEPT !.progs[p].links = links], cur)
            /\ Kept([cur EXCEPT !.progs[p].links = links, !.progs[p].attach = "UpdateAttachInfoError"], cur)
        BY <1>2, <3>1, <3>3, SetLinksKept DEF ProgramLinkStatus, links
      <4>2. QED
        BY <3>2, <4>1 DEF links
    <3>5. QED
      BY <1>1, <2>2, <3>4 DEF updateLinks, updateLinksFails, AtState
  <2>3. ASSUME NEW x \in Points, LinkInPlace(x) \/ LinkAttachFails(x) \/ LinkDetachFails(x)
                                 \/ LinkAttach(x) \/ LinkDetach(x) \/ LinkDrop(x)
        PROVE  GoesOn
    <3>1. AtLink(x)
      BY <2>3 DEF LinkInPlace, LinkAttach, LinkAttachFails, LinkDetach, BpfmanDetach, LinkDetachFails, LinkDrop
    <3>2. cp \in Progs /\ cur.progs[cp] # None
      BY <3>1 DEF AtLink, DataInv, ControlOK
    <3>3. PICK new \in LinkState \cup {None} : VisitLink(x, new)
      <4>1. \A l \in LinkIds, ls \in LinkState : [ls EXCEPT !.id = l] \in LinkState
        BY DEF LinkState
      <4>2. \A status \in LinkStatus : WithStatus(x, status) \in LinkState
        BY <3>1, LinkEntryType
      <4>3. CASE LinkAttach(x)
        BY <4>1, <4>2, <4>3 DEF LinkAttach, LinkStatus, DataInv, DaemonTypeOK
      <4>4. QED
        BY <2>3, <4>2, <4>3
           DEF LinkInPlace, LinkAttachFails, LinkDetach, BpfmanDetach, LinkDetachFails, LinkDrop, LinkStatus
    <3>4. Kept(cur', cur)
      BY <1>2, <3>2, <3>3, SetLinkKept DEF VisitLink
    <3>5. QED
      BY <1>1, <3>3, <3>4 DEF VisitLink
  <2>4. ASSUME NEW x \in Points, LinkPanic(x) PROVE pc' = "idle" /\ list' = NoApps
    BY <2>4 DEF LinkPanic, ReturnAndRequeue, ReturnLocals
  <2>5. CASE LinksDone
    <3>1. cp \in Progs /\ cur.progs[cp] # None
      BY <2>5 DEF LinksDone, DataInv, ControlOK
    <3>2. cur.progs[cp].links \in [Points -> LinkState \cup {None}]
      BY <1>2, <3>1 DEF StateObj, ProgState
    <3>3. Kept(cur', cur)
      BY <1>2, <2>5, <3>1, <3>2, SetLinksKept DEF LinksDone, updateProgramAttachStatus, ProgramLinkStatus
    <3>4. GoesOn
      BY <2>5, <3>3 DEF LinksDone, AtState
    <3>5. QED
      BY <1>1, <3>4
  <2>6. QED
    BY <1>1, <1>4, <2>1, <2>2, <2>3, <2>4, <2>5 DEF LinkStep
<1>5. CASE EndStep
  <2>1. CASE StatusChanged
    <3>1. GoesOn
      BY <1>2, <2>1, SetStatusKept DEF StatusChanged, FinalState, AtState
    <3>2. QED
      BY <1>1, <3>1
  <2>2. CASE StatusUnchanged
    <3>1. \/ GoesOn
          \/ pc' = "next" /\ list' = list
      BY <1>2, <2>2, SetStatusKept DEF StatusUnchanged, AtState, appVars, loopVars
    <3>2. QED
      BY <1>1, <3>1
  <2>3. QED
    BY <1>5, <2>1, <2>2 DEF EndStep
<1>6. QED
  BY <1>3, <1>4, <1>5

\* Which step of a visit leads where.
LEMMA VisitControl ==
  ASSUME LoadStep \/ LinkStep \/ EndStep
  PROVE  /\ pc' \notin {"create", "waitSpec", "waitStatus", "load"}
         /\ pc' = "unload" => BeginUnload \/ \E p \in Progs : unload(p)
         /\ pc' \in {"programs", "links"} => UnloadDone \/ AlreadyLoaded \/ load \/ pc \in {"programs", "links"}
         /\ pc' = "write" => NodeSelectorInvalid \/ ProgramListInvalid \/ loadFails \/ StatusChanged
         /\ pc' = "finalizer" => StatusUnchanged
BY DEF LoadStep, BeginUnload, UnloadDone, ProgramListInvalid, NodeSelectorInvalid, AlreadyLoaded, load,
       loadFails, unload, MustLoad, LoadError, LinkStep, ProgramStateMissing, updateLinks, updateLinksFails,
       LinkInPlace, LinkAttach, LinkAttachFails, LinkPanic, LinkDetach, BpfmanDetach, LinkDetachFails, LinkDrop,
       LinksDone, AtLink, VisitLink, EndStep, StatusChanged, StatusUnchanged, VisitOver,
       ReturnAndRequeue, ReturnLocals

(***************************************************************************)
(* The invariant is inductive.                                             *)
(***************************************************************************)
LEMMA InitContract == Init => ContractInv
BY InitDataInv
   DEF Init, ContractInv, AppAgree, CopiesOK, DeletionStays, SameMeta, WorkOK, ReleaseOK, FirstStatusOK,
       UnseenIsNew, AtState, NoApps

\* Where neither the objects nor the applications change, the copies stay good.
LEMMA QuietCopies ==
  ASSUME ContractInv, UNCHANGED <<st, stCache, app>>, list' = list \/ list' = NoApps,
         pc' \in AtState => pc \in AtState /\ orig' = orig /\ cs' = cs
  PROVE  AppAgree' /\ CopiesOK' /\ DeletionStays' /\ UnseenIsNew'
<1>1. ASSUME NEW a \in Apps, Leaving(a) PROVE Leaving(a)'
  BY <1>1 DEF Leaving, NoApps
<1>2. ASSUME NEW o \in StateObj, CopyOK(o) PROVE CopyOK(o)'
  BY <1>1, <1>2 DEF CopyOK, StateObj
<1>3. AppAgree' /\ UnseenIsNew'
  BY DEF ContractInv, AppAgree, UnseenIsNew
<1>4. DeletionStays'
  BY DEF ContractInv, DeletionStays, NoApps
<1>5. CopiesOK'
  <2>1. ASSUME NEW s \in StateIds, st'[s] # None PROVE CopyOK(st[s])'
    BY <1>2, <2>1 DEF ContractInv, CopiesOK, DataInv, StateTypeOK
  <2>2. ASSUME NEW s \in StateIds, stCache'[s] # None PROVE CopyOK(stCache[s])'
    BY <1>2, <2>2 DEF ContractInv, CopiesOK, DataInv, StateTypeOK
  <2>3. ASSUME pc' \in AtState PROVE CopyOK(orig)'
    BY <1>2, <2>3, VisitFacts DEF ContractInv, CopiesOK
  <2>4. QED
    BY <2>1, <2>2, <2>3 DEF CopiesOK
<1>6. QED
  BY <1>3, <1>4, <1>5

LEMMA VisitContract ==
  ASSUME ContractInv, DataInv', LoadStep \/ LinkStep \/ EndStep
  PROVE  ContractInv'
<1>1. DataInv
  BY DEF ContractInv
<1>2. /\ pc \in AtState /\ UNCHANGED <<objVars, st, stCache>>
      /\ list' = list \/ list' = NoApps
      /\ pc' \in AtState => UNCHANGED <<list, ca, cs, orig>>
  BY <1>1, VisitEffect DEF loopVars, AtState
<1>3. AppAgree' /\ CopiesOK' /\ DeletionStays' /\ UnseenIsNew'
  BY <1>2, QuietCopies DEF objVars
<1>4. /\ cur \in StateObj /\ orig \in StateObj /\ ca \in Apps /\ list[ca] \in AppObj
      /\ orig.app = ca /\ cur.app = ca
      /\ cur.finalizer = orig.finalizer /\ cur.deleting = orig.deleting
  BY <1>1, <1>2, VisitFacts DEF ContractInv, SameMeta
<1>5. ASSUME pc' \in AtState PROVE Kept(cur', cur) \/ (load /\ \E f : cur' = WithIds(cur, f))
  BY <1>1, <1>5, VisitEffect DEF AtState
<1>6. ASSUME NEW f
      PROVE  /\ WithIds(cur, f).app = cur.app /\ WithIds(cur, f).finalizer = cur.finalizer
             /\ WithIds(cur, f).deleting = cur.deleting
  BY <1>4 DEF WithIds, StateObj
<1>7. SameMeta'
  BY <1>2, <1>4, <1>5, <1>6 DEF SameMeta, Kept
<1>8. ASSUME load PROVE cur.finalizer /\ ~list[ca].deleting
  <2>1. ~list[ca].deleting /\ list[ca] # None
    BY <1>8, <1>4, NoneAssumption DEF load, MustLoad, isBeingDeleted
  <2>2. ~Leaving(orig.app)
    BY <1>4, <2>1 DEF Leaving
  <2>3. QED
    BY <1>2, <1>4, <2>1, <2>2 DEF ContractInv, CopiesOK, CopyOK
<1>9. WorkOK'
  <2>1. ASSUME pc' \in AtState, Busy(cur') PROVE cur'.finalizer
    <3>1. CASE Kept(cur', cur)
      BY <1>2, <2>1, <3>1, KeptBusy DEF ContractInv, WorkOK, Kept
    <3>2. QED
      BY <1>5, <1>6, <1>8, <2>1, <3>1
  <2>2. ASSUME pc' = "unload" PROVE \A p \in Recorded(cur') \ ptodo' : cur'.progs[p].id = None
    <3>1. CASE BeginUnload
      BY <3>1 DEF BeginUnload, appVars
    <3>2. ASSUME NEW q \in Progs, unload(q)
          PROVE  \A p \in Recorded(cur') \ ptodo' : cur'.progs[p].id = None
      <4>1. cur.progs[q] \in ProgState /\ cur.progs[q] # None
        BY <1>1, <1>4, <3>2 DEF unload, DataInv, ControlOK, StateObj
      <4>2. cur'.progs = [cur.progs EXCEPT ![q] = UnloadedProg(cur.progs[q])]
        BY <1>4, <3>2 DEF unload, StateObj
      <4>3. UnloadedProg(cur.progs[q]).id = None
        BY <4>1 DEF UnloadedProg, ProgState
      <4>4. cur.progs \in [Progs -> ProgState \cup {None}]
        BY <1>4 DEF StateObj
      <4>5. ptodo' = ptodo \ {q} /\ \A p \in Recorded(cur) \ ptodo : cur.progs[p].id = None
        BY <3>2 DEF unload, ContractInv, WorkOK
      <4>6. QED
        BY <4>2, <4>3, <4>4, <4>5 DEF Recorded
    <3>3. QED
      BY <2>2, <3>1, <3>2, VisitControl
  <2>3. ASSUME pc' \in {"programs", "links"}, list'[ca'].deleting PROVE ~Busy(cur')
    <3>1. list[ca].deleting
      BY <1>2, <2>3 DEF AtState
    <3>2. ~load /\ ~AlreadyLoaded
      BY <1>8, <3>1 DEF AlreadyLoaded, MustLoad, isBeingDeleted
    <3>3. Kept(cur', cur)
      BY <1>5, <2>3, <3>2 DEF AtState
    <3>4. CASE UnloadDone
      <4>1. ~Busy(cur)
        BY <3>4 DEF UnloadDone, ContractInv, WorkOK, Busy
      <4>2. QED
        BY <3>3, <4>1, KeptBusy
    <3>5. CASE pc \in {"programs", "links"}
      BY <3>1, <3>3, <3>5, KeptBusy DEF ContractInv, WorkOK
    <3>6. QED
      BY <2>3, <3>2, <3>4, <3>5, VisitControl
  <2>4. QED
    BY <2>1, <2>2, <2>3 DEF WorkOK, Busy, Recorded
<1>10. ReleaseOK'
  <2>1. SUFFICES ASSUME pc' = "finalizer"
                 PROVE  /\ list'[ca'].deleting /\ orig'.finalizer /\ ~Busy(orig')
                        /\ orig'.cond \in {"Success", "Unloaded"}
    BY DEF ReleaseOK, Busy, Recorded
  <2>2. StatusUnchanged
    BY <2>1, VisitControl
  <2>3. ReadyToRelease /\ FinalState = orig /\ pc = "programs"
    BY <2>1, <2>2 DEF StatusUnchanged, VisitOver
  <2>4. FinalState.progs = cur.progs
    BY <1>4 DEF FinalState, StateObj
  <2>5. ~Busy(orig)
    BY <2>3, <2>4 DEF ReadyToRelease, isBeingDeleted, ContractInv, WorkOK, Busy, Recorded
  <2>6. FinalState.cond = Condition(IF listChanged THEN "ProgramListChangedError" ELSE checkProgramStatus(cur))
    BY <1>4 DEF FinalState, StateObj
  <2>7. FinalState.cond \in {"", "UnloadError", "Unloaded", "Success", "Error"}
    BY <2>6 DEF Condition, checkProgramStatus
  <2>8. orig.cond # ""
    BY <1>2 DEF ContractInv, CopiesOK, CopyOK
  <2>9. QED
    BY <1>2, <2>1, <2>3, <2>5, <2>7, <2>8
       DEF ReadyToRelease, isBeingDeleted, IsBpfAppStateConditionFailure, AtState
<1>11. FirstStatusOK'
  <2>1. pc' \notin {"create", "waitSpec"}
    BY VisitControl
  <2>2. ASSUME pc' = "write" PROVE cur'.cond \notin {"NoCond", "Pending"}
    <3>1. CASE NodeSelectorInvalid \/ ProgramListInvalid \/ loadFails
      <4>1. \A status : [cur EXCEPT !.load = status, !.cond = "Error"].cond = "Error"
        BY <1>4 DEF StateObj
      <4>2. QED
        BY <3>1, <4>1 DEF ProgramListInvalid, NodeSelectorInvalid, loadFails, LoadError
    <3>2. CASE StatusChanged
      <4>1. FinalState.cond = Condition(IF listChanged THEN "ProgramListChangedError"
                                                       ELSE checkProgramStatus(cur))
        BY <1>4 DEF FinalState, StateObj
      <4>2. cur' = FinalState
        BY <3>2 DEF StatusChanged
      <4>3. QED
        BY <4>1, <4>2 DEF Condition, checkProgramStatus
    <3>3. QED
      BY <2>2, <3>1, <3>2, VisitControl
  <2>3. QED
    BY <2>1, <2>2 DEF FirstStatusOK
<1>12. QED
  BY <1>3, <1>7, <1>9, <1>10, <1>11 DEF ContractInv

\* Steps outside a visit, and around the agent, that write no object.
LEMMA ReturnContract ==
  ASSUME ContractInv, DataInv', UNCHANGED <<st, stCache, app>>, ReturnLocals
  PROVE  ContractInv'
<1>1. pc' = "idle" /\ list' = NoApps
  BY DEF ReturnLocals
<1>2. AppAgree' /\ CopiesOK' /\ DeletionStays' /\ UnseenIsNew'
  BY <1>1, QuietCopies DEF AtState
<1>3. QED
  BY <1>1, <1>2 DEF ContractInv, SameMeta, WorkOK, ReleaseOK, FirstStatusOK, AtState

LEMMA LoopContract ==
  ASSUME ContractInv, DataInv', LoopStep
  PROVE  ContractInv'
<1>1. CASE ReconcileStart
  <2>1. UNCHANGED <<st, stCache, app>> /\ list' = app /\ pc' = "next"
    BY <1>1 DEF ReconcileStart, objVars
  <2>2. ASSUME NEW a \in Apps, Leaving(a) PROVE Leaving(a)'
    BY <2>1, <2>2 DEF Leaving
  <2>3. ASSUME NEW o \in StateObj, CopyOK(o) PROVE CopyOK(o)'
    BY <2>2, <2>3 DEF CopyOK, StateObj
  <2>4. CopiesOK'
    <3>1. ASSUME NEW s \in StateIds, st'[s] # None PROVE CopyOK(st[s])'
      BY <2>1, <2>3, <3>1 DEF ContractInv, CopiesOK, DataInv, StateTypeOK
    <3>2. ASSUME NEW s \in StateIds, stCache'[s] # None PROVE CopyOK(stCache[s])'
      BY <2>1, <2>3, <3>2 DEF ContractInv, CopiesOK, DataInv, StateTypeOK
    <3>3. QED
      BY <2>1, <3>1, <3>2 DEF CopiesOK, AtState
  <2>5. QED
    BY <2>1, <2>4 DEF ContractInv, AppAgree, DeletionStays, SameMeta, WorkOK, ReleaseOK,
                      FirstStatusOK, UnseenIsNew, AtState
<1>2. CASE ReconcileDone
  BY <1>2, ReturnContract DEF ReconcileDone, Return, objVars
<1>3. ASSUME NEW a \in Apps, SkipDeletedApp(a) PROVE ContractInv'
  <2>1. UNCHANGED <<st, stCache, app, list>> /\ pc' = "next"
    BY <1>3 DEF SkipDeletedApp, objVars
  <2>2. AppAgree' /\ CopiesOK' /\ DeletionStays' /\ UnseenIsNew'
    BY <2>1, QuietCopies DEF AtState
  <2>3. QED
    BY <2>1, <2>2 DEF ContractInv, SameMeta, WorkOK, ReleaseOK, FirstStatusOK, AtState
<1>4. ASSUME NEW a \in Apps, DuplicateState(a) PROVE ContractInv'
  BY <1>4, ReturnContract DEF DuplicateState, ReturnAndRequeue, objVars
<1>5. ASSUME NEW a \in Apps, NeedState(a) PROVE ContractInv'
  <2>1. /\ UNCHANGED <<st, stCache, app, list>> /\ pc' = "create" /\ ca' = a
        /\ getBpfAppState(a) = {}
    BY <1>5 DEF NeedState, objVars, loopVars
  <2>2. AppAgree' /\ CopiesOK' /\ DeletionStays' /\ UnseenIsNew'
    BY <2>1, QuietCopies DEF AtState
  <2>3. FirstStatusOK'
    BY <2>1 DEF FirstStatusOK, ContractInv, AppAgree, UnseenIsNew, getBpfAppState
  <2>4. QED
    BY <2>1, <2>2, <2>3 DEF ContractInv, SameMeta, WorkOK, ReleaseOK, AtState
<1>6. ASSUME NEW a \in Apps, NEW s \in StateIds, BeginApp(a, s) PROVE ContractInv'
  <2>1. /\ UNCHANGED <<st, stCache, app, list>> /\ pc' = "load" /\ ca' = a /\ cs' = s
        /\ orig' = stCache[s] /\ cur' = stCache[s] /\ stCache[s] # None /\ stCache[s].app = a
    BY <1>6 DEF BeginApp, objVars, loopVars, getBpfAppState
  <2>2. CopyOK(stCache[s])
    BY <2>1 DEF ContractInv, CopiesOK
  <2>3. CopiesOK' /\ WorkOK'
    BY <2>1, <2>2 DEF ContractInv, CopiesOK, CopyOK, WorkOK, Leaving, AtState, Busy, Recorded
  <2>4. QED
    BY <2>1, <2>3 DEF ContractInv, AppAgree, DeletionStays, SameMeta, ReleaseOK, FirstStatusOK,
                      UnseenIsNew, AtState
<1>7. QED
  BY <1>1, <1>2, <1>3, <1>4, <1>5, <1>6 DEF LoopStep

\* Object s becomes o in the API server.
LEMMA PutCopies ==
  ASSUME ContractInv, NEW s \in StateIds, NEW o \in StateObj \cup {None}, st' = [st EXCEPT ![s] = o],
         UNCHANGED <<stCache, app>>, list' = list \/ list' = NoApps,
         o # None => /\ CopyOK(o)
                     /\ stCache[s] # None => o.app = stCache[s].app
                     /\ stCache[s] = None => o.cond = "NoCond",
         pc' \in AtState => /\ pc \in AtState /\ orig' = orig /\ cs' = cs
                            /\ st[s] = None => stCache[cs] # None
  PROVE  AppAgree' /\ CopiesOK' /\ DeletionStays' /\ UnseenIsNew'
<1>1. ASSUME NEW a \in Apps, Leaving(a) PROVE Leaving(a)'
  BY <1>1 DEF Leaving, NoApps
<1>2. ASSUME NEW c \in StateObj, CopyOK(c) PROVE CopyOK(c)'
  BY <1>1, <1>2 DEF CopyOK, StateObj
<1>3. st'[s] = o /\ \A t \in StateIds \ {s} : st'[t] = st[t]
  BY DEF ContractInv, DataInv, StateTypeOK
<1>4. AppAgree'
  BY <1>3 DEF ContractInv, AppAgree
<1>5. DeletionStays'
  BY DEF ContractInv, DeletionStays, NoApps
<1>6. UnseenIsNew'
  <2>1. \A t \in StateIds : st'[t] # None /\ stCache'[t] = None => st'[t].cond = "NoCond"
    BY <1>3 DEF ContractInv, UnseenIsNew
  <2>2. ASSUME pc' \in AtState PROVE st'[cs'] = None \/ stCache'[cs'] # None
    <3>1. cs \in StateIds
      BY <2>2, VisitFacts DEF ContractInv
    <3>2. QED
      BY <1>3, <2>2, <3>1 DEF ContractInv, UnseenIsNew
  <2>3. QED
    BY <2>1, <2>2 DEF UnseenIsNew
<1>7. CopiesOK'
  <2>1. ASSUME NEW t \in StateIds, st'[t] # None PROVE CopyOK(st[t])'
    <3>1. st'[t] \in StateObj /\ CopyOK(st'[t])
      BY <1>3, <2>1 DEF ContractInv, CopiesOK, DataInv, StateTypeOK
    <3>2. QED
      BY <1>1, <3>1 DEF CopyOK, StateObj, Busy, Recorded
  <2>2. ASSUME NEW t \in StateIds, stCache'[t] # None PROVE CopyOK(stCache[t])'
    BY <1>2, <2>2 DEF ContractInv, CopiesOK, DataInv, StateTypeOK
  <2>3. ASSUME pc' \in AtState PROVE CopyOK(orig)'
    BY <1>2, <2>3, VisitFacts DEF ContractInv, CopiesOK
  <2>4. QED
    BY <2>1, <2>2, <2>3 DEF CopiesOK
<1>8. QED
  BY <1>4, <1>5, <1>6, <1>7

LEMMA NewStateFacts ==
  ASSUME DataInv, pc = "create"
  PROVE  /\ ca \in Apps /\ initBpfAppState(ca) \in StateObj /\ initBpfAppState(ca) # None
         /\ initBpfAppState(ca).app = ca /\ initBpfAppState(ca).finalizer = TRUE
         /\ initBpfAppState(ca).deleting = FALSE
         /\ initBpfAppState(ca).cond = "NoCond" /\ ~Busy(initBpfAppState(ca))
<1>1. ca \in Apps /\ list[ca] \in AppObj
  BY DEF DataInv, LocalTypeOK, ControlOK
<1>2. initBpfAppState(ca) \in StateObj
  BY <1>1, InitStateType
<1>3. initBpfAppState(ca).progs = NoProgs
  BY DEF initBpfAppState
<1>4. ~Busy(initBpfAppState(ca))
  BY <1>3 DEF Busy, Recorded, NoProgs
<1>5. QED
  BY <1>1, <1>2, <1>4, NoneAssumption DEF initBpfAppState

LEMMA CreateContract ==
  ASSUME ContractInv, DataInv', createInitialBpfAppState
  PROVE  ContractInv'
<1>1. DataInv /\ pc = "create" /\ pc' = "waitSpec"
      /\ UNCHANGED <<stCache, app, list, ca>>
  BY DEF ContractInv, createInitialBpfAppState, objVars, loopVars, appVars
<1>2. PICK s \in StateIds : /\ st[s] = None /\ stCache[s] = None
                            /\ st' = [st EXCEPT ![s] = initBpfAppState(ca)]
  BY DEF createInitialBpfAppState
<1> DEFINE o == initBpfAppState(ca)
<1>3. /\ o \in StateObj /\ o # None /\ o.app = ca /\ o.finalizer = TRUE /\ o.cond = "NoCond" /\ ~Busy(o)
  BY <1>1, NewStateFacts
<1> HIDE DEF o
<1>4. CopyOK(o)
  BY <1>3 DEF CopyOK
<1>5. st' = [st EXCEPT ![s] = o]
  BY <1>2 DEF o
<1>6. AppAgree' /\ CopiesOK' /\ DeletionStays' /\ UnseenIsNew'
  BY <1>1, <1>2, <1>3, <1>4, <1>5, PutCopies DEF AtState
<1>7. FirstStatusOK'
  <2>1. st'[s] = o /\ \A t \in StateIds \ {s} : st'[t] = st[t]
    BY <1>1, <1>5 DEF DataInv, StateTypeOK
  <2>2. QED
    BY <1>1, <1>3, <2>1 DEF ContractInv, FirstStatusOK
<1>8. QED
  BY <1>1, <1>6, <1>7 DEF ContractInv, SameMeta, WorkOK, ReleaseOK, AtState

LEMMA FirstStatusContract ==
  ASSUME ContractInv, DataInv', NEW s \in StateIds, waitForBpfAppStateSpecUpdate(s)
  PROVE  ContractInv'
<1>1. /\ UNCHANGED <<st, stCache, app, list, ca>> /\ pc = "waitSpec" /\ pc' = "write" /\ cs' = s
      /\ orig' = stCache[s] /\ cur' = initBpfAppStateStatus(stCache[s], list[ca])
      /\ stCache[s] # None /\ stCache[s].app = ca
  BY DEF waitForBpfAppStateSpecUpdate, objVars, loopVars, getBpfAppState
<1>2. stCache[s] \in StateObj /\ list[ca] \in AppObj
  BY <1>1 DEF ContractInv, DataInv, StateTypeOK, LocalTypeOK, ControlOK
<1> DEFINE o == initBpfAppStateStatus(stCache[s], list[ca])
<1>3. /\ o.app = stCache[s].app /\ o.finalizer = stCache[s].finalizer
      /\ o.deleting = stCache[s].deleting /\ o.cond = "Pending"
      /\ o.progs = initializeNodeProgramList(list[ca])
  BY <1>2 DEF initBpfAppStateStatus, StateObj
<1>4. ~Busy(o)
  BY <1>3 DEF Busy, Recorded, initializeNodeProgramList
<1>5. cur' = o
  BY <1>1
<1> HIDE DEF o
<1>6. stCache[s].cond = "NoCond" /\ CopyOK(stCache[s])
  BY <1>1 DEF ContractInv, FirstStatusOK, CopiesOK
<1>7. CopiesOK'
  BY <1>1, <1>6 DEF ContractInv, CopiesOK, CopyOK, Leaving, AtState, Busy, Recorded
<1>8. SameMeta' /\ FirstStatusOK'
  BY <1>1, <1>3, <1>4, <1>5, <1>6 DEF SameMeta, FirstStatusOK, Busy, Recorded
<1>9. WorkOK'
  BY <1>1, <1>4, <1>5 DEF WorkOK, Busy, Recorded
<1>10. AppAgree' /\ DeletionStays' /\ UnseenIsNew' /\ ReleaseOK'
  BY <1>1 DEF ContractInv, AppAgree, DeletionStays, UnseenIsNew, ReleaseOK
<1>11. QED
  BY <1>7, <1>8, <1>9, <1>10 DEF ContractInv

LEMMA UpdateContract ==
  ASSUME ContractInv, DataInv', updateBpfAppStateStatus
  PROVE  ContractInv'
<1>1. /\ UNCHANGED <<stCache, app, list, ca, cs, orig>> /\ pc = "write" /\ pc' = "waitStatus"
      /\ st[cs] = orig /\ cur.cond # "" /\ cur' = [cur EXCEPT !.count = @ + 1]
      /\ st' = [st EXCEPT ![cs] = cur'] /\ pc \in AtState
  BY DEF updateBpfAppStateStatus, Accepted, objVars, loopVars, AtState
<1>2. /\ cur \in StateObj /\ orig \in StateObj /\ cs \in StateIds /\ orig # None
      /\ cur.app = orig.app /\ orig.app = ca /\ cur.finalizer = orig.finalizer
      /\ cur.deleting = orig.deleting
  BY <1>1, VisitFacts, NoneAssumption DEF ContractInv, SameMeta
<1>3. Kept(cur', cur) /\ cur'.cond = cur.cond /\ cur' \in StateObj /\ cur' # None
  <2>1. Kept([cur EXCEPT !.count = cur.count + 1], cur)
    BY <1>2, SetStatusKept
  <2>2. cur' = [cur EXCEPT !.count = cur.count + 1]
    BY <1>1
  <2>3. [cur EXCEPT !.count = cur.count + 1] \in StateObj
        /\ [cur EXCEPT !.count = cur.count + 1].cond = cur.cond
    BY <1>2 DEF StateObj
  <2>4. QED
    BY <2>1, <2>2, <2>3, NoneAssumption
<1>4. CopyOK(cur')
  <2>1. Busy(cur') => cur'.finalizer
    BY <1>1, <1>3, KeptBusy DEF ContractInv, WorkOK, Kept
  <2>2. ~cur'.finalizer => Leaving(cur'.app)
    BY <1>1, <1>2, <1>3 DEF ContractInv, CopiesOK, CopyOK, Kept
  <2>3. QED
    BY <1>1, <1>3, <2>1, <2>2 DEF CopyOK
<1>5. stCache[cs] # None /\ stCache[cs].app = orig.app
  BY <1>1, <1>2 DEF ContractInv, UnseenIsNew, AppAgree
<1>6. AppAgree' /\ CopiesOK' /\ DeletionStays' /\ UnseenIsNew'
  <2> DEFINE o == cur'
  <2>1. /\ o \in StateObj \cup {None} /\ st' = [st EXCEPT ![cs] = o] /\ CopyOK(o)
        /\ o.app = stCache[cs].app
    BY <1>1, <1>2, <1>3, <1>4, <1>5 DEF Kept
  <2> HIDE DEF o
  <2>2. QED
    BY <1>1, <1>2, <1>5, <2>1, PutCopies
<1>7. SameMeta' /\ WorkOK'
  BY <1>1, <1>2, <1>3, <1>4 DEF SameMeta, WorkOK, CopyOK, Kept, Busy, Recorded
<1>8. QED
  BY <1>1, <1>6, <1>7 DEF ContractInv, ReleaseOK, FirstStatusOK

LEMMA ReleaseContract ==
  ASSUME ContractInv, DataInv', removeFinalizer
  PROVE  ContractInv'
<1>1. /\ UNCHANGED <<stCache, app>> /\ pc = "finalizer" /\ pc' = "idle" /\ list' = NoApps
      /\ st[cs] = orig /\ pc \in AtState
      /\ st' = [st EXCEPT ![cs] = IF orig.deleting THEN None ELSE [orig EXCEPT !.finalizer = FALSE]]
  BY DEF removeFinalizer, Return, ReturnLocals, objVars, AtState
<1>2. /\ orig \in StateObj /\ cs \in StateIds /\ orig # None /\ ca \in Apps /\ orig.app = ca
  BY <1>1, VisitFacts, NoneAssumption DEF ContractInv, SameMeta
<1> DEFINE o == [orig EXCEPT !.finalizer = FALSE]
<1>3. /\ o \in StateObj /\ o.finalizer = FALSE /\ o.app = ca /\ o.cond = orig.cond
      /\ o.progs = orig.progs
  BY <1>2 DEF StateObj
<1>4. st' = [st EXCEPT ![cs] = IF orig.deleting THEN None ELSE o]
  BY <1>1
<1> HIDE DEF o
<1>5. Leaving(ca)
  BY <1>1, <1>2 DEF ContractInv, ReleaseOK, DeletionStays, Leaving, DataInv, ControlOK
<1>6. CopyOK(o)
  <2>1. ~Busy(o) /\ o.cond # ""
    BY <1>1, <1>3 DEF ContractInv, ReleaseOK, Busy, Recorded
  <2>2. QED
    BY <1>3, <1>5, <2>1 DEF CopyOK
<1>7. stCache[cs] # None /\ stCache[cs].app = ca
  BY <1>1, <1>2 DEF ContractInv, UnseenIsNew, AppAgree
<1>8. PICK n \in StateObj \cup {None} : st' = [st EXCEPT ![cs] = n] /\ (n # None => n = o)
  BY <1>3, <1>4
<1>9. AppAgree' /\ CopiesOK' /\ DeletionStays' /\ UnseenIsNew'
  <2>1. n # None => /\ CopyOK(n)
                    /\ stCache[cs] # None => n.app = stCache[cs].app
                    /\ stCache[cs] = None => n.cond = "NoCond"
    BY <1>3, <1>6, <1>7, <1>8
  <2>2. pc' \notin AtState
    BY <1>1 DEF AtState
  <2>3. QED
    BY <1>1, <1>2, <1>8, <2>1, <2>2, PutCopies
<1>10. QED
  BY <1>1, <1>9 DEF ContractInv, SameMeta, WorkOK, ReleaseOK, FirstStatusOK, AtState

LEMMA WriteContract ==
  ASSUME ContractInv, DataInv', WriteStep
  PROVE  ContractInv'
<1>1. CASE createInitialBpfAppStateFails
  BY <1>1, ReturnContract DEF createInitialBpfAppStateFails, ReturnAndRequeue, objVars
<1>2. ASSUME NEW s \in StateIds, waitForBpfAppStateStatusUpdate(s) PROVE ContractInv'
  BY <1>2, ReturnContract DEF waitForBpfAppStateStatusUpdate, Return, objVars
<1>3. CASE initBpfAppStateStatusFails \/ waitForBpfAppStateSpecUpdateTimesOut \/ waitForBpfAppStateStatusUpdateTimesOut
  BY <1>3, ReturnContract
     DEF waitForBpfAppStateSpecUpdateTimesOut, initBpfAppStateStatusFails, waitForBpfAppStateStatusUpdateTimesOut, ReturnAndRequeue, objVars
<1>4. CASE updateBpfAppStateStatusFails
  BY <1>4, ReturnContract DEF updateBpfAppStateStatusFails, ReturnAndRequeue, objVars
<1>5. CASE removeFinalizerFails
  BY <1>5, ReturnContract DEF removeFinalizerFails, Return, objVars
<1>6. QED
  BY <1>1, <1>2, <1>3, <1>4, <1>5, CreateContract, FirstStatusContract, UpdateContract, ReleaseContract
     DEF WriteStep

\* What is said of the reconcile alone does not change while it does nothing.
LEMMA AgentSame ==
  ASSUME ContractInv, UNCHANGED agentVars
  PROVE  /\ SameMeta' /\ WorkOK' /\ ReleaseOK'
         /\ UNCHANGED <<pc, list, ca, cs, orig, cur>>
BY DEF ContractInv, SameMeta, WorkOK, ReleaseOK, AtState, Busy, Recorded, agentVars, loopVars, appVars, progVars

\* The applications change, and those that were leaving still are.
LEMMA AppContract ==
  ASSUME ContractInv, DataInv', UNCHANGED <<st, stCache, agentVars>>,
         \A a \in Apps : app[a] = None \/ app[a].deleting => app'[a] = None \/ app'[a].deleting
  PROVE  ContractInv'
<1>1. SameMeta' /\ WorkOK' /\ ReleaseOK' /\ UNCHANGED <<pc, list, ca, cs, orig, cur>>
  BY AgentSame
<1>2. ASSUME NEW o \in StateObj, CopyOK(o) PROVE CopyOK(o)'
  BY <1>1, <1>2 DEF CopyOK, StateObj, Leaving
<1>3. CopiesOK'
  <2>1. ASSUME NEW s \in StateIds, st'[s] # None PROVE CopyOK(st[s])'
    BY <1>2, <2>1 DEF ContractInv, CopiesOK, DataInv, StateTypeOK
  <2>2. ASSUME NEW s \in StateIds, stCache'[s] # None PROVE CopyOK(stCache[s])'
    BY <1>2, <2>2 DEF ContractInv, CopiesOK, DataInv, StateTypeOK
  <2>3. ASSUME pc' \in AtState PROVE CopyOK(orig)'
    BY <1>1, <1>2, <2>3, VisitFacts DEF ContractInv, CopiesOK
  <2>4. QED
    BY <2>1, <2>2, <2>3 DEF CopiesOK
<1>4. DeletionStays' /\ AppAgree' /\ UnseenIsNew' /\ FirstStatusOK'
  BY <1>1 DEF ContractInv, DeletionStays, AppAgree, UnseenIsNew, FirstStatusOK, Busy, Recorded
<1>5. QED
  BY <1>1, <1>3, <1>4 DEF ContractInv

LEMMA ClusterContract ==
  ASSUME ContractInv, DataInv', ClusterStep
  PROVE  ContractInv'
<1>1. ASSUME NEW s \in StateIds, SyncState(s) PROVE ContractInv'
  <2>1. /\ UNCHANGED <<app, st, agentVars>>
        /\ stCache'[s] = st[s] /\ \A t \in StateIds \ {s} : stCache'[t] = stCache[t]
    BY <1>1 DEF SyncState, objVars, ContractInv, DataInv, StateTypeOK
  <2>2. SameMeta' /\ WorkOK' /\ ReleaseOK' /\ UNCHANGED <<pc, list, ca, cs, orig, cur>>
    BY <2>1, AgentSame
  <2>3. CopiesOK'
    <3>1. ASSUME NEW o, CopyOK(o) PROVE CopyOK(o)'
      BY <2>1, <2>2, <3>1 DEF CopyOK, Leaving
    <3>2. ASSUME NEW t \in StateIds, stCache'[t] # None PROVE CopyOK(stCache[t])'
      <4>1. CopyOK(stCache'[t])
        BY <2>1, <3>2 DEF ContractInv, CopiesOK
      <4>2. QED
        BY <3>1, <4>1
    <3>3. QED
      BY <2>1, <2>2, <3>1, <3>2 DEF ContractInv, CopiesOK
  <2>4. DeletionStays' /\ AppAgree' /\ FirstStatusOK'
    BY <2>1, <2>2 DEF ContractInv, DeletionStays, AppAgree, FirstStatusOK, Busy, Recorded
  <2>5. UnseenIsNew'
    BY <2>1, <2>2, VisitFacts DEF ContractInv, UnseenIsNew
  <2>6. QED
    BY <2>2, <2>3, <2>4, <2>5 DEF ContractInv
<1>2. ASSUME NEW s \in StateIds, GarbageCollect(s) PROVE ContractInv'
  <2>1. /\ UNCHANGED <<app, stCache, agentVars>> /\ st[s] # None /\ st[s] \in StateObj
        /\ st' = [st EXCEPT ![s] = IF st[s].finalizer THEN [st[s] EXCEPT !.deleting = TRUE] ELSE None]
    BY <1>2 DEF GarbageCollect, objVars, ContractInv, DataInv, StateTypeOK
  <2> DEFINE o == [st[s] EXCEPT !.deleting = TRUE]
  <2>2. /\ o \in StateObj /\ o.finalizer = st[s].finalizer /\ o.app = st[s].app
        /\ o.cond = st[s].cond /\ o.progs = st[s].progs
    BY <2>1 DEF StateObj
  <2>3. st' = [st EXCEPT ![s] = IF st[s].finalizer THEN o ELSE None]
    BY <2>1
  <2> HIDE DEF o
  <2>4. CopyOK(o)
    BY <2>1, <2>2 DEF ContractInv, CopiesOK, CopyOK, Busy, Recorded
  <2>5. PICK n \in StateObj \cup {None} : st' = [st EXCEPT ![s] = n] /\ (n # None => n = o)
    BY <2>2, <2>3
  <2>6. SameMeta' /\ WorkOK' /\ ReleaseOK' /\ UNCHANGED <<pc, list, ca, cs, orig, cur>>
    BY <2>1, AgentSame
  <2>7. n # None => /\ CopyOK(n)
                    /\ stCache[s] # None => n.app = stCache[s].app
                    /\ stCache[s] = None => n.cond = "NoCond"
    BY <2>1, <2>2, <2>4, <2>5 DEF ContractInv, AppAgree, UnseenIsNew
  <2>8. AppAgree' /\ CopiesOK' /\ DeletionStays' /\ UnseenIsNew'
    BY <2>1, <2>5, <2>6, <2>7, PutCopies
  <2>9. FirstStatusOK'
    <3>1. st'[s] = n /\ \A t \in StateIds \ {s} : st'[t] = st[t]
      BY <2>5 DEF ContractInv, DataInv, StateTypeOK
    <3>2. QED
      BY <2>1, <2>2, <2>5, <2>6, <3>1 DEF ContractInv, FirstStatusOK, Busy, Recorded
  <2>10. QED
    BY <2>6, <2>8, <2>9 DEF ContractInv
<1>3. ASSUME NEW a \in Apps, OperatorRelease(a) PROVE ContractInv'
  BY <1>3, AppContract DEF OperatorRelease, ContractInv, DataInv, ObjTypeOK
<1>4. QED
  BY <1>1, <1>2, <1>3 DEF ClusterStep

\* An edit leaves the deletion timestamp alone.
LEMMA EditKeepsDeletion ==
  ASSUME ObjTypeOK, NEW a \in Apps, UserEdit(a)
  PROVE  app'[a].deleting = app[a].deleting
<1>1. app[a] \in AppObj /\ app \in [Apps -> AppObj \cup {None}]
  BY DEF UserEdit, ObjTypeOK
<1>2. ASSUME NEW W, app' = [app EXCEPT ![a].want = W] PROVE app'[a].deleting = app[a].deleting
  BY <1>1, <1>2 DEF AppObj
<1>3. ASSUME NEW P, NEW D, app' = [app EXCEPT ![a].progs = P, ![a].twice = D]
      PROVE  app'[a].deleting = app[a].deleting
  BY <1>1, <1>3 DEF AppObj
<1>4. ASSUME NEW sel, app' = [app EXCEPT ![a].selector = sel] PROVE app'[a].deleting = app[a].deleting
  BY <1>1, <1>4 DEF AppObj
<1>5. ASSUME NEW p, app' = [app EXCEPT ![a].fn = IF p \in @ THEN @ \ {p} ELSE @ \cup {p}]
      PROVE  app'[a].deleting = app[a].deleting
  BY <1>1, <1>5 DEF AppObj
<1>6. QED
  BY <1>2, <1>3, <1>4, <1>5 DEF UserEdit

LEMMA CreateAppContract ==
  ASSUME "recreate" \notin Faults, ContractInv, DataInv', NEW a \in Apps, UserCreate(a)
  PROVE  ContractInv'
<1>1. /\ UNCHANGED <<st, stCache, agentVars>> /\ list[a] = None
      /\ \A s \in StateIds : /\ stCache[s] # None => stCache[s].app # a
                             /\ st[s] # None => st[s].app # a
  BY DEF UserCreate, Twice, Selectors, getBpfAppState
<1>2. \A b \in Apps \ {a} : app'[b] = app[b]
  BY DEF UserCreate, Twice, Selectors, ContractInv, DataInv, ObjTypeOK
<1>3. SameMeta' /\ WorkOK' /\ ReleaseOK' /\ UNCHANGED <<pc, list, ca, cs, orig, cur>>
  BY <1>1, AgentSame
<1>4. pc \in AtState => orig.app # a
  BY <1>1 DEF ContractInv, SameMeta, DataInv, ControlOK
<1>5. ASSUME NEW o \in StateObj, CopyOK(o), o.app # a PROVE CopyOK(o)'
  BY <1>2, <1>3, <1>5 DEF CopyOK, StateObj, Leaving
<1>6. CopiesOK'
  <2>1. ASSUME NEW s \in StateIds, st'[s] # None PROVE CopyOK(st[s])'
    BY <1>1, <1>5, <2>1 DEF ContractInv, CopiesOK, DataInv, StateTypeOK
  <2>2. ASSUME NEW s \in StateIds, stCache'[s] # None PROVE CopyOK(stCache[s])'
    BY <1>1, <1>5, <2>2 DEF ContractInv, CopiesOK, DataInv, StateTypeOK
  <2>3. ASSUME pc' \in AtState PROVE CopyOK(orig)'
    BY <1>3, <1>4, <1>5, <2>3, VisitFacts DEF ContractInv, CopiesOK
  <2>4. QED
    BY <2>1, <2>2, <2>3 DEF CopiesOK
<1>7. DeletionStays' /\ AppAgree' /\ UnseenIsNew' /\ FirstStatusOK'
  BY <1>1, <1>2, <1>3 DEF ContractInv, DeletionStays, AppAgree, UnseenIsNew, FirstStatusOK, Busy, Recorded
<1>8. QED
  BY <1>3, <1>6, <1>7 DEF ContractInv

LEMMA EnvironmentContract ==
  ASSUME "recreate" \notin Faults, ContractInv, DataInv', EnvironmentStep
  PROVE  ContractInv'
<1>1. CASE Crash
  <2>1. UNCHANGED <<app, st>> /\ stCache' = st /\ pc' = "idle" /\ list' = NoApps
    BY <1>1 DEF Crash, ReturnAndRequeue, ReturnLocals, objVars
  <2>2. CopiesOK'
    BY <2>1 DEF ContractInv, CopiesOK, CopyOK, Leaving, AtState, NoApps, Busy, Recorded, DataInv, StateTypeOK,
                StateObj
  <2>3. QED
    BY <2>1, <2>2 DEF ContractInv, AppAgree, DeletionStays, SameMeta, WorkOK, ReleaseOK, FirstStatusOK,
                      UnseenIsNew, AtState, NoApps
<1>2. ASSUME NEW a \in Apps, UserDelete(a) PROVE ContractInv'
  BY <1>2, AppContract DEF UserDelete, ContractInv, DataInv, ObjTypeOK, AppObj
<1>3. ASSUME NEW a \in Apps, UserEdit(a) PROVE ContractInv'
  <2>1. /\ UNCHANGED <<st, stCache, agentVars>> /\ app[a] # None /\ app[a] \in AppObj
        /\ \A b \in Apps \ {a} : app'[b] = app[b]
    BY <1>3 DEF UserEdit, ContractInv, DataInv, ObjTypeOK
  <2>2. app'[a].deleting = app[a].deleting
    BY <1>3, <2>1, EditKeepsDeletion DEF ContractInv, DataInv
  <2>3. QED
    BY <2>1, <2>2, AppContract
<1>4. CASE Resync \/ (\E a \in Apps : RelabelNode(a)) \/ (\E x \in Points : PointChanges(x))
           \/ (\E i \in ProgIds : ProgramLost(i))
  <2>1. UNCHANGED <<app, st, stCache, agentVars>>
    BY <1>4 DEF Resync, RelabelNode, PointChanges, ProgramLost, objVars
  <2>2. QED
    BY <2>1, AppContract
<1>5. QED
  BY <1>1, <1>2, <1>3, <1>4, CreateAppContract DEF EnvironmentStep

LEMMA ContractInductive ==
  ASSUME "recreate" \notin Faults
  PROVE  ContractInv /\ [Next]_vars => ContractInv'
<1> SUFFICES ASSUME ContractInv, [Next]_vars PROVE ContractInv'
  OBVIOUS
<1>1. DataInv'
  BY DataInvInductive DEF ContractInv
<1>2. CASE UNCHANGED vars
  <2>1. UNCHANGED <<app, st, stCache, agentVars>>
    BY <1>2 DEF vars, objVars, agentVars
  <2>2. QED
    BY <1>1, <2>1, AppContract
<1>3. LoopStep \/ WriteStep \/ LoadStep \/ LinkStep \/ EndStep \/ ClusterStep
      \/ EnvironmentStep \/ UNCHANGED vars
  BY Zenon DEF Next, ReconcileStep, LoopStep, WriteStep, LoadStep, LinkStep, EndStep
<1>4. QED
  BY <1>1, <1>2, <1>3, LoopContract, WriteContract, VisitContract, ClusterContract, EnvironmentContract

(***************************************************************************)
(* Every step is a step of the contract, or leaves its objects alone.      *)
(***************************************************************************)
\* What the contract sees: the value of its variable.
Promised == [s \in StateIds |-> Promise(st[s])]

LEMMA PutPromised ==
  ASSUME DataInv, NEW s \in StateIds, NEW o, st' = [st EXCEPT ![s] = o]
  PROVE  Promised[s] = Promise(st[s]) /\ Promised' = [Promised EXCEPT ![s] = Promise(o)]
<1>1. /\ st'[s] = o /\ \A t \in StateIds \ {s} : st'[t] = st[t]
  BY DEF DataInv, StateTypeOK
<1>2. Promised' = [t \in StateIds |-> Promise(st'[t])]
  BY DEF Promised, Promise, Recorded
<1>3. Promised = [t \in StateIds |-> Promise(st[t])]
  BY DEF Promised
<1>4. QED
  BY <1>1, <1>2, <1>3

\* The fields of a promise.
LEMMA PromiseFields ==
  ASSUME NEW o \in StateObj
  PROVE  Promise(o) = [cond |-> o.cond, finalizer |-> o.finalizer, deleting |-> o.deleting, busy |-> Busy(o)]
BY NoneAssumption, Zenon DEF Promise, Busy

LEMMA PromiseNone == Promise(None) = None
BY DEF Promise

\* Changing one field of a promise.
LEMMA EditPromise ==
  ASSUME NEW r, \E c, f, d, b : r = [cond |-> c, finalizer |-> f, deleting |-> d, busy |-> b], NEW v
  PROVE  /\ [r EXCEPT !.cond = v] = [cond |-> v, finalizer |-> r.finalizer, deleting |-> r.deleting, busy |-> r.busy]
         /\ [r EXCEPT !.busy = v] = [cond |-> r.cond, finalizer |-> r.finalizer, deleting |-> r.deleting, busy |-> v]
         /\ [r EXCEPT !.finalizer = v] = [cond |-> r.cond, finalizer |-> v, deleting |-> r.deleting, busy |-> r.busy]
         /\ [r EXCEPT !.deleting = v] = [cond |-> r.cond, finalizer |-> r.finalizer, deleting |-> v, busy |-> r.busy]
<1>1. PICK c, f, d, b : r = [cond |-> c, finalizer |-> f, deleting |-> d, busy |-> b]
  OBVIOUS
<1>2. r.cond = c /\ r.finalizer = f /\ r.deleting = d /\ r.busy = b
  BY <1>1
<1>3. [r EXCEPT !.cond = v] = [cond |-> v, finalizer |-> f, deleting |-> d, busy |-> b]
  BY <1>1
<1>4. [r EXCEPT !.busy = v] = [cond |-> c, finalizer |-> f, deleting |-> d, busy |-> v]
  BY <1>1
<1>5. [r EXCEPT !.finalizer = v] = [cond |-> c, finalizer |-> v, deleting |-> d, busy |-> b]
  BY <1>1
<1>6. [r EXCEPT !.deleting = v] = [cond |-> c, finalizer |-> f, deleting |-> v, busy |-> b]
  BY <1>1
<1>7. QED
  BY <1>2, <1>3, <1>4, <1>5, <1>6, Zenon

\* The fields of an object's promise.
LEMMA PromiseField ==
  ASSUME NEW o \in StateObj
  PROVE  /\ \E c, f, d, b : Promise(o) = [cond |-> c, finalizer |-> f, deleting |-> d, busy |-> b]
         /\ Promise(o).cond = o.cond /\ Promise(o).finalizer = o.finalizer
         /\ Promise(o).deleting = o.deleting /\ Promise(o).busy = Busy(o)
<1> DEFINE r == Promise(o)
           c == o.cond
           f == o.finalizer
           d == o.deleting
           b == Busy(o)
<1>1. r = [cond |-> c, finalizer |-> f, deleting |-> d, busy |-> b]
  BY PromiseFields, Zenon
<1> HIDE DEF r, c, f, d, b
<1>2. r.cond = c /\ r.finalizer = f /\ r.deleting = d /\ r.busy = b
  BY <1>1
<1>3. \E c1, f1, d1, b1 : r = [cond |-> c1, finalizer |-> f1, deleting |-> d1, busy |-> b1]
  BY <1>1
<1>4. QED
  BY <1>2, <1>3, Zenon DEF r, c, f, d, b

LEMMA PromiseType ==
  ASSUME NEW c \in Contract!Conds, NEW f \in BOOLEAN, NEW d \in BOOLEAN, NEW b \in BOOLEAN
  PROVE  [cond |-> c, finalizer |-> f, deleting |-> d, busy |-> b] \in Contract!Obj
BY DEF Contract!Obj

\* An object is something to the contract, too.
LEMMA PromiseIsObj ==
  ASSUME NEW o \in StateObj, o.cond # ""
  PROVE  Promise(o) # None
<1>1. o.cond \in Contract!Conds /\ o.finalizer \in BOOLEAN /\ o.deleting \in BOOLEAN
  BY DEF StateObj, CondTypes, Contract!Conds
<1>2. Busy(o) \in BOOLEAN
  BY Zenon DEF Busy
<1>3. Promise(o) \in Contract!Obj
  BY <1>1, <1>2, PromiseFields, PromiseType, Zenon
<1>4. QED
  BY <1>3, PromiseAssumption

LEMMA CreateIsCreate ==
  ASSUME ContractInv, createInitialBpfAppState
  PROVE  \E s \in StateIds : Contract!Create(s)
<1>1. DataInv /\ pc = "create"
  BY DEF ContractInv, createInitialBpfAppState
<1>2. PICK s \in StateIds : st[s] = None /\ st' = [st EXCEPT ![s] = initBpfAppState(ca)]
  BY DEF createInitialBpfAppState
<1> DEFINE o == initBpfAppState(ca)
<1>3. /\ o \in StateObj /\ o.cond = "NoCond" /\ o.finalizer = TRUE /\ o.deleting = FALSE /\ ~Busy(o)
  BY <1>1, NewStateFacts
<1> HIDE DEF o
<1>4. Busy(o) = FALSE
  BY <1>3, Zenon DEF Busy
<1>5. Promise(o) = [cond |-> "NoCond", finalizer |-> TRUE, deleting |-> FALSE, busy |-> FALSE]
  BY <1>3, <1>4, PromiseFields
<1>6. Promised[s] = None /\ Promised' = [Promised EXCEPT ![s] = Promise(o)]
  BY <1>1, <1>2, PutPromised, PromiseNone DEF o
<1>7. Contract!Create(s)
  BY <1>5, <1>6 DEF Contract!Create, Promised
<1>8. QED
  BY <1>7

LEMMA UpdateIsReport ==
  ASSUME ContractInv, updateBpfAppStateStatus
  PROVE  \E s \in StateIds, c \in Contract!Conds, b \in BOOLEAN : Contract!Report(s, c, b)
<1>1. /\ pc = "write" /\ pc \in AtState /\ DataInv
      /\ st[cs] = orig /\ cur.cond # "" /\ cur' = [cur EXCEPT !.count = @ + 1]
      /\ st' = [st EXCEPT ![cs] = cur']
  BY DEF ContractInv, updateBpfAppStateStatus, Accepted, AtState
<1>2. /\ cur \in StateObj /\ orig \in StateObj /\ cs \in StateIds
      /\ cur.finalizer = orig.finalizer /\ cur.deleting = orig.deleting
  BY <1>1, VisitFacts DEF ContractInv, SameMeta
<1> DEFINE o == cur'
           c == cur.cond
           b == Busy(cur)
<1>3. /\ o \in StateObj /\ o.cond = c /\ o.finalizer = orig.finalizer /\ o.deleting = orig.deleting
      /\ o.progs = cur.progs
  <2>1. cur' = [cur EXCEPT !.count = cur.count + 1]
    BY <1>1
  <2>2. QED
    BY <1>2, <2>1 DEF StateObj
<1>4. Busy(o) = b /\ b \in BOOLEAN
  BY <1>3, Zenon DEF Busy, Recorded
<1>5. c \in Contract!Conds
  BY <1>1, <1>2 DEF StateObj, CondTypes, Contract!Conds
<1>6. /\ c # "NoCond" /\ (c = "Pending" => orig.cond = "NoCond" /\ ~b)
      /\ b => orig.finalizer
  BY <1>1, <1>2 DEF ContractInv, FirstStatusOK, WorkOK
<1>7. st' = [st EXCEPT ![cs] = o]
  BY <1>1
<1>8. orig.cond # ""
  BY <1>1 DEF ContractInv, CopiesOK, CopyOK
<1> HIDE DEF o, c, b
<1>9. /\ Promise(orig) = [cond |-> orig.cond, finalizer |-> orig.finalizer,
                          deleting |-> orig.deleting, busy |-> Busy(orig)]
      /\ Promise(o) = [cond |-> c, finalizer |-> orig.finalizer, deleting |-> orig.deleting, busy |-> b]
      /\ Promise(orig) # None
  BY <1>2, <1>3, <1>4, <1>8, PromiseFields, PromiseIsObj
<1>10. Promise(o) = [Promise(orig) EXCEPT !.cond = c, !.busy = b]
  <2> DEFINE r == Promise(orig)
  <2>1. /\ \E c1, f1, d1, b1 : r = [cond |-> c1, finalizer |-> f1, deleting |-> d1, busy |-> b1]
        /\ r.finalizer = orig.finalizer /\ r.deleting = orig.deleting
    BY <1>2, PromiseField, Zenon
  <2> HIDE DEF r
  <2> DEFINE r1 == [r EXCEPT !.cond = c]
  <2>2. r1 = [cond |-> c, finalizer |-> r.finalizer, deleting |-> r.deleting, busy |-> r.busy]
    BY <2>1, EditPromise
  <2>3. [r EXCEPT !.cond = c, !.busy = b] = [r1 EXCEPT !.busy = b]
    OBVIOUS
  <2> HIDE DEF r1
  <2>4. /\ \E c1, f1, d1, b1 : r1 = [cond |-> c1, finalizer |-> f1, deleting |-> d1, busy |-> b1]
        /\ r1.cond = c /\ r1.finalizer = r.finalizer /\ r1.deleting = r.deleting
    BY <2>2
  <2>5. [r1 EXCEPT !.busy = b]
          = [cond |-> r1.cond, finalizer |-> r1.finalizer, deleting |-> r1.deleting, busy |-> b]
    BY <2>4, EditPromise
  <2>6. [r EXCEPT !.cond = c, !.busy = b]
          = [cond |-> c, finalizer |-> orig.finalizer, deleting |-> orig.deleting, busy |-> b]
    BY <2>1, <2>3, <2>4, <2>5, Zenon
  <2>7. QED
    BY <1>9, <2>6, Zenon DEF r
<1>11. Promised[cs] = Promise(orig) /\ Promised' = [Promised EXCEPT ![cs] = Promise(o)]
  BY <1>1, <1>2, <1>7, PutPromised
<1>12. [Promised EXCEPT ![cs].cond = c, ![cs].busy = b]
         = [Promised EXCEPT ![cs] = [Promise(orig) EXCEPT !.cond = c, !.busy = b]]
  BY <1>2, <1>11 DEF Promised
<1>13. /\ Promised[cs] # None /\ (c = "Pending" => Promised[cs].cond = "NoCond" /\ ~b)
       /\ b => Promised[cs].finalizer
  BY <1>6, <1>9, <1>11
<1>14. Promised' = [Promised EXCEPT ![cs].cond = c, ![cs].busy = b]
  BY <1>10, <1>11, <1>12
<1>15. Contract!Report(cs, c, b)
  BY <1>6, <1>13, <1>14 DEF Contract!Report, Promised
<1>16. QED
  BY <1>2, <1>4, <1>5, <1>15

LEMMA RemoveIsRelease ==
  ASSUME ContractInv, removeFinalizer
  PROVE  \E s \in StateIds : Contract!Release(s)
<1>1. /\ pc = "finalizer" /\ pc \in AtState /\ DataInv /\ st[cs] = orig
      /\ st' = [st EXCEPT ![cs] = IF orig.deleting THEN None ELSE [orig EXCEPT !.finalizer = FALSE]]
  BY DEF ContractInv, removeFinalizer, AtState
<1>2. orig \in StateObj /\ cs \in StateIds
  BY <1>1, VisitFacts
<1>3. orig.finalizer /\ ~Busy(orig) /\ orig.cond \in {"Success", "Unloaded"}
  BY <1>1 DEF ContractInv, ReleaseOK
<1> DEFINE o == [orig EXCEPT !.finalizer = FALSE]
           n == IF orig.deleting THEN None ELSE o
<1>4. /\ o \in StateObj /\ o.cond = orig.cond /\ o.finalizer = FALSE /\ o.deleting = orig.deleting
      /\ o.progs = orig.progs
  BY <1>2 DEF StateObj
<1>5. Busy(o) = Busy(orig)
  BY <1>4, Zenon DEF Busy, Recorded
<1>6. st' = [st EXCEPT ![cs] = n]
  BY <1>1
<1> HIDE DEF o
<1>7. /\ Promise(orig) = [cond |-> orig.cond, finalizer |-> orig.finalizer,
                          deleting |-> orig.deleting, busy |-> Busy(orig)]
      /\ Promise(o) = [cond |-> orig.cond, finalizer |-> FALSE, deleting |-> orig.deleting,
                       busy |-> Busy(orig)]
      /\ Promise(orig) # None
  BY <1>2, <1>3, <1>4, <1>5, PromiseFields, PromiseIsObj
<1>8. Promise(n) = IF Promise(orig).deleting THEN None ELSE [Promise(orig) EXCEPT !.finalizer = FALSE]
  <2>1. Promise(o) = [Promise(orig) EXCEPT !.finalizer = FALSE] /\ Promise(orig).deleting = orig.deleting
    <3> DEFINE r == Promise(orig)
               v == FALSE
    <3>1. /\ \E c1, f1, d1, b1 : r = [cond |-> c1, finalizer |-> f1, deleting |-> d1, busy |-> b1]
          /\ r.cond = orig.cond /\ r.finalizer = orig.finalizer /\ r.deleting = orig.deleting /\ r.busy = Busy(orig)
      BY <1>2, PromiseField, Zenon
    <3> HIDE DEF r, v
    <3>2. [r EXCEPT !.finalizer = v]
            = [cond |-> r.cond, finalizer |-> v, deleting |-> r.deleting, busy |-> r.busy]
      BY <3>1, EditPromise
    <3>3. QED
      BY <1>7, <3>1, <3>2, Zenon DEF r, v
  <2>2. QED
    BY <2>1, PromiseNone
<1> HIDE DEF n
<1>9. Promised[cs] = Promise(orig) /\ Promised' = [Promised EXCEPT ![cs] = Promise(n)]
  BY <1>1, <1>2, <1>6, PutPromised
<1>10. /\ Promised[cs] # None /\ Promised[cs].finalizer /\ ~Promised[cs].busy
       /\ Promised[cs].cond \in {"Success", "Unloaded"}
  BY <1>3, <1>7, <1>9
<1>11. Promised' = [Promised EXCEPT ![cs] = IF @.deleting THEN None ELSE [@ EXCEPT !.finalizer = FALSE]]
  BY <1>8, <1>9
<1>12. Contract!Release(cs)
  BY <1>10, <1>11 DEF Contract!Release, Promised
<1>13. QED
  BY <1>2, <1>12

LEMMA CollectIsCollect ==
  ASSUME ContractInv, NEW s \in StateIds, GarbageCollect(s)
  PROVE  Contract!Collect(s)
<1>1. /\ DataInv /\ st[s] # None /\ st[s] \in StateObj /\ (st[s].finalizer => ~st[s].deleting)
      /\ st' = [st EXCEPT ![s] = IF st[s].finalizer THEN [st[s] EXCEPT !.deleting = TRUE] ELSE None]
  BY DEF GarbageCollect, ContractInv, DataInv, StateTypeOK
<1> DEFINE old == st[s]
           o == [old EXCEPT !.deleting = TRUE]
           n == IF old.finalizer THEN o ELSE None
<1>2. /\ o \in StateObj /\ o.cond = old.cond /\ o.finalizer = old.finalizer /\ o.deleting = TRUE
      /\ o.progs = old.progs
  BY <1>1 DEF StateObj
<1>3. Busy(o) = Busy(old)
  BY <1>2, Zenon DEF Busy, Recorded
<1>4. st' = [st EXCEPT ![s] = n] /\ old \in StateObj /\ old.cond # ""
  BY <1>1 DEF ContractInv, CopiesOK, CopyOK
<1> HIDE DEF o
<1>5. /\ Promise(old) = [cond |-> old.cond, finalizer |-> old.finalizer, deleting |-> old.deleting,
                         busy |-> Busy(old)]
      /\ Promise(o) = [cond |-> old.cond, finalizer |-> old.finalizer, deleting |-> TRUE, busy |-> Busy(old)]
      /\ Promise(old) # None
  BY <1>2, <1>3, <1>4, PromiseFields, PromiseIsObj
<1>6. Promise(n) = IF Promise(old).finalizer THEN [Promise(old) EXCEPT !.deleting = TRUE] ELSE None
  <2>1. Promise(o) = [Promise(old) EXCEPT !.deleting = TRUE] /\ Promise(old).finalizer = old.finalizer
    <3> DEFINE r == Promise(old)
               v == TRUE
    <3>1. /\ \E c1, f1, d1, b1 : r = [cond |-> c1, finalizer |-> f1, deleting |-> d1, busy |-> b1]
          /\ r.cond = old.cond /\ r.finalizer = old.finalizer /\ r.deleting = old.deleting /\ r.busy = Busy(old)
      BY <1>4, PromiseField, Zenon
    <3> HIDE DEF r, v
    <3>2. [r EXCEPT !.deleting = v]
            = [cond |-> r.cond, finalizer |-> r.finalizer, deleting |-> v, busy |-> r.busy]
      BY <3>1, EditPromise
    <3>3. QED
      BY <1>5, <3>1, <3>2, Zenon DEF r, v
  <2>2. QED
    BY <2>1, PromiseNone
<1> HIDE DEF n
<1>7. Promised[s] = Promise(old) /\ Promised' = [Promised EXCEPT ![s] = Promise(n)]
  BY <1>1, <1>4, PutPromised
<1>8. Promised[s] # None /\ (Promised[s].finalizer => ~Promised[s].deleting)
  BY <1>1, <1>5, <1>7
<1>9. Promised' = [Promised EXCEPT ![s] = IF @.finalizer THEN [@ EXCEPT !.deleting = TRUE] ELSE None]
  BY <1>6, <1>7
<1>10. QED
  BY <1>8, <1>9 DEF Contract!Collect, Promised

LEMMA StepRefines ==
  ASSUME ContractInv, [Next]_vars
  PROVE  Contract!Next \/ Promised' = Promised
<1>1. CASE UNCHANGED st
  BY <1>1 DEF Promised
<1>2. CASE createInitialBpfAppState
  BY <1>2, CreateIsCreate DEF Contract!Next
<1>3. CASE updateBpfAppStateStatus
  BY <1>3, UpdateIsReport DEF Contract!Next
<1>4. CASE removeFinalizer
  BY <1>4, RemoveIsRelease DEF Contract!Next
<1>5. ASSUME NEW s \in StateIds, GarbageCollect(s)
      PROVE  Contract!Next
  BY <1>5, CollectIsCollect DEF Contract!Next
<1>6. CASE LoopStep
  BY <1>1, <1>6 DEF LoopStep, ReconcileStart, ReconcileDone, SkipDeletedApp, DuplicateState, NeedState, BeginApp
<1>7. CASE LoadStep \/ LinkStep \/ EndStep
  BY <1>1, <1>7, VisitEffect DEF ContractInv
<1>8. CASE WriteStep
  BY <1>1, <1>2, <1>3, <1>4, <1>8
     DEF WriteStep, createInitialBpfAppStateFails, waitForBpfAppStateSpecUpdate, waitForBpfAppStateStatusUpdate,
         waitForBpfAppStateSpecUpdateTimesOut, initBpfAppStateStatusFails, waitForBpfAppStateStatusUpdateTimesOut,
         updateBpfAppStateStatusFails, removeFinalizerFails
<1>9. CASE ClusterStep
  BY <1>1, <1>5, <1>9 DEF ClusterStep, SyncState, OperatorRelease
<1>10. CASE EnvironmentStep
  BY <1>1, <1>10 DEF EnvironmentStep, Crash, Resync, UserCreate, Twice, Selectors, UserDelete, UserEdit, RelabelNode,
                     PointChanges, ProgramLost
<1>11. CASE UNCHANGED vars
  BY <1>1, <1>11 DEF vars
<1>12. LoopStep \/ WriteStep \/ LoadStep \/ LinkStep \/ EndStep \/ ClusterStep
      \/ EnvironmentStep \/ UNCHANGED vars
  BY Zenon DEF Next, ReconcileStep, LoopStep, WriteStep, LoadStep, LinkStep, EndStep
<1>13. QED
  BY <1>6, <1>7, <1>8, <1>9, <1>10, <1>11, <1>12

LEMMA InitRefines == Init => Contract!Init
BY PromiseNone DEF Init, Contract!Init

(***************************************************************************)
(* The theorems.                                                           *)
(***************************************************************************)
\* Whatever fails, crashes, times out or is retried, and however often names
\* are used again one after the other, the agent keeps its contract: a state
\* object begins with its finalizer and an empty status, Pending is its first
\* status only, it records a program only under the finalizer, and it loses the
\* finalizer only when it records no program any more and reports no failure.
THEOREM AgentKeepsContract ==
  ASSUME "recreate" \notin Faults
  PROVE  Spec => ImplementsContract
<1>1. Init => ContractInv /\ Contract!Init
  BY InitContract, InitRefines
<1>2. ContractInv /\ [Next]_vars => ContractInv'
  BY ContractInductive
<1>3. ContractInv /\ [Next]_vars => [Contract!Next]_[s \in StateIds |-> Promise(st[s])]
  BY StepRefines DEF Promised
<1>4. QED
  BY <1>1, <1>2, <1>3, PTL DEF Spec, ImplementsContract, Contract!Spec

\* Under the same assumption a state object that records a program still loaded
\* carries the agent's finalizer (removeFinalizer, load): the operator cannot let
\* the application go while its programs run.
THEOREM FinalizerHolds ==
  ASSUME "recreate" \notin Faults
  PROVE  Spec => []FinalizerGuardsPrograms
<1>1. Init => ContractInv
  BY InitContract
<1>2. ContractInv /\ [Next]_vars => ContractInv'
  BY ContractInductive
<1>3. ContractInv => FinalizerGuardsPrograms
  <2> SUFFICES ASSUME ContractInv, NEW s \in StateIds, st[s] # None, NEW i \in loaded, RecordsProg(st[s], i)
               PROVE  st[s].finalizer
    BY DEF FinalizerGuardsPrograms
  <2>1. Busy(st[s])
    BY BpfAgentAssumption DEF RecordsProg, Busy, ContractInv, DataInv, DaemonTypeOK
  <2>2. QED
    BY <2>1 DEF ContractInv, CopiesOK, CopyOK
<1>4. QED
  BY <1>1, <1>2, <1>3, PTL DEF Spec

=============================================================================

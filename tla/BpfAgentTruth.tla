---------------------------- MODULE BpfAgentTruth ---------------------------
(***************************************************************************)
(* A status tells the truth, for any number of applications, programs and  *)
(* points: where it reports Success the programs are loaded and the links  *)
(* attached, and where it reports a changed program list a user has        *)
(* changed something, or lists a function twice.                           *)
(***************************************************************************)
EXTENDS BpfAgentRecords

\* Besides the separating failures, the one that stops a visit between the
\* unload and the write: a node that an application no longer selects, where
\* the walk over its links meets a program without an id.
Misleading == Separating \cup {"select"}

(***************************************************************************)
(* The inductive invariant.                                                *)
(***************************************************************************)
\* The status says that all is loaded and attached.
Claims(o) == o.cond = "Success" /\ o.load = "LoadSuccess"

\* With these links, the link of an entry is one of program i.
LiveLink(ls, i, lp) == ls.id # None /\ lp[ls.id] = i

LiveLinks(ps, lp) == \A x \in Points : ps.links[x] # None => LiveLink(ps.links[x], ps.id, lp)

\* All that o records is there.
Live(o, progs, lp) == \A p \in Recorded(o) : o.progs[p].id \in progs /\ LiveLinks(o.progs[p], lp)

\* Every application selects the node.
AllSelected == selected = Apps /\ (pc # "idle" => node = Apps)

\* An object that records a program has its owner, and ...
BusyOwned == \A s \in StateIds : st[s] # None /\ Busy(st[s]) => app[st[s].app] # None

\* ... is the one the cache shows and the one a visit began with, so that the
\* write at the end of the visit is accepted.
CacheCurrent ==
  \A s \in StateIds : stCache[s] # None /\ Busy(stCache[s]) => Behind(s) \/ stCache[s] = st[s]

BaseCurrent == pc \in AtState \ {"waitStatus"} /\ Busy(orig) => st[cs] = orig

\* No two entries of an object record the same link.
Distinct(o) ==
  \A p, q \in Recorded(o), x, y \in Points :
    /\ o.progs[p].links[x] # None /\ o.progs[q].links[y] # None
    /\ o.progs[p].links[x].id = o.progs[q].links[y].id /\ o.progs[p].links[x].id # None
    => p = q /\ x = y

DistinctLinks == \A s \in StateIds : \A o \in Copies(s) : Distinct(o)

\* The walk over programs and links: what it has found in order is in order.
Walked ==
  /\ isLoaded(cur) /\ cur.load = "LoadSuccess" /\ ptodo \subseteq Recorded(cur)
  /\ \A p \in Recorded(cur) \ ptodo :
       (pc = "programs" \/ p # cp) /\ cur.progs[p].attach = "Success" => LiveLinks(cur.progs[p], linkProg)
  /\ pc = "links" => \A x \in Points \ ltodo :
       cur.progs[cp].links[x] # None /\ isAttachSuccess(cur.progs[cp].links[x]) =>
         LiveLink(cur.progs[cp].links[x], cur.progs[cp].id, linkProg)

\* A visit unloads only what is deleted, and walks over links only after a load.
WalkOK ==
  /\ pc = "unload" => list[ca].deleting /\ listChanged = FALSE
  /\ pc \in {"programs", "links"} =>
       /\ listChanged = FALSE
       /\ Walked \/ (pc = "programs" /\ ptodo = {} /\ cur.load = "UnloadSuccess")

\* What is about to be written is true, and will be accepted.
WriteTrue == pc = "write" => cur.cond # "" /\ (Claims(cur) => Live(cur, loaded, linkProg))

\* What is written is true, unless the reconcile is at work on it.
Visiting(s) == pc \in AtState \ {"waitStatus"} /\ s = cs

RestTrue ==
  \A s \in StateIds : st[s] # None /\ Claims(st[s]) =>
    /\ ~Busy(st[s]) => Recorded(st[s]) = {}
    /\ ~Visiting(s) => Live(st[s], loaded, linkProg)

\* The part about objects and caches, and the part about what they report.
CurrentInv == BusyOwned /\ CacheCurrent /\ BaseCurrent

ReportInv == DistinctLinks /\ WalkOK /\ WriteTrue /\ RestTrue

(***************************************************************************)
(* The node stays selected.                                                *)
(***************************************************************************)
LEMMA SelectedInductive ==
  ASSUME "select" \notin Faults, AllSelected, [Next]_vars
  PROVE  AllSelected'
<1>1. CASE ReconcileStart
  BY <1>1 DEF ReconcileStart, AllSelected, objVars
<1>2. CASE ReturnLocals /\ UNCHANGED objVars
  BY <1>2 DEF ReturnLocals, AllSelected, objVars
<1>3. CASE UNCHANGED <<selected, node>> /\ pc # "idle"
  BY <1>3 DEF AllSelected
<1>4. CASE UNCHANGED <<selected, node, pc>>
  BY <1>4 DEF AllSelected
<1>5. CASE LoopStep
  BY <1>1, <1>2, <1>3, <1>5
     DEF LoopStep, ReconcileDone, SkipDeletedApp, DuplicateState, NeedState, BeginApp, Return, ReturnAndRequeue,
         objVars, loopVars
<1>6. CASE WriteStep
  BY <1>2, <1>3, <1>6
     DEF WriteStep, createInitialBpfAppState, createInitialBpfAppStateFails, waitForBpfAppStateSpecUpdate,
         waitForBpfAppStateStatusUpdate, waitForBpfAppStateSpecUpdateTimesOut, initBpfAppStateStatusFails,
         waitForBpfAppStateStatusUpdateTimesOut, updateBpfAppStateStatus, updateBpfAppStateStatusFails,
         removeFinalizer, removeFinalizerFails, Return, ReturnAndRequeue, objVars, loopVars
<1>7. CASE LoadStep
  BY <1>3, <1>7
     DEF LoadStep, BeginUnload, UnloadDone, ProgramListInvalid, NodeSelectorInvalid, AlreadyLoaded, load, loadFails, unload, MustLoad,
         LoadError, objVars, loopVars
<1>8. CASE LinkStep
  BY <1>2, <1>3, <1>8
     DEF LinkStep, ProgramStateMissing, updateLinks, updateLinksFails, LinkInPlace, LinkAttach, LinkAttachFails,
         LinkPanic, LinkDetach, BpfmanDetach, LinkDetachFails, LinkDrop, LinksDone, AtLink, VisitLink, ReturnAndRequeue,
         objVars, loopVars
<1>9. CASE EndStep
  BY <1>3, <1>9 DEF EndStep, StatusChanged, StatusUnchanged, VisitOver, objVars, loopVars
<1>10. CASE ClusterStep
  BY <1>4, <1>10 DEF ClusterStep, SyncState, GarbageCollect, OperatorRelease, objVars, agentVars, loopVars
<1>11. CASE EnvironmentStep
  BY <1>2, <1>4, <1>11
     DEF EnvironmentStep, Crash, Resync, UserCreate, Twice, Selectors, UserDelete, UserEdit, RelabelNode, PointChanges, ProgramLost,
         ReturnAndRequeue, objVars, agentVars, loopVars
<1>12. CASE UNCHANGED vars
  BY <1>4, <1>12 DEF vars, objVars, loopVars
<1>13. QED
  BY <1>5, <1>6, <1>7, <1>8, <1>9, <1>10, <1>11, <1>12, NextKinds

(***************************************************************************)
(* Objects that record programs are owned and current.                     *)
(***************************************************************************)
\* The reconcile is done with an object, or goes on with it.
LEMMA GoOnCurrent ==
  ASSUME CurrentInv, UNCHANGED <<st, stCache, app>>,
         \/ /\ pc' \notin AtState
            /\ \A s \in StateIds : stCache[s] # None => ~Behind(s)
         \/ /\ pc \in AtState \ {"waitStatus"} /\ pc' \in AtState \ {"waitStatus"}
            /\ UNCHANGED <<cs, orig>>
         \/ UNCHANGED <<pc, cs, orig, cur>>
  PROVE  CurrentInv'
<1>1. BusyOwned'
  BY DEF CurrentInv, BusyOwned, Busy, Recorded
<1>2. CacheCurrent'
  <2>1. \A s \in StateIds : stCache[s] # None /\ Behind(s) => Behind(s)'
    BY DEF Behind
  <2>2. \A s \in StateIds : Busy(stCache[s])' <=> Busy(stCache[s])
    BY DEF Busy, Recorded
  <2>3. QED
    BY <2>1, <2>2 DEF CurrentInv, CacheCurrent
<1>3. BaseCurrent'
  <2>1. CASE pc' \notin AtState
    BY <2>1 DEF BaseCurrent
  <2>2. CASE UNCHANGED orig
    <3>1. Busy(orig)' <=> Busy(orig)
      BY <2>2 DEF Busy, Recorded
    <3>2. QED
      BY <2>1, <3>1 DEF CurrentInv, BaseCurrent
  <2>3. QED
    BY <2>1, <2>2
<1>4. QED
  BY <1>1, <1>2, <1>3 DEF CurrentInv

\* An object that records no program is marked, released or removed.
LEMMA PutCurrent ==
  ASSUME DataInv, CurrentInv, UNCHANGED <<stCache, app>>, NEW s \in StateIds, NEW n \in StateObj \cup {None},
         st[s] # None, ~Busy(st[s]), st' = [st EXCEPT ![s] = n], n # None => n.progs = st[s].progs,
         pc' \in AtState => UNCHANGED <<pc, cs, orig, cur>>, pc # "waitStatus" \/ UNCHANGED <<pc, cs, orig, cur>>
  PROVE  CurrentInv'
<1>1. st'[s] = n /\ \A t \in StateIds \ {s} : st'[t] = st[t]
  BY DEF DataInv, StateTypeOK
<1>2. n # None => ~Busy(n)
  BY SameRecords
<1>3. BusyOwned'
  <2>1. \A t \in StateIds : Busy(st[t])' <=> Busy(st'[t])
    BY DEF Busy, Recorded
  <2>2. QED
    BY <1>1, <1>2, <2>1 DEF CurrentInv, BusyOwned
<1>4. CacheCurrent'
  <2>1. \A t \in StateIds : Busy(stCache[t])' <=> Busy(stCache[t])
    BY DEF Busy, Recorded
  <2>2. \A t \in StateIds : Behind(t) => Behind(t)'
    BY DEF Behind
  <2>3. QED
    BY <1>1, <2>1, <2>2 DEF CurrentInv, CacheCurrent
<1>5. BaseCurrent'
  <2>1. CASE pc' \notin AtState
    BY <2>1 DEF BaseCurrent
  <2>2. CASE pc' \in AtState
    <3>1. UNCHANGED <<pc, cs, orig, cur>> /\ (Busy(orig)' <=> Busy(orig)) /\ cs \in StateIds
      BY <2>2, VisitFacts DEF Busy, Recorded
    <3>2. QED
      BY <1>1, <3>1 DEF CurrentInv, BaseCurrent
  <2>3. QED
    BY <2>1, <2>2
<1>6. QED
  BY <1>3, <1>4, <1>5 DEF CurrentInv

LEMMA LoopCurrent ==
  ASSUME ContractInv, ObjectInv, CurrentInv, LoopStep
  PROVE  CurrentInv'
<1>1. CASE ReconcileStart \/ ReconcileDone
           \/ (\E a \in Apps : SkipDeletedApp(a) \/ DuplicateState(a) \/ NeedState(a))
  <2>1. UNCHANGED <<st, stCache, app>> /\ pc \in {"idle", "next"} /\ pc' \in {"idle", "next", "create"}
    BY <1>1 DEF ReconcileStart, ReconcileDone, SkipDeletedApp, DuplicateState, NeedState, Return,
                ReturnAndRequeue, ReturnLocals, objVars
  <2>2. QED
    BY <2>1, GoOnCurrent DEF AtState, Behind
<1>2. ASSUME NEW a \in Apps, NEW s \in StateIds, BeginApp(a, s) PROVE CurrentInv'
  <2>1. /\ UNCHANGED <<st, stCache, app>> /\ pc = "next" /\ pc' = "load" /\ cs' = s
        /\ orig' = stCache[s] /\ stCache[s] # None
    BY <1>2 DEF BeginApp, getBpfAppState, objVars
  <2>2. BusyOwned' /\ CacheCurrent'
    BY <2>1 DEF CurrentInv, BusyOwned, CacheCurrent, Behind, Busy, Recorded
  <2>3. Busy(orig)' <=> Busy(stCache[s])
    BY <2>1 DEF Busy, Recorded
  <2>4. BaseCurrent'
    BY <2>1, <2>3 DEF CurrentInv, CacheCurrent, BaseCurrent, Behind
  <2>5. QED
    BY <2>2, <2>4 DEF CurrentInv
<1>3. QED
  BY <1>1, <1>2 DEF LoopStep

LEMMA UpdateCurrent ==
  ASSUME ContractInv, ObjectInv, RecordsInv, CurrentInv, updateBpfAppStateStatus
  PROVE  CurrentInv'
<1>1. /\ UNCHANGED <<stCache, app, list, ca, cs, orig>> /\ pc = "write" /\ pc' = "waitStatus"
      /\ st[cs] = orig /\ cur' = [cur EXCEPT !.count = @ + 1]
      /\ st' = [st EXCEPT ![cs] = cur'] /\ pc \in AtState
  BY DEF updateBpfAppStateStatus, Accepted, loopVars, objVars, AtState
<1>2. DataInv
  BY DEF ContractInv
<1>3. cur \in StateObj /\ orig \in StateObj /\ cs \in StateIds /\ orig # None /\ ca \in Apps /\ list[ca] # None
  BY <1>1, <1>2, VisitFacts, NoneAssumption
<1>4. cur'.progs = cur.progs /\ cur'.app = ca /\ cur'.count = cur.count + 1 /\ orig.app = ca
      /\ cur.count = orig.count
  <2>1. orig.app = ca /\ cur.app = ca /\ cur.count = orig.count
    BY <1>1 DEF ContractInv, SameMeta, ObjectInv, VisitOK
  <2>2. QED
    BY <1>1, <1>3, <2>1 DEF StateObj
<1>5. st'[cs] = cur' /\ \A t \in StateIds \ {cs} : st'[t] = st[t]
  BY <1>1, <1>2, <1>3 DEF DataInv, StateTypeOK
<1>6. Busy(cur) => app[ca] # None
  <2>1. SUFFICES ASSUME Busy(cur), app[ca] = None PROVE FALSE
    OBVIOUS
  <2>2. ~list[ca].deleting \/ cur.progs = orig.progs
    BY <1>1, <2>1 DEF RecordsInv, PlaceOK
  <2>3. CASE cur.progs = orig.progs
    <3>1. st[cs] # None /\ Busy(st[cs]) /\ st[cs].app = ca
      BY <1>1, <1>3, <1>4, <2>1, <2>3, SameRecords
    <3>2. QED
      BY <1>3, <2>1, <3>1 DEF CurrentInv, BusyOwned
  <2>4. CASE ~list[ca].deleting
    <3>1. ~Leaving(ca)
      BY <1>1, <1>3, <2>1, <2>4 DEF Leaving
    <3>2. ~Newborn(ca)
      BY <1>1, <2>1 DEF Newborn, ContractInv, FirstStatusOK
    <3>3. QED
      BY <1>1, <1>3, <1>4, <2>1, <3>1, <3>2 DEF ObjectInv, OwnerStays
  <2>5. QED
    BY <2>2, <2>3, <2>4
<1>7. BusyOwned'
  <2>1. Busy(st'[cs]) => app[ca] # None
    BY <1>4, <1>5, <1>6, SameRecords
  <2>2. \A t \in StateIds : Busy(st[t])' <=> Busy(st'[t])
    BY DEF Busy, Recorded
  <2>3. QED
    BY <1>1, <1>4, <1>5, <2>1, <2>2 DEF CurrentInv, BusyOwned
<1>8. CacheCurrent'
  <2>1. SUFFICES ASSUME NEW t \in StateIds, stCache[t] # None, Busy(stCache[t])
                 PROVE  Behind(t)' \/ stCache[t] = st'[t]
    BY <1>1 DEF CacheCurrent, Busy, Recorded
  <2>2. stCache[t] = st[t]
    BY <1>1, <2>1 DEF CurrentInv, CacheCurrent, Behind
  <2>3. t = cs => Behind(t)'
    BY <1>1, <1>3, <1>4, <2>2 DEF Behind, StateObj
  <2>4. QED
    BY <1>5, <2>2, <2>3
<1>9. BaseCurrent'
  BY <1>1 DEF BaseCurrent
<1>10. QED
  BY <1>7, <1>8, <1>9 DEF CurrentInv

LEMMA WriteCurrent ==
  ASSUME Separating \cap Faults = {}, ContractInv, ObjectInv, RecordsInv, CurrentInv, WriteStep
  PROVE  CurrentInv'
<1>1. DataInv /\ "write" \notin Faults /\ "timeout" \notin Faults
  BY DEF ContractInv, Separating
<1>2. /\ ~createInitialBpfAppStateFails /\ ~waitForBpfAppStateSpecUpdateTimesOut
      /\ ~waitForBpfAppStateStatusUpdateTimesOut
  BY <1>1 DEF createInitialBpfAppStateFails, waitForBpfAppStateSpecUpdateTimesOut,
              waitForBpfAppStateStatusUpdateTimesOut, Fault
<1>3. CASE createInitialBpfAppState
  <2>1. UNCHANGED <<stCache, app>> /\ pc = "create" /\ pc' = "waitSpec"
    BY <1>3 DEF createInitialBpfAppState, objVars
  <2>2. PICK s \in StateIds : /\ st[s] = None /\ stCache[s] = None
                              /\ st' = [st EXCEPT ![s] = initBpfAppState(ca)]
    BY <1>3 DEF createInitialBpfAppState
  <2>3. st'[s].progs = NoProgs /\ \A t \in StateIds \ {s} : st'[t] = st[t]
    BY <1>1, <2>2 DEF DataInv, StateTypeOK, initBpfAppState
  <2>4. ~Busy(st'[s])
    BY <2>3 DEF Busy, Recorded, NoProgs
  <2>5. \A t \in StateIds : (Busy(st[t])' <=> Busy(st'[t])) /\ (Busy(stCache[t])' <=> Busy(stCache[t]))
    BY <2>1 DEF Busy, Recorded
  <2>6. BusyOwned' /\ CacheCurrent'
    BY <2>1, <2>2, <2>3, <2>4, <2>5 DEF CurrentInv, BusyOwned, CacheCurrent, Behind
  <2>7. QED
    BY <2>1, <2>6 DEF CurrentInv, BaseCurrent, AtState
<1>4. ASSUME NEW s \in StateIds, waitForBpfAppStateSpecUpdate(s) PROVE CurrentInv'
  <2>1. /\ UNCHANGED <<st, stCache, app>> /\ pc = "waitSpec" /\ pc' = "write" /\ cs' = s
        /\ orig' = stCache[s] /\ stCache[s] # None
    BY <1>4 DEF waitForBpfAppStateSpecUpdate, getBpfAppState, objVars
  <2>2. BusyOwned' /\ CacheCurrent'
    BY <2>1 DEF CurrentInv, BusyOwned, CacheCurrent, Behind, Busy, Recorded
  <2>3. Busy(orig)' <=> Busy(stCache[s])
    BY <2>1 DEF Busy, Recorded
  <2>4. BaseCurrent'
    BY <2>1, <2>3 DEF CurrentInv, CacheCurrent, BaseCurrent, Behind
  <2>5. QED
    BY <2>2, <2>4 DEF CurrentInv
<1>5. ASSUME NEW s \in StateIds, waitForBpfAppStateStatusUpdate(s) PROVE CurrentInv'
  <2>1. /\ UNCHANGED <<st, stCache, app>> /\ pc = "waitStatus" /\ pc' = "idle" /\ pc \in AtState
        /\ getBpfAppState(ca) = {s} /\ stCache[s].count >= cur.count
    BY <1>5 DEF waitForBpfAppStateStatusUpdate, StatusSeen, Return, ReturnLocals, objVars, AtState
  <2>2. cs \in StateIds /\ cur \in StateObj /\ (stCache[cs] # None => stCache[cs].app = ca)
    BY <1>1, <2>1, VisitFacts DEF ObjectInv, VisitOK
  <2>3. stCache[cs] # None => cs = s /\ stCache[s] \in StateObj
    BY <1>1, <2>1, <2>2 DEF getBpfAppState, DataInv, StateTypeOK
  <2>4. \A t \in StateIds : stCache[t] # None => ~Behind(t)
    BY <2>1, <2>2, <2>3 DEF Behind, StateObj
  <2>5. QED
    BY <2>1, <2>4, GoOnCurrent DEF AtState
<1>6. CASE initBpfAppStateStatusFails \/ updateBpfAppStateStatusFails \/ removeFinalizerFails
  <2>1. UNCHANGED <<st, stCache, app>> /\ pc # "waitStatus" /\ pc' = "idle"
    BY <1>6 DEF initBpfAppStateStatusFails, updateBpfAppStateStatusFails, removeFinalizerFails, Return, ReturnAndRequeue, ReturnLocals, objVars
  <2>2. QED
    BY <2>1, GoOnCurrent DEF AtState, Behind
<1>7. CASE removeFinalizer
  <2>1. /\ pc = "finalizer" /\ pc' = "idle" /\ st[cs] = orig /\ UNCHANGED <<stCache, app>>
        /\ st' = [st EXCEPT ![cs] = IF orig.deleting THEN None ELSE [orig EXCEPT !.finalizer = FALSE]]
    BY <1>7 DEF removeFinalizer, Return, ReturnLocals, objVars
  <2>2. cs \in StateIds /\ orig \in StateObj /\ orig # None /\ ~Busy(orig)
    BY <1>1, <2>1, VisitFacts, NoneAssumption DEF AtState, ContractInv, ReleaseOK
  <2> DEFINE o == [orig EXCEPT !.finalizer = FALSE]
  <2>3. o \in StateObj /\ o.progs = orig.progs
    BY <2>2 DEF StateObj
  <2>4. st' = [st EXCEPT ![cs] = IF orig.deleting THEN None ELSE o]
    BY <2>1
  <2> HIDE DEF o
  <2>5. PICK n \in StateObj \cup {None} : st' = [st EXCEPT ![cs] = n] /\ (n # None => n = o)
    BY <2>3, <2>4
  <2>6. QED
    BY <1>1, <2>1, <2>2, <2>3, <2>5, PutCurrent DEF AtState
<1>8. QED
  BY <1>2, <1>3, <1>4, <1>5, <1>6, <1>7, UpdateCurrent DEF WriteStep

LEMMA VisitCurrent ==
  ASSUME DataInv, CurrentInv, LoadStep \/ LinkStep \/ EndStep
  PROVE  CurrentInv'
<1>1. /\ pc \in {"load", "unload", "programs", "links"} /\ UNCHANGED <<st, stCache, app>>
      /\ \/ pc' \in AtState /\ UNCHANGED <<cs, orig>>
         \/ pc' \in {"idle", "next"}
  BY VisitEffect, VisitMeta DEF objVars
<1>2. pc' # "waitStatus"
  BY VisitControl
<1>3. QED
  BY <1>1, <1>2, GoOnCurrent DEF AtState, Behind

LEMMA AroundCurrent ==
  ASSUME Separating \cap Faults = {}, ContractInv, ObjectInv, CurrentInv,
         ClusterStep \/ EnvironmentStep \/ UNCHANGED vars
  PROVE  CurrentInv'
<1>1. DataInv
  BY DEF ContractInv
<1>2. ASSUME NEW s \in StateIds, SyncState(s) PROVE CurrentInv'
  <2>1. /\ UNCHANGED <<app, st, pc, cs, orig, cur>>
        /\ stCache'[s] = st[s] /\ \A t \in StateIds \ {s} : stCache'[t] = stCache[t]
    BY <1>1, <1>2 DEF SyncState, objVars, agentVars, appVars, DataInv, StateTypeOK
  <2>2. /\ \A t \in StateIds : (Busy(st[t])' <=> Busy(st[t])) /\ (Busy(stCache[t])' <=> Busy(stCache'[t]))
        /\ Busy(orig)' <=> Busy(orig)
    BY <2>1 DEF Busy, Recorded
  <2>3. BusyOwned' /\ BaseCurrent'
    BY <2>1, <2>2 DEF CurrentInv, BusyOwned, BaseCurrent
  <2>4. CacheCurrent'
    <3>1. \A t \in StateIds \ {s} : Behind(t) => Behind(t)'
      BY <2>1 DEF Behind
    <3>2. QED
      BY <2>1, <2>2, <3>1 DEF CurrentInv, CacheCurrent
  <2>5. QED
    BY <2>3, <2>4 DEF CurrentInv
<1>3. ASSUME NEW s \in StateIds, GarbageCollect(s) PROVE CurrentInv'
  <2>1. /\ UNCHANGED <<app, stCache, agentVars>> /\ st[s] # None /\ st[s] \in StateObj /\ ~OwnerAlive(s)
        /\ st' = [st EXCEPT ![s] = IF st[s].finalizer THEN [st[s] EXCEPT !.deleting = TRUE] ELSE None]
    BY <1>1, <1>3 DEF GarbageCollect, objVars, DataInv, StateTypeOK
  <2>2. ~Busy(st[s])
    BY <2>1 DEF OwnerAlive, CurrentInv, BusyOwned, ObjectInv, OwnersOK
  <2> DEFINE o == [st[s] EXCEPT !.deleting = TRUE]
  <2>3. o \in StateObj /\ o.progs = st[s].progs
    BY <2>1 DEF StateObj
  <2>4. st' = [st EXCEPT ![s] = IF st[s].finalizer THEN o ELSE None]
    BY <2>1
  <2> HIDE DEF o
  <2>5. PICK n \in StateObj \cup {None} : st' = [st EXCEPT ![s] = n] /\ (n # None => n = o)
    BY <2>3, <2>4
  <2>6. QED
    BY <1>1, <2>1, <2>2, <2>3, <2>5, PutCurrent DEF agentVars, appVars
<1>4. ASSUME NEW a \in Apps, OperatorRelease(a) PROVE CurrentInv'
  <2>1. /\ UNCHANGED <<st, stCache, pc, cs, orig, cur>>
        /\ app'[a] = None /\ \A b \in Apps \ {a} : app'[b] = app[b]
        /\ \A s \in StateIds : st[s] # None /\ st[s].app = a => ~st[s].finalizer
    BY <1>1, <1>4 DEF OperatorRelease, agentVars, appVars, DataInv, ObjTypeOK
  <2>2. \A s \in StateIds : st[s] # None /\ Busy(st[s]) => st[s].app \in Apps /\ st[s].app # a
    BY <1>1, <2>1 DEF ContractInv, CopiesOK, CopyOK, DataInv, StateTypeOK, StateObj
  <2>3. BusyOwned'
    <3>1. \A s \in StateIds : Busy(st[s])' <=> Busy(st[s])
      BY <2>1 DEF Busy, Recorded
    <3>2. QED
      BY <2>1, <2>2, <3>1 DEF CurrentInv, BusyOwned
  <2>4. CacheCurrent' /\ BaseCurrent'
    BY <2>1 DEF CurrentInv, CacheCurrent, BaseCurrent, Behind, Busy, Recorded
  <2>5. QED
    BY <2>3, <2>4 DEF CurrentInv
<1>5. CASE EnvironmentStep \/ UNCHANGED vars
  <2>1. "crash" \notin Faults
    BY DEF Separating
  <2>2. ~Crash
    BY <2>1 DEF Crash, Fault
  <2>3. UNCHANGED <<st, stCache, pc, cs, orig, cur>>
    BY <1>5, <2>2 DEF EnvironmentStep, Resync, UserCreate, Twice, Selectors, UserDelete, UserEdit, RelabelNode, PointChanges,
                      ProgramLost, agentVars, appVars, vars
  <2>4. \A a \in Apps : app[a] # None => app'[a] # None
    <3>1. CASE UNCHANGED app
      BY <3>1
    <3>2. ASSUME NEW a \in Apps, app' = [app EXCEPT ![a] = app'[a]], app[a] = None \/ app'[a] # None
          PROVE  \A b \in Apps : app[b] # None => app'[b] # None
      BY <1>1, <3>2 DEF DataInv, ObjTypeOK
    <3>3. ASSUME NEW a \in Apps, UserCreate(a) \/ UserDelete(a) \/ UserEdit(a)
          PROVE  app' = [app EXCEPT ![a] = app'[a]] /\ (app[a] = None \/ app'[a] # None)
      <4>2. CASE UserCreate(a)
        BY <1>1, <4>2 DEF UserCreate, Twice, Selectors, DataInv, ObjTypeOK
      <4>3. CASE UserDelete(a) \/ UserEdit(a)
        <5>1. app[a] \in AppObj /\ app \in [Apps -> AppObj \cup {None}]
          BY <1>1, <4>3 DEF UserDelete, UserEdit, DataInv, ObjTypeOK
        <5>2. PICK v : app' = [app EXCEPT ![a] = v] /\ v \in AppObj
          <6> DEFINE gone == [app[a] EXCEPT !.deleting = TRUE]
          <6>1. CASE UserDelete(a)
            <7>1. gone \in AppObj
              BY <5>1 DEF AppObj
            <7>2. app' = [app EXCEPT ![a] = gone]
              BY <5>1, <6>1 DEF UserDelete
            <7> HIDE DEF gone
            <7>3. QED
              BY <7>1, <7>2
          <6>2. ASSUME NEW W \in SUBSET (app[a].progs \X Points), app' = [app EXCEPT ![a].want = W]
                PROVE  app' = [app EXCEPT ![a] = [app[a] EXCEPT !.want = W]] /\ [app[a] EXCEPT !.want = W] \in AppObj
            BY <5>1, <6>2 DEF AppObj
          <6>3. ASSUME NEW P \in SUBSET Progs, NEW D \in SUBSET Progs, app' = [app EXCEPT ![a].progs = P, ![a].twice = D]
                PROVE  /\ app' = [app EXCEPT ![a] = [app[a] EXCEPT !.progs = P, !.twice = D]]
                       /\ [app[a] EXCEPT !.progs = P, !.twice = D] \in AppObj
            BY <5>1, <6>3 DEF AppObj
          <6>4. ASSUME NEW sel \in {"valid", "malformed"}, app' = [app EXCEPT ![a].selector = sel]
                PROVE  /\ app' = [app EXCEPT ![a] = [app[a] EXCEPT !.selector = sel]]
                       /\ [app[a] EXCEPT !.selector = sel] \in AppObj
            BY <5>1, <6>4 DEF AppObj
          <6>5. "retype" \notin Faults /\ Twice \subseteq SUBSET Progs /\ Selectors \subseteq {"valid", "malformed"}
            BY DEF Separating, Twice, Selectors
          <6>6. CASE UserEdit(a)
            <7>1. \/ \E W \in SUBSET (app[a].progs \X Points) : app' = [app EXCEPT ![a].want = W]
                  \/ \E P, D \in SUBSET Progs : app' = [app EXCEPT ![a].progs = P, ![a].twice = D]
                  \/ \E sel \in {"valid", "malformed"} : app' = [app EXCEPT ![a].selector = sel]
              BY <6>5, <6>6 DEF UserEdit
            <7>2. QED
              BY <7>1, <6>2, <6>3, <6>4
          <6>7. QED
            BY <4>3, <6>1, <6>6
        <5>3. QED
          BY <5>1, <5>2, NoneAssumption
      <4>4. QED
        BY <3>3, <4>2, <4>3
    <3>4. QED
      BY <1>5, <2>2, <3>1, <3>2, <3>3 DEF EnvironmentStep, Resync, RelabelNode, PointChanges, ProgramLost,
                                          vars, objVars
  <2>5. \A s \in StateIds : /\ Busy(st[s])' <=> Busy(st[s])
                            /\ st[s] # None => st[s].app \in Apps
    BY <1>1, <2>3 DEF Busy, Recorded, DataInv, StateTypeOK, StateObj
  <2>6. BusyOwned'
    BY <2>3, <2>4, <2>5 DEF CurrentInv, BusyOwned
  <2>7. CacheCurrent' /\ BaseCurrent'
    BY <2>3 DEF CurrentInv, CacheCurrent, BaseCurrent, Behind, Busy, Recorded
  <2>8. QED
    BY <2>6, <2>7 DEF CurrentInv
<1>6. QED
  BY <1>2, <1>3, <1>4, <1>5 DEF ClusterStep

(***************************************************************************)
(* What is alive stays alive, and links stay distinct.                     *)
(***************************************************************************)
LEMMA SameLive ==
  ASSUME NEW o, NEW u, o.progs = u.progs
  PROVE  /\ \A progs, lp : Live(u, progs, lp) => Live(o, progs, lp)
         /\ Distinct(u) => Distinct(o)
<1>1. Recorded(o) = Recorded(u)
  BY DEF Recorded
<1>2. QED
  BY <1>1 DEF Live, Distinct

LEMMA BlankDistinct ==
  ASSUME NEW o, Blank(o)
  PROVE  Distinct(o)
BY DEF Blank, Distinct, NoLinks

\* Every version of an object carries the programs of an earlier one, or none.
LEMMA DistinctFollows ==
  ASSUME DistinctLinks,
         \A s \in StateIds : \A o \in Copies(s)' : Blank(o) \/ \E u \in Copies(s) : o.progs = u.progs
  PROVE  DistinctLinks'
<1>1. SUFFICES ASSUME NEW s \in StateIds, NEW o \in Copies(s)'
               PROVE  Distinct(o)
  BY DEF DistinctLinks, Distinct, Recorded
<1>2. CASE Blank(o)
  BY <1>2, BlankDistinct
<1>3. ASSUME NEW u \in Copies(s), o.progs = u.progs PROVE Distinct(o)
  BY <1>3, SameLive DEF DistinctLinks
<1>4. QED
  BY <1>2, <1>3

\* An entry keeps its link, loses it or gets one just handed out.
LEMMA DistinctStep ==
  ASSUME NEW o, Distinct(o), Sound(o, freeProgs, freeLinks, linkProg), NEW u, Recorded(u) = Recorded(o),
         \A q \in Recorded(o), x \in Points : u.progs[q].links[x] # None =>
           \/ u.progs[q].links[x].id = None
           \/ o.progs[q].links[x] # None /\ u.progs[q].links[x].id = o.progs[q].links[x].id
           \/ u.progs[q].links[x].id \in freeLinks,
         \A q, r \in Recorded(o), x, y \in Points :
           /\ u.progs[q].links[x] # None /\ u.progs[r].links[y] # None
           /\ u.progs[q].links[x].id = u.progs[r].links[y].id /\ u.progs[q].links[x].id \in freeLinks
           => q = r /\ x = y
  PROVE  Distinct(u)
<1>1. SUFFICES ASSUME NEW q \in Recorded(o), NEW r \in Recorded(o), NEW x \in Points, NEW y \in Points,
                      u.progs[q].links[x] # None, u.progs[r].links[y] # None,
                      u.progs[q].links[x].id = u.progs[r].links[y].id, u.progs[q].links[x].id # None
               PROVE  q = r /\ x = y
  BY DEF Distinct
<1>2. CASE u.progs[q].links[x].id \in freeLinks
  BY <1>1, <1>2
<1>3. CASE u.progs[q].links[x].id \notin freeLinks
  <2>1. /\ o.progs[q].links[x] # None /\ u.progs[q].links[x].id = o.progs[q].links[x].id
        /\ o.progs[r].links[y] # None /\ u.progs[r].links[y].id = o.progs[r].links[y].id
    BY <1>1, <1>3
  <2>2. o.progs[q].links[x].id = o.progs[r].links[y].id /\ o.progs[q].links[x].id # None
    BY <1>1, <2>1
  <2>3. QED
    BY <2>1, <2>2, Zenon DEF Distinct
<1>4. QED
  BY <1>2, <1>3

\* An entry stays or loses its link.
LEMMA DistinctKept ==
  ASSUME NEW o, Distinct(o), NEW u, Recorded(u) = Recorded(o),
         \A q \in Recorded(o), x \in Points : u.progs[q].links[x] # None => u.progs[q].links[x] = o.progs[q].links[x]
  PROVE  Distinct(u)
<1>1. SUFFICES ASSUME NEW q \in Recorded(o), NEW r \in Recorded(o), NEW x \in Points, NEW y \in Points,
                      u.progs[q].links[x] # None, u.progs[r].links[y] # None,
                      u.progs[q].links[x].id = u.progs[r].links[y].id, u.progs[q].links[x].id # None
               PROVE  q = r /\ x = y
  BY DEF Distinct
<1>2. /\ o.progs[q].links[x] # None /\ o.progs[r].links[y] # None
      /\ o.progs[q].links[x].id = o.progs[r].links[y].id /\ o.progs[q].links[x].id # None
  BY <1>1
<1>3. QED
  BY <1>2, Zenon DEF Distinct

\* A step of a visit takes away only what the object at work records.
LEMMA VisitTruth ==
  ASSUME DataInv, VisitOK, RecordsInv, DistinctLinks, RestTrue, UNCHANGED <<st, stCache, cs>>,
         pc \in AtState \ {"waitStatus"}, pc' \in AtState \ {"waitStatus"},
         \A i \in loaded \ loaded' : RecordsProg(cur, i),
         \A l \in LinkIds : linkProg[l] \in loaded => linkProg'[l] = linkProg[l] \/ RecordsProg(cur, linkProg[l]),
         Distinct(cur')
  PROVE  DistinctLinks' /\ RestTrue'
<1>1. cs \in StateIds /\ cur \in StateObj /\ cur # None /\ cur \in Copies(cs)
  BY VisitFacts, NoneAssumption DEF Copies
<1>2. DistinctLinks'
  <2>1. ASSUME NEW s \in StateIds, NEW o \in Copies(s)' PROVE Distinct(o)
    <3>1. o \in Copies(s) \/ o = cur'
      BY DEF Copies
    <3>2. QED
      BY <3>1 DEF DistinctLinks
  <2>2. QED
    BY <2>1 DEF DistinctLinks, Distinct, Recorded
<1>3. ASSUME NEW s \in StateIds, s # cs, st[s] # None, Live(st[s], loaded, linkProg)
      PROVE  Live(st[s], loaded', linkProg')
  <2>1. SUFFICES ASSUME NEW p \in Recorded(st[s])
                 PROVE  st[s].progs[p].id \in loaded' /\ LiveLinks(st[s].progs[p], linkProg')
    BY DEF Live
  <2> DEFINE i == st[s].progs[p].id
  <2>2. i \in loaded /\ LiveLinks(st[s].progs[p], linkProg)
    BY <1>3 DEF Live
  <2>3. ~RecordsProg(cur, i)
    <3>1. st[s] \in Copies(s) /\ RecordsProg(st[s], i)
      BY <1>3 DEF Copies, RecordsProg
    <3>2. QED
      BY <1>1, <1>3, <2>2, <3>1 DEF RecordsInv, OneRecord
  <2>4. st[s].progs[p] \in ProgState
    BY <1>3 DEF DataInv, StateTypeOK, StateObj, Recorded
  <2>5. ASSUME NEW x \in Points, st[s].progs[p].links[x] # None PROVE LiveLink(st[s].progs[p].links[x], i, linkProg')
    <3>1. LiveLink(st[s].progs[p].links[x], i, linkProg)
      BY <2>2, <2>5 DEF LiveLinks
    <3>2. st[s].progs[p].links[x].id \in LinkIds
      BY <2>4, <2>5, <3>1 DEF LiveLink, ProgState, LinkState
    <3>3. QED
      BY <2>2, <2>3, <3>1, <3>2 DEF LiveLink
  <2>6. QED
    BY <2>2, <2>3, <2>5 DEF LiveLinks
<1>4. RestTrue'
  <2>1. SUFFICES ASSUME NEW s \in StateIds, st[s] # None, Claims(st[s])
                 PROVE  /\ ~Busy(st[s]) => Recorded(st[s]) = {}
                        /\ s # cs => Live(st[s], loaded', linkProg')
    BY DEF RestTrue, Visiting, Live, LiveLinks, LiveLink, Recorded, Busy, Claims
  <2>2. QED
    BY <1>3, <2>1 DEF RestTrue, Visiting
<1>5. QED
  BY <1>2, <1>4

(***************************************************************************)
(* reconcileLoad.                                                          *)
(***************************************************************************)
\* A step of a visit that leaves bpfman and the program entries alone.
LEMMA SteadyTruth ==
  ASSUME DataInv, VisitOK, RecordsInv, ReportInv, UNCHANGED <<st, stCache, cs, daemonVars>>,
         pc \in AtState \ {"waitStatus"}, pc' \in AtState \ {"waitStatus"}, cur'.progs = cur.progs
  PROVE  DistinctLinks' /\ RestTrue'
<1>1. cs \in StateIds /\ cur \in Copies(cs)
  BY VisitFacts, NoneAssumption DEF Copies
<1>2. Distinct(cur')
  BY <1>1, SameLive DEF ReportInv, DistinctLinks
<1>3. UNCHANGED <<loaded, linkProg>> /\ DistinctLinks /\ RestTrue
  BY DEF daemonVars, ReportInv
<1>4. QED
  BY <1>2, <1>3, VisitTruth

\* The ends of reconcileLoad that bpfman has no part in.
LEMMA LoadEndsTruth ==
  ASSUME Separating \cap Faults = {}, ContractInv, ObjectInv, RecordsInv, AllSelected, ReportInv,
         BeginUnload \/ UnloadDone \/ NodeSelectorInvalid \/ ProgramListInvalid \/ AlreadyLoaded \/ loadFails
  PROVE  ReportInv'
<1>1. /\ DataInv /\ VisitOK /\ PlaceOK /\ WalkOK /\ "get" \notin Faults /\ "reply" \notin Faults
      /\ pc \in {"load", "unload"} /\ pc \in AtState /\ UNCHANGED <<st, stCache, cs>>
  BY DEF ContractInv, ObjectInv, RecordsInv, ReportInv, Separating, BeginUnload, UnloadDone, ProgramListInvalid, NodeSelectorInvalid,
         AlreadyLoaded, loadFails, LoadError, MustLoad, AtState, appVars
<1>2. cur \in StateObj /\ ca \in Apps /\ ca \in node
  BY <1>1, VisitFacts DEF AllSelected
<1>3. ASSUME UNCHANGED daemonVars, cur'.progs = cur.progs, pc' \in AtState \ {"waitStatus"}, WalkOK', WriteTrue'
      PROVE  ReportInv'
  <2>1. DistinctLinks' /\ RestTrue'
    BY <1>1, <1>3, SteadyTruth
  <2>2. QED
    BY <1>3, <2>1 DEF ReportInv
<1>4. CASE BeginUnload
  <2>1. /\ UNCHANGED <<daemonVars, cur, ca, list, listChanged>> /\ pc = "load" /\ pc' = "unload"
        /\ list[ca].deleting /\ listChanged = FALSE
    BY <1>1, <1>2, <1>4 DEF BeginUnload, isNodeSelected, isNodeSelectedFails, isBeingDeleted, appVars, loopVars, PlaceOK
  <2>2. WalkOK' /\ WriteTrue'
    BY <2>1 DEF WalkOK, WriteTrue
  <2>3. QED
    BY <1>3, <2>1, <2>2 DEF AtState
<1>5. CASE UnloadDone
  <2>1. /\ UNCHANGED <<daemonVars, listChanged>> /\ pc = "unload" /\ pc' = "programs" /\ ptodo' = {}
        /\ cur' = [cur EXCEPT !.load = "UnloadSuccess"] /\ listChanged = FALSE
    BY <1>1, <1>2, <1>5 DEF UnloadDone, isNodeSelected, isNodeSelectedFails, isBeingDeleted, WalkOK
  <2>2. cur'.progs = cur.progs /\ cur'.load = "UnloadSuccess"
    BY <1>2, <2>1 DEF StateObj
  <2>3. WalkOK' /\ WriteTrue'
    BY <2>1, <2>2 DEF WalkOK, WriteTrue
  <2>4. QED
    BY <1>3, <2>1, <2>2, <2>3 DEF AtState
<1>6. CASE NodeSelectorInvalid \/ ProgramListInvalid \/ loadFails
  <2>1. /\ UNCHANGED daemonVars /\ pc' = "write"
        /\ \E status \in AppLoadStatus \cup {cur.load} : cur' = [cur EXCEPT !.load = status, !.cond = "Error"]
    BY <1>1, <1>6 DEF ProgramListInvalid, NodeSelectorInvalid, loadFails, LoadError, daemonVars, Fault, AppLoadStatus
  <2>2. cur'.progs = cur.progs /\ cur'.cond = "Error"
    BY <1>2, <2>1 DEF StateObj
  <2>3. WalkOK' /\ WriteTrue'
    BY <2>1, <2>2 DEF WalkOK, WriteTrue, Claims
  <2>4. QED
    BY <1>3, <2>1, <2>2, <2>3 DEF AtState
<1>7. CASE AlreadyLoaded
  <2>1. /\ UNCHANGED <<listChanged, daemonVars>> /\ pc = "load" /\ pc' = "programs"
        /\ cur' = [cur EXCEPT !.load = "LoadSuccess"]
        /\ isLoaded(cur) /\ ptodo' = Recorded(cur) /\ listChanged = FALSE
    BY <1>1, <1>7 DEF AlreadyLoaded, MustLoad, validateProgramList, PlaceOK
  <2>2. cur'.progs = cur.progs /\ cur'.load = "LoadSuccess"
    BY <1>2, <2>1 DEF StateObj
  <2>3. isLoaded(cur)' /\ Recorded(cur)' = Recorded(cur)
    BY <2>1, <2>2 DEF isLoaded, Recorded, daemonVars
  <2>4. WalkOK' /\ WriteTrue'
    BY <2>1, <2>2, <2>3 DEF WalkOK, WriteTrue, Walked
  <2>5. QED
    BY <1>3, <2>1, <2>2, <2>4 DEF AtState
<1>8. QED
  BY <1>4, <1>5, <1>6, <1>7

LEMMA UnloadTruth ==
  ASSUME Separating \cap Faults = {}, ContractInv, ObjectInv, RecordsInv, ReportInv, NEW p \in Progs, unload(p)
  PROVE  ReportInv'
<1>1. /\ DataInv /\ VisitOK /\ DaemonOK /\ WalkOK /\ DistinctLinks /\ RestTrue /\ "unload" \notin Faults
      /\ UNCHANGED <<st, stCache, cs, ca, list, listChanged>> /\ pc = "unload" /\ pc' = "unload" /\ pc \in AtState
  BY DEF ContractInv, ObjectInv, RecordsInv, ReportInv, Separating, unload, AtState, loopVars
<1>2. cs \in StateIds /\ cur \in StateObj /\ cur \in Copies(cs)
  BY <1>1, VisitFacts, NoneAssumption DEF Copies
<1>3. /\ Recorded(cur') = Recorded(cur) /\ p \in Recorded(cur)
      /\ \A q \in Progs \ {p} : cur'.progs[q] = cur.progs[q]
      /\ cur'.progs[p].links = IF cur.progs[p].id = None THEN cur.progs[p].links ELSE NoLinks
      /\ loaded' = loaded \ {cur.progs[p].id}
      /\ \A l \in LinkIds : linkProg'[l] = IF linkProg[l] = cur.progs[p].id THEN None ELSE linkProg[l]
  BY <1>1, UnloadEffect
<1>4. /\ \A i \in loaded \ loaded' : RecordsProg(cur, i)
      /\ \A l \in LinkIds : linkProg'[l] = linkProg[l] \/ RecordsProg(cur, linkProg[l])
  BY <1>3 DEF RecordsProg
<1>5. Distinct(cur')
  <2>1. Distinct(cur)
    BY <1>1, <1>2 DEF DistinctLinks
  <2>2. \A q \in Recorded(cur), x \in Points : cur'.progs[q].links[x] # None => cur'.progs[q].links[x] = cur.progs[q].links[x]
    BY <1>3 DEF NoLinks, Recorded
  <2>3. QED
    BY <1>3, <2>1, <2>2, DistinctKept
<1>6. DistinctLinks' /\ RestTrue'
  BY <1>1, <1>4, <1>5, VisitTruth
<1>7. WalkOK' /\ WriteTrue'
  BY <1>1 DEF WalkOK, WriteTrue
<1>8. QED
  BY <1>6, <1>7 DEF ReportInv

LEMMA LoadTruth ==
  ASSUME Separating \cap Faults = {}, ContractInv, ObjectInv, RecordsInv, ReportInv, load
  PROVE  ReportInv'
<1>1. /\ DataInv /\ VisitOK /\ PlaceOK /\ DistinctLinks /\ RestTrue /\ "get" \notin Faults
      /\ UNCHANGED <<st, stCache, cs, listChanged, linkProg>> /\ pc = "load" /\ pc' = "programs" /\ pc \in AtState
      /\ listChanged = FALSE
  BY DEF ContractInv, ObjectInv, RecordsInv, ReportInv, Separating, load, MustLoad, AtState, PlaceOK
<1>2. cs \in StateIds /\ cur \in StateObj /\ cur \in Copies(cs)
  BY <1>1, VisitFacts, NoneAssumption DEF Copies
<1>3. PICK f \in [Recorded(cur) -> freeProgs] :
        /\ Recorded(cur') = Recorded(cur) /\ cur'.load = "LoadSuccess"
        /\ \A p \in Recorded(cur) : cur'.progs[p].id = f[p] /\ cur'.progs[p].links = cur.progs[p].links
        /\ loaded' = loaded \cup {f[p] : p \in Recorded(cur)} /\ ptodo' = Recorded(cur)
  BY <1>1, LoadEffect
<1>4. Distinct(cur')
  <2>1. Distinct(cur)
    BY <1>1, <1>2 DEF DistinctLinks
  <2>2. QED
    BY <1>3, <2>1, DistinctKept
<1>5. DistinctLinks' /\ RestTrue'
  BY <1>1, <1>3, <1>4, VisitTruth DEF AtState
<1>6. WalkOK' /\ WriteTrue'
  <2>1. isLoaded(cur)' /\ Recorded(cur)' = Recorded(cur)
    BY <1>3 DEF isLoaded, Recorded
  <2>2. QED
    BY <1>1, <1>3, <2>1 DEF WalkOK, WriteTrue, Walked
<1>7. QED
  BY <1>5, <1>6 DEF ReportInv

(***************************************************************************)
(* The walk over programs and links.                                       *)
(***************************************************************************)
\* With every program loaded, an entry has an id and is found.
LEMMA NoSurprise ==
  ASSUME ContractInv, ObjectInv, RecordsInv, ReportInv
  PROVE  /\ \A p \in Progs : ~ProgramStateMissing(p)
         /\ \A x \in Points : ~LinkPanic(x)
<1>1. DataInv /\ WalkOK
  BY DEF ContractInv, ReportInv
<1>2. ASSUME NEW p \in Progs, ProgramStateMissing(p) PROVE FALSE
  <2>1. pc = "programs" /\ pc \in AtState /\ p \in ptodo /\ ~HasProgState(cur, list[ca], p)
    BY <1>2 DEF ProgramStateMissing, AtState
  <2>2. cs \in StateIds /\ cur \in Copies(cs) /\ ca \in Apps /\ list[ca] # None
    BY <1>1, <2>1, VisitFacts, NoneAssumption DEF Copies
  <2>3. p \in Recorded(cur) /\ cur.progs[p] # None
    BY <1>1, <2>1 DEF WalkOK, Walked, Recorded
  <2>4. cur.progs[p].fn = FALSE
    BY <2>2, <2>3 DEF RecordsInv, RecordsSound, Sound, SoundEntry
  <2>5. (p \in list[ca].fn) = FALSE
    BY <2>2 DEF ObjectInv, PlainApps
  <2>6. QED
    BY <2>1, <2>3, <2>4, <2>5, Zenon DEF HasProgState
<1>3. ASSUME NEW x \in Points, LinkPanic(x) PROVE FALSE
  <2>1. pc = "links" /\ cur.progs[cp].id = None
    BY <1>3 DEF LinkPanic, AtLink
  <2>2. cp \in Recorded(cur) /\ None \notin loaded
    BY <1>1, <2>1, BpfAgentAssumption DEF DataInv, ControlOK, DaemonTypeOK, Recorded
  <2>3. QED
    BY <1>1, <2>1, <2>2 DEF WalkOK, Walked, isLoaded
<1>4. QED
  BY <1>2, <1>3

LEMMA UpdateLinksTruth ==
  ASSUME ContractInv, ObjectInv, RecordsInv, ReportInv, NEW p \in Progs, updateLinks(p) \/ updateLinksFails(p)
  PROVE  ReportInv'
<1>1. /\ DataInv /\ VisitOK /\ WalkOK /\ DistinctLinks /\ RestTrue
      /\ UNCHANGED <<st, stCache, cs, daemonVars, listChanged>> /\ pc = "programs" /\ pc \in AtState
      /\ p \in ptodo /\ ptodo' = ptodo \ {p} /\ cur.progs[p] # None
      /\ \/ pc' = "programs"
         \/ pc' = "links" /\ cp' = p /\ ltodo' = {x \in Points : cur'.progs[p].links[x] # None}
  BY DEF ContractInv, ObjectInv, ReportInv, updateLinks, updateLinksFails, HasProgState, AtState
<1>2. /\ cs \in StateIds /\ cur \in StateObj /\ cur \in Copies(cs) /\ Recorded(cur) \subseteq Progs
      /\ UNCHANGED <<loaded, linkProg>>
  BY <1>1, VisitFacts, NoneAssumption DEF Copies, daemonVars, Recorded
<1>3. PICK ps \in ProgState :
        /\ cur' \in StateObj /\ cur'.progs = [cur.progs EXCEPT ![p] = ps] /\ cur'.load = cur.load
        /\ ps.id = cur.progs[p].id /\ ps.fn = cur.progs[p].fn
        /\ pc' = "programs" => ps.attach = "UpdateAttachInfoError"
        /\ \A x \in Points :
             /\ ps.links[x] # None => \/ cur.progs[p].links[x] # None /\ ps.links[x].id = cur.progs[p].links[x].id
                                      \/ ps.links[x].id = None
             /\ cur.progs[p].links[x] # None => ps.links[x] # None /\ ps.links[x].id = cur.progs[p].links[x].id
  BY <1>1, UpdateLinksEffect, Zenon
<1>4. /\ cur'.progs[p] = ps /\ \A q \in Progs \ {p} : cur'.progs[q] = cur.progs[q]
      /\ Recorded(cur') = Recorded(cur) /\ p \in Recorded(cur)
  <2>1. cur \in StateObj /\ cur.progs[p] # None /\ cur'.progs = [cur.progs EXCEPT ![p] = ps]
    BY <1>1, <1>2, <1>3, Zenon
  <2>2. QED
    BY <2>1, EntryRecords
<1>5. Distinct(cur')
  <2>1. Distinct(cur) /\ Sound(cur, freeProgs, freeLinks, linkProg)
    BY <1>1, <1>2 DEF DistinctLinks, RecordsInv, RecordsSound
  <2>2. None \notin freeLinks
    BY <1>1, BpfAgentAssumption DEF DataInv, DaemonTypeOK
  <2>3. \A q \in Recorded(cur), x \in Points : cur'.progs[q].links[x] # None =>
          \/ cur'.progs[q].links[x].id = None
          \/ cur.progs[q].links[x] # None /\ cur'.progs[q].links[x].id = cur.progs[q].links[x].id
    BY <1>2, <1>3, <1>4
  <2>4. \A q \in Recorded(cur), x \in Points : cur'.progs[q].links[x] # None => cur'.progs[q].links[x].id \notin freeLinks
    BY <2>1, <2>2, <2>3 DEF Sound, SoundEntry
  <2>5. QED
    BY <1>4, <2>1, <2>3, <2>4, DistinctStep
<1>6. DistinctLinks' /\ RestTrue'
  BY <1>1, <1>2, <1>5, VisitTruth DEF AtState
<1>7. isLoaded(cur) /\ cur.load = "LoadSuccess" /\ ptodo \subseteq Recorded(cur) /\ listChanged = FALSE
      /\ \A q \in Recorded(cur) \ ptodo : cur.progs[q].attach = "Success" => LiveLinks(cur.progs[q], linkProg)
  BY <1>1 DEF WalkOK, Walked
<1>8. Walked'
  <2>1. Recorded(cur)' = Recorded(cur)
    BY <1>4 DEF Recorded
  <2>2. isLoaded(cur)'
    <3>1. \A q \in Recorded(cur) : cur'.progs[q].id = cur.progs[q].id
      BY <1>2, <1>3, <1>4
    <3>2. QED
      BY <1>2, <1>7, <2>1, <3>1 DEF isLoaded
  <2>3. ASSUME NEW q \in Recorded(cur) \ ptodo', pc' = "programs" \/ q # cp', cur'.progs[q].attach = "Success"
        PROVE  LiveLinks(cur'.progs[q], linkProg')
    <3>1. q # p
      BY <1>1, <1>3, <1>4, <2>3
    <3>2. q \in Recorded(cur) \ ptodo /\ cur'.progs[q] = cur.progs[q]
      BY <1>1, <1>2, <1>4, <2>3, <3>1
    <3>3. QED
      BY <1>2, <1>7, <2>3, <3>2
  <2>4. pc' = "links" => \A x \in Points \ ltodo' : cur'.progs[cp'].links[x] = None
    BY <1>1
  <2>5. QED
    BY <1>1, <1>3, <1>7, <2>1, <2>2, <2>3, <2>4 DEF Walked, LiveLinks, LiveLink
<1>9. WalkOK' /\ WriteTrue'
  BY <1>1, <1>7, <1>8 DEF WalkOK, WriteTrue
<1>10. QED
  BY <1>6, <1>9 DEF ReportInv

LEMMA LinkTruth ==
  ASSUME Separating \cap Faults = {}, ContractInv, ObjectInv, RecordsInv, ReportInv, NEW x \in Points,
         \/ LinkInPlace(x) \/ LinkAttach(x) \/ LinkAttachFails(x)
         \/ LinkDetach(x) \/ LinkDetachFails(x) \/ LinkDrop(x)
  PROVE  ReportInv'
<1>1. /\ DataInv /\ VisitOK /\ WalkOK /\ DistinctLinks /\ RestTrue /\ DaemonOK /\ RecordsSound
      /\ UNCHANGED <<st, stCache, cs, loaded, listChanged, pc, ptodo, cp>> /\ ltodo' = ltodo \ {x}
  BY DEF ContractInv, ObjectInv, RecordsInv, ReportInv, LinkInPlace, LinkAttach, LinkAttachFails, LinkDetach, BpfmanDetach,
         LinkDetachFails, LinkDrop, VisitLink
<1>2. pc = "links" /\ pc \in AtState /\ x \in ltodo
  BY DEF LinkInPlace, LinkAttach, LinkAttachFails, LinkDetach, BpfmanDetach, LinkDetachFails, LinkDrop, AtLink, AtState
<1>3. /\ cs \in StateIds /\ cur \in StateObj /\ cur \in Copies(cs) /\ Recorded(cur) \subseteq Progs
      /\ cp \in Progs /\ cur.progs[cp] # None /\ cur.progs[cp].links[x] # None /\ None \notin loaded
  BY <1>1, <1>2, VisitFacts, NoneAssumption, BpfAgentAssumption DEF Copies, Recorded, DataInv, ControlOK, DaemonTypeOK
<1>4. PICK ps \in ProgState :
        /\ cur' \in StateObj /\ cur'.progs = [cur.progs EXCEPT ![cp] = ps] /\ cur'.load = cur.load
        /\ ps.id = cur.progs[cp].id /\ ps.fn = cur.progs[cp].fn
        /\ \A y \in Points \ {x} : ps.links[y] = cur.progs[cp].links[y]
        /\ ps.links[x] # None => \/ ps.links[x].id = cur.progs[cp].links[x].id
                                 \/ ps.links[x].id \in freeLinks \ freeLinks' /\ linkProg'[ps.links[x].id] = ps.id
        /\ \/ ps.links[x] # None /\ ps.links[x].id = cur.progs[cp].links[x].id
           \/ cur.progs[cp].links[x].id = None
           \/ linkProg'[cur.progs[cp].links[x].id] = None
        /\ ps.links[x] # None /\ isAttachSuccess(ps.links[x]) =>
             ps.links[x].id # None /\ linkProg'[ps.links[x].id] = ps.id
        /\ \A l \in LinkIds : \/ linkProg'[l] = linkProg[l]
                              \/ l \in freeLinks /\ ps.links[x] # None /\ ps.links[x].id = l
                              \/ /\ linkProg[l] = ps.id /\ linkProg'[l] = None
                                 /\ l = cur.progs[cp].links[x].id /\ ps.links[x] = None
        /\ freeLinks' \subseteq freeLinks /\ DaemonOK'
  BY <1>1, LinkEffect, Zenon
<1>5. /\ cur'.progs[cp] = ps /\ \A q \in Progs \ {cp} : cur'.progs[q] = cur.progs[q]
      /\ Recorded(cur') = Recorded(cur) /\ cp \in Recorded(cur)
  <2>1. cur \in StateObj /\ cur.progs[cp] # None /\ cur'.progs = [cur.progs EXCEPT ![cp] = ps] /\ cp \in Progs
    BY <1>3, <1>4, Zenon
  <2>2. QED
    BY <2>1, EntryRecords
<1>6. Distinct(cur) /\ Sound(cur, freeProgs, freeLinks, linkProg)
  BY <1>1, <1>3 DEF DistinctLinks, RecordsSound
<1>7. Distinct(cur')
  <2>1. ASSUME NEW q \in Recorded(cur), NEW y \in Points, cur'.progs[q].links[y] # None, ~(q = cp /\ y = x)
        PROVE  cur'.progs[q].links[y] = cur.progs[q].links[y]
    BY <1>3, <1>4, <1>5, <2>1
  <2>2. \A q \in Recorded(cur), y \in Points : cur'.progs[q].links[y] # None =>
          \/ cur.progs[q].links[y] # None /\ cur'.progs[q].links[y].id = cur.progs[q].links[y].id
          \/ cur'.progs[q].links[y].id \in freeLinks /\ q = cp /\ y = x
    BY <1>3, <1>4, <1>5, <2>1
  <2>3. \A q \in Recorded(cur), y \in Points :
          cur'.progs[q].links[y] # None /\ cur'.progs[q].links[y].id \in freeLinks => q = cp /\ y = x
    BY <1>6, <2>2 DEF Sound, SoundEntry
  <2>4. QED
    BY <1>5, <1>6, <2>2, <2>3, DistinctStep
<1>8. \A l \in LinkIds : linkProg[l] \in loaded => linkProg'[l] = linkProg[l] \/ RecordsProg(cur, linkProg[l])
  BY <1>1, <1>3, <1>4, <1>5 DEF DaemonOK, RecordsProg
<1>9. DistinctLinks' /\ RestTrue'
  BY <1>1, <1>2, <1>7, <1>8, VisitTruth
<1>10. ASSUME NEW q \in Recorded(cur), NEW y \in Points, ~(q = cp /\ y = x), cur.progs[q].links[y] # None,
              NEW i \in loaded, LiveLink(cur.progs[q].links[y], i, linkProg)
       PROVE  LiveLink(cur.progs[q].links[y], i, linkProg')
  <2> DEFINE l == cur.progs[q].links[y].id
  <2>1. l # None /\ linkProg[l] = i
    BY <1>10 DEF LiveLink
  <2>2. l \in LinkIds
    <3>1. cur.progs[q] \in ProgState
      BY <1>3 DEF StateObj, Recorded
    <3>2. cur.progs[q].links[y] \in LinkState
      BY <1>10, <3>1 DEF ProgState
    <3>3. QED
      BY <2>1, <3>2 DEF LinkState
  <2>3. l \notin freeLinks
    BY <1>6, <1>10 DEF Sound, SoundEntry
  <2>4. l # cur.progs[cp].links[x].id
    <3>1. SUFFICES ASSUME l = cur.progs[cp].links[x].id PROVE FALSE
      OBVIOUS
    <3>2. QED
      BY <1>3, <1>5, <1>6, <1>10, <2>1, <3>1, Zenon DEF Distinct
  <2>5. linkProg'[l] = linkProg[l]
    BY <1>4, <2>2, <2>3, <2>4
  <2>6. QED
    BY <2>1, <2>5 DEF LiveLink
<1>11. /\ isLoaded(cur) /\ cur.load = "LoadSuccess" /\ ptodo \subseteq Recorded(cur) /\ listChanged = FALSE
       /\ \A q \in Recorded(cur) \ ptodo :
            q # cp /\ cur.progs[q].attach = "Success" => LiveLinks(cur.progs[q], linkProg)
       /\ \A y \in Points \ ltodo :
            cur.progs[cp].links[y] # None /\ isAttachSuccess(cur.progs[cp].links[y]) =>
              LiveLink(cur.progs[cp].links[y], cur.progs[cp].id, linkProg)
  BY <1>1, <1>2 DEF WalkOK, Walked
<1>12. \A q \in Recorded(cur) : cur.progs[q].id \in loaded
  BY <1>11 DEF isLoaded
<1>13. Walked'
  <2>1. Recorded(cur)' = Recorded(cur)
    BY <1>5 DEF Recorded
  <2>2. isLoaded(cur)'
    <3>1. \A q \in Recorded(cur) : cur'.progs[q].id = cur.progs[q].id
      BY <1>3, <1>4, <1>5
    <3>2. QED
      BY <1>1, <1>12, <2>1, <3>1 DEF isLoaded
  <2>3. ASSUME NEW q \in Recorded(cur) \ ptodo, q # cp, cur'.progs[q].attach = "Success"
        PROVE  LiveLinks(cur'.progs[q], linkProg')
    <3>1. cur'.progs[q] = cur.progs[q]
      BY <1>3, <1>5, <2>3
    <3>2. LiveLinks(cur.progs[q], linkProg)
      BY <1>11, <2>3, <3>1
    <3>3. \A y \in Points : cur.progs[q].links[y] # None => LiveLink(cur.progs[q].links[y], cur.progs[q].id, linkProg')
      BY <1>10, <1>12, <2>3, <3>2 DEF LiveLinks
    <3>4. QED
      BY <3>1, <3>3 DEF LiveLinks
  <2>4. ASSUME NEW y \in Points \ ltodo', cur'.progs[cp].links[y] # None, isAttachSuccess(cur'.progs[cp].links[y])
        PROVE  LiveLink(cur'.progs[cp].links[y], cur'.progs[cp].id, linkProg')
    <3>1. CASE y = x
      BY <1>4, <1>5, <2>4, <3>1 DEF LiveLink
    <3>2. CASE y # x
      <4>1. y \in Points \ ltodo /\ cur'.progs[cp].links[y] = cur.progs[cp].links[y] /\ cur'.progs[cp].id = cur.progs[cp].id
        BY <1>1, <1>4, <1>5, <2>4, <3>2
      <4>2. LiveLink(cur.progs[cp].links[y], cur.progs[cp].id, linkProg)
        BY <1>11, <2>4, <4>1
      <4>3. QED
        BY <1>5, <1>10, <1>12, <2>4, <3>2, <4>1, <4>2
    <3>3. QED
      BY <3>1, <3>2
  <2>5. QED
    <3>1. cur'.load = "LoadSuccess" /\ ptodo' \subseteq Recorded(cur) /\ pc' = "links" /\ cp' = cp /\ ptodo' = ptodo
      BY <1>1, <1>2, <1>4, <1>11
    <3>2. QED
      BY <2>1, <2>2, <2>3, <2>4, <3>1 DEF Walked, LiveLinks, LiveLink, isAttachSuccess
<1>14. WalkOK' /\ WriteTrue'
  BY <1>1, <1>2, <1>11, <1>13 DEF WalkOK, WriteTrue
<1>15. QED
  BY <1>9, <1>14 DEF ReportInv

\* updateProgramAttachStatus reports Success only for links that are there.
LEMMA LinksDoneTruth ==
  ASSUME ContractInv, ObjectInv, RecordsInv, ReportInv, LinksDone
  PROVE  ReportInv'
<1>1. /\ DataInv /\ VisitOK /\ WalkOK /\ DistinctLinks /\ RestTrue
      /\ UNCHANGED <<st, stCache, cs, daemonVars, listChanged, ptodo>> /\ ltodo = {} /\ pc' = "programs"
      /\ pc = "links" /\ pc \in AtState
  BY DEF ContractInv, ObjectInv, ReportInv, LinksDone, AtState
<1>2. /\ cs \in StateIds /\ cur \in StateObj /\ cur \in Copies(cs) /\ Recorded(cur) \subseteq Progs
      /\ cp \in Progs /\ cur.progs[cp] # None /\ cur.progs[cp] \in ProgState /\ UNCHANGED <<loaded, linkProg>>
  BY <1>1, VisitFacts, NoneAssumption DEF Copies, Recorded, DataInv, ControlOK, daemonVars, StateObj
<1> DEFINE status == updateProgramAttachStatus(cur.progs[cp])
           ps == [cur.progs[cp] EXCEPT !.attach = status]
<1>3. /\ status \in ProgramLinkStatus
      /\ status = "Success" => \A x \in Points : cur.progs[cp].links[x] # None => isAttachSuccess(cur.progs[cp].links[x])
  BY DEF updateProgramAttachStatus, ProgramLinkStatus
<1>4. cur' = [cur EXCEPT !.progs[cp].attach = status]
  BY DEF LinksDone
<1> HIDE DEF status
<1>5. ps \in ProgState /\ ps.id = cur.progs[cp].id /\ ps.links = cur.progs[cp].links /\ ps.attach = status
  BY <1>2, <1>3 DEF ProgState
<1>6. cur' = [cur EXCEPT !.progs[cp] = ps]
  BY <1>2, <1>4 DEF StateObj, ProgState
<1> HIDE DEF ps
<1>7. cur'.progs = [cur.progs EXCEPT ![cp] = ps] /\ cur'.load = cur.load
  BY <1>2, <1>5, <1>6 DEF StateObj
<1>8. /\ cur'.progs[cp] = ps /\ \A q \in Progs \ {cp} : cur'.progs[q] = cur.progs[q]
      /\ Recorded(cur') = Recorded(cur) /\ cp \in Recorded(cur)
  BY <1>2, <1>5, <1>7, EntryRecords
<1>9. \A q \in Recorded(cur) : cur'.progs[q].id = cur.progs[q].id /\ cur'.progs[q].links = cur.progs[q].links
  BY <1>2, <1>5, <1>8
<1>10. Distinct(cur')
  <2>1. Distinct(cur)
    BY <1>1, <1>2 DEF DistinctLinks
  <2>2. QED
    BY <1>8, <1>9, <2>1, DistinctKept
<1>11. DistinctLinks' /\ RestTrue'
  BY <1>1, <1>2, <1>10, VisitTruth DEF AtState
<1>12. /\ isLoaded(cur) /\ cur.load = "LoadSuccess" /\ ptodo \subseteq Recorded(cur) /\ listChanged = FALSE
       /\ \A q \in Recorded(cur) \ ptodo :
            q # cp /\ cur.progs[q].attach = "Success" => LiveLinks(cur.progs[q], linkProg)
       /\ \A y \in Points :
            cur.progs[cp].links[y] # None /\ isAttachSuccess(cur.progs[cp].links[y]) =>
              LiveLink(cur.progs[cp].links[y], cur.progs[cp].id, linkProg)
  BY <1>1 DEF WalkOK, Walked
<1>13. Walked'
  <2>1. Recorded(cur)' = Recorded(cur)
    BY <1>8 DEF Recorded
  <2>2. isLoaded(cur)'
    BY <1>2, <1>9, <1>12, <2>1 DEF isLoaded
  <2>3. ASSUME NEW q \in Recorded(cur) \ ptodo, cur'.progs[q].attach = "Success"
        PROVE  LiveLinks(cur'.progs[q], linkProg')
    <3>1. CASE q # cp
      BY <1>2, <1>8, <1>12, <2>3, <3>1
    <3>2. CASE q = cp
      <4>1. status = "Success"
        BY <1>5, <1>8, <2>3, <3>2
      <4>2. LiveLinks(cur.progs[cp], linkProg)
        BY <1>3, <1>12, <4>1 DEF LiveLinks
      <4>3. QED
        BY <1>2, <1>5, <1>8, <3>2, <4>2 DEF LiveLinks
    <3>3. QED
      BY <3>1, <3>2
  <2>4. QED
    BY <1>1, <1>7, <1>12, <2>1, <2>2, <2>3 DEF Walked, LiveLinks, LiveLink
<1>14. WalkOK' /\ WriteTrue'
  BY <1>1, <1>12, <1>13 DEF WalkOK, WriteTrue
<1>15. QED
  BY <1>11, <1>14 DEF ReportInv

(***************************************************************************)
(* The end of a visit.                                                     *)
(***************************************************************************)
\* checkProgramStatus: what the walk ends with is true.
LEMMA FinalTruth ==
  ASSUME ContractInv, ObjectInv, RecordsInv, ReportInv, VisitOver
  PROVE  /\ FinalState.progs = cur.progs /\ FinalState.cond # ""
         /\ Claims(FinalState) => Live(FinalState, loaded, linkProg)
<1>1. WalkOK /\ DataInv /\ pc = "programs" /\ pc \in AtState /\ ptodo = {} /\ listChanged = FALSE
  BY DEF ReportInv, ContractInv, VisitOver, AtState, WalkOK
<1>2. cur \in StateObj
  BY <1>1, VisitFacts
<1>3. /\ FinalState.progs = cur.progs /\ FinalState.load = cur.load
      /\ FinalState.cond = Condition(checkProgramStatus(cur))
  BY <1>1, <1>2 DEF FinalState, StateObj
<1>4. FinalState.cond # ""
  BY <1>3 DEF Condition, checkProgramStatus
<1>5. ASSUME Claims(FinalState) PROVE Live(FinalState, loaded, linkProg)
  <2>1. cur.load = "LoadSuccess" /\ checkProgramStatus(cur) = "Success"
    BY <1>3, <1>5 DEF Claims, Condition
  <2>2. \A p \in Recorded(cur) : cur.progs[p].attach = "Success"
    BY <2>1 DEF checkProgramStatus
  <2>3. Walked
    BY <1>1, <2>1 DEF WalkOK
  <2>4. \A p \in Recorded(cur) : cur.progs[p].id \in loaded /\ LiveLinks(cur.progs[p], linkProg)
    BY <1>1, <2>2, <2>3 DEF Walked, isLoaded
  <2>5. Live(cur, loaded, linkProg)
    BY <2>4 DEF Live
  <2>6. QED
    BY <1>3, <2>5, SameLive
<1>6. QED
  BY <1>3, <1>4, <1>5

\* Reconcile() is done with an object, and what that reports is true.
LEMMA LeaveTruth ==
  ASSUME ReportInv, UNCHANGED <<st, stCache, daemonVars>>, pc' \notin AtState,
         \A s \in StateIds : Visiting(s) /\ st[s] # None /\ Claims(st[s]) => Live(st[s], loaded, linkProg)
  PROVE  ReportInv'
<1>1. UNCHANGED <<loaded, linkProg>>
  BY DEF daemonVars
<1>2. DistinctLinks'
  <2>1. \A s \in StateIds : Copies(s)' \subseteq Copies(s)
    BY DEF Copies
  <2>2. QED
    BY <2>1, DistinctFollows DEF ReportInv
<1>3. WalkOK' /\ WriteTrue'
  BY DEF WalkOK, WriteTrue, AtState
<1>4. RestTrue'
  <2>1. SUFFICES ASSUME NEW s \in StateIds, st[s] # None, Claims(st[s])
                 PROVE  (~Busy(st[s]) => Recorded(st[s]) = {}) /\ Live(st[s], loaded, linkProg)
    BY <1>1 DEF RestTrue, Live, LiveLinks, LiveLink, Recorded, Busy, Claims
  <2>2. QED
    BY <2>1 DEF ReportInv, RestTrue
<1>5. QED
  BY <1>2, <1>3, <1>4 DEF ReportInv

\* An object that records no program id has nothing to be wrong about.
LEMMA IdleIsTrue ==
  ASSUME DataInv, VisitOK, RestTrue, pc \in AtState \ {"waitStatus"}, ~Busy(orig), st[cs] # None, Claims(st[cs])
  PROVE  Live(st[cs], loaded, linkProg)
<1>1. cs \in StateIds /\ st[cs].progs = orig.progs
  BY VisitFacts DEF VisitOK
<1>2. ~Busy(st[cs])
  BY <1>1, SameRecords
<1>3. Recorded(st[cs]) = {}
  BY <1>1, <1>2 DEF RestTrue
<1>4. QED
  BY <1>3 DEF Live

LEMMA EndTruth ==
  ASSUME ContractInv, ObjectInv, RecordsInv, CurrentInv, ReportInv, EndStep
  PROVE  ReportInv'
<1>1. DataInv /\ VisitOK /\ RestTrue /\ VisitOver /\ pc = "programs" /\ pc \in AtState \ {"waitStatus"}
  BY DEF ContractInv, ObjectInv, ReportInv, EndStep, StatusChanged, StatusUnchanged, VisitOver, AtState
<1>2. /\ FinalState.progs = cur.progs /\ FinalState.cond # ""
      /\ Claims(FinalState) => Live(FinalState, loaded, linkProg)
  BY <1>1, FinalTruth
<1>3. CASE StatusChanged
  <2>1. UNCHANGED <<st, stCache, cs, daemonVars>> /\ pc' = "write" /\ cur' = FinalState
    BY <1>3 DEF StatusChanged
  <2>2. DistinctLinks' /\ RestTrue'
    BY <1>1, <1>2, <2>1, SteadyTruth DEF AtState
  <2>3. Claims(cur') => Live(cur', loaded', linkProg')
    BY <1>2, <2>1 DEF daemonVars
  <2>4. WriteTrue'
    BY <1>2, <2>1, <2>3 DEF WriteTrue, Claims, Live, LiveLinks, LiveLink, Recorded
  <2>5. WalkOK'
    BY <2>1 DEF WalkOK
  <2>6. QED
    BY <2>2, <2>4, <2>5 DEF ReportInv
<1>4. CASE StatusUnchanged /\ ReadyToRelease
  <2>1. UNCHANGED <<st, stCache, cs, cur, daemonVars>> /\ pc' = "finalizer"
    BY <1>4 DEF StatusUnchanged, appVars
  <2>2. DistinctLinks' /\ RestTrue'
    BY <1>1, <2>1, SteadyTruth DEF AtState
  <2>3. WriteTrue' /\ WalkOK'
    BY <2>1 DEF WriteTrue, WalkOK
  <2>4. QED
    BY <2>2, <2>3 DEF ReportInv
<1>5. CASE StatusUnchanged /\ ~ReadyToRelease
  <2>1. UNCHANGED <<st, stCache, daemonVars>> /\ pc' = "next" /\ FinalState = orig
    BY <1>5 DEF StatusUnchanged
  <2>2. st[cs] # None /\ Claims(st[cs]) => Live(st[cs], loaded, linkProg)
    <3>1. CASE Busy(orig)
      BY <1>1, <1>2, <2>1, <3>1 DEF CurrentInv, BaseCurrent
    <3>2. CASE ~Busy(orig)
      BY <1>1, <3>2, IdleIsTrue
    <3>3. QED
      BY <3>1, <3>2
  <2>3. QED
    BY <2>1, <2>2, LeaveTruth DEF Visiting, AtState
<1>6. QED
  BY <1>3, <1>4, <1>5 DEF EndStep

(***************************************************************************)
(* Creating, writing, and the surroundings.                                *)
(***************************************************************************)
\* Neither bpfman nor the reconcile is involved; objects keep their programs
\* and what they report.
LEMMA AsideTruth ==
  ASSUME ReportInv, UNCHANGED <<daemonVars, agentVars>>,
         \A s \in StateIds : /\ st'[s] # None => st[s] # None /\ st'[s].progs = st[s].progs
                                              /\ st'[s].cond = st[s].cond /\ st'[s].load = st[s].load
                             /\ stCache'[s] # None => stCache'[s] \in {st[s], stCache[s]}
  PROVE  ReportInv'
<1>1. /\ UNCHANGED <<loaded, linkProg>>
      /\ UNCHANGED <<pc, list, ca, cs, cur, listChanged, ptodo, cp, ltodo>>
  BY DEF daemonVars, agentVars, loopVars, appVars, progVars
<1>2. DistinctLinks'
  <2>1. \A s \in StateIds : \A o \in Copies(s)' : \E u \in Copies(s) : o.progs = u.progs
    BY <1>1 DEF Copies
  <2>2. QED
    BY <2>1, DistinctFollows DEF ReportInv
<1>3. WalkOK'
  <2>1. WalkOK
    BY DEF ReportInv
  <2>2. Walked' <=> Walked
    BY <1>1 DEF Walked, LiveLinks, LiveLink, isLoaded, isAttachSuccess, Recorded
  <2>3. QED
    BY <1>1, <2>1, <2>2, Zenon DEF WalkOK
<1>4. WriteTrue'
  BY <1>1 DEF ReportInv, WriteTrue, Claims, Live, LiveLinks, LiveLink, Recorded
<1>5. RestTrue'
  <2>1. SUFFICES ASSUME NEW s \in StateIds, st'[s] # None, Claims(st'[s])
                 PROVE  /\ ~Busy(st'[s]) => Recorded(st'[s]) = {}
                        /\ ~Visiting(s) => Live(st'[s], loaded, linkProg)
    BY <1>1 DEF RestTrue, Visiting, Live, LiveLinks, LiveLink, Recorded, Busy, Claims
  <2>2. st[s] # None /\ Claims(st[s]) /\ st'[s].progs = st[s].progs
    BY <2>1 DEF Claims
  <2>3. (Busy(st'[s]) <=> Busy(st[s])) /\ Recorded(st'[s]) = Recorded(st[s])
    BY <2>2, SameRecords
  <2>4. QED
    BY <2>2, <2>3, SameLive DEF ReportInv, RestTrue
<1>6. QED
  BY <1>2, <1>3, <1>4, <1>5 DEF ReportInv

LEMMA LoopTruth ==
  ASSUME ReportInv, LoopStep
  PROVE  ReportInv'
<1>1. CASE ReconcileStart \/ ReconcileDone
           \/ (\E a \in Apps : SkipDeletedApp(a) \/ DuplicateState(a) \/ NeedState(a))
  <2>1. /\ UNCHANGED <<st, stCache, daemonVars>> /\ pc \in {"idle", "next"}
        /\ pc' \in {"idle", "next", "create"}
    BY <1>1 DEF ReconcileStart, ReconcileDone, SkipDeletedApp, DuplicateState, NeedState, Return,
                ReturnAndRequeue, ReturnLocals
  <2>2. QED
    BY <2>1, LeaveTruth DEF AtState, Visiting
<1>2. ASSUME NEW a \in Apps, NEW s \in StateIds, BeginApp(a, s) PROVE ReportInv'
  <2>1. /\ UNCHANGED <<st, stCache, loaded, linkProg>> /\ pc = "next" /\ pc' = "load" /\ cs' = s
        /\ cur' = stCache[s] /\ stCache[s] # None
    BY <1>2 DEF BeginApp, daemonVars, getBpfAppState
  <2>2. \A t \in StateIds : Copies(t)' = Copies(t)
    BY <2>1 DEF Copies, AtState
  <2>3. DistinctLinks'
    BY <2>2, DistinctFollows DEF ReportInv
  <2>4. WalkOK' /\ WriteTrue'
    BY <2>1 DEF WalkOK, WriteTrue
  <2>5. RestTrue'
    BY <2>1 DEF ReportInv, RestTrue, Visiting, AtState, Live, LiveLinks, LiveLink, Recorded, Busy, Claims
  <2>6. QED
    BY <2>3, <2>4, <2>5 DEF ReportInv
<1>3. QED
  BY <1>1, <1>2 DEF LoopStep

\* One object is written or released; what it says now is true.
LEMMA PutTruth ==
  ASSUME DataInv, ReportInv, UNCHANGED <<stCache, daemonVars>>, NEW s \in StateIds, NEW n,
         st' = [st EXCEPT ![s] = n],
         n # None => \E u \in Copies(s) : n.progs = u.progs,
         n # None /\ Claims(n) => Live(n, loaded, linkProg),
         \A t \in StateIds : Visiting(t) => t = s,
         pc' \notin AtState \/ (pc' = "waitStatus" /\ cs' = s /\ cur' = n)
  PROVE  ReportInv'
<1>1. /\ UNCHANGED <<loaded, linkProg>> /\ st'[s] = n /\ \A t \in StateIds \ {s} : st'[t] = st[t]
      /\ None \notin loaded
  BY BpfAgentAssumption DEF daemonVars, DataInv, StateTypeOK, DaemonTypeOK
<1>2. DistinctLinks'
  <2>1. ASSUME NEW t \in StateIds, NEW o \in Copies(t)' PROVE \E u \in Copies(t) : o.progs = u.progs
    <3>1. o = st'[t] \/ o = stCache[t] \/ (t = s /\ o = n)
      BY <2>1 DEF Copies
    <3>2. o # None
      BY <2>1 DEF Copies
    <3>3. CASE t = s /\ o = n
      BY <3>2, <3>3
    <3>4. CASE o \in {st[t], stCache[t]}
      BY <3>2, <3>4 DEF Copies
    <3>5. QED
      BY <1>1, <3>1, <3>3, <3>4
  <2>2. QED
    BY <2>1, DistinctFollows DEF ReportInv
<1>3. WalkOK' /\ WriteTrue'
  BY DEF WalkOK, WriteTrue, AtState
<1>4. RestTrue'
  <2>1. SUFFICES ASSUME NEW t \in StateIds, st'[t] # None, Claims(st'[t])
                 PROVE  (~Busy(st'[t]) => Recorded(st'[t]) = {}) /\ Live(st'[t], loaded, linkProg)
    BY <1>1 DEF RestTrue, Live, LiveLinks, LiveLink, Recorded, Busy, Claims
  <2>2. CASE t # s
    BY <1>1, <2>1, <2>2 DEF ReportInv, RestTrue
  <2>3. CASE t = s
    <3>1. Live(n, loaded, linkProg)
      BY <1>1, <2>1, <2>3
    <3>2. ~Busy(n) => Recorded(n) = {}
      BY <1>1, <3>1 DEF Live, Busy
    <3>3. QED
      BY <1>1, <2>3, <3>1, <3>2
  <2>4. QED
    BY <2>2, <2>3
<1>5. QED
  BY <1>2, <1>3, <1>4 DEF ReportInv

LEMMA WriteTruth ==
  ASSUME Separating \cap Faults = {}, ContractInv, ObjectInv, RecordsInv, CurrentInv, ReportInv, WriteStep
  PROVE  ReportInv'
<1>1. DataInv /\ VisitOK /\ RestTrue /\ "write" \notin Faults /\ "timeout" \notin Faults
  BY DEF ContractInv, ObjectInv, ReportInv, Separating
<1>2. /\ ~createInitialBpfAppStateFails /\ ~waitForBpfAppStateSpecUpdateTimesOut
      /\ ~waitForBpfAppStateStatusUpdateTimesOut
  BY <1>1 DEF createInitialBpfAppStateFails, waitForBpfAppStateSpecUpdateTimesOut,
              waitForBpfAppStateStatusUpdateTimesOut, Fault
<1>3. CASE createInitialBpfAppState
  <2>1. UNCHANGED <<stCache, loaded, linkProg>> /\ pc = "create" /\ pc' = "waitSpec"
    BY <1>3 DEF createInitialBpfAppState, daemonVars
  <2>2. PICK s \in StateIds : st' = [st EXCEPT ![s] = initBpfAppState(ca)]
    BY <1>3 DEF createInitialBpfAppState
  <2>3. /\ st'[s].progs = NoProgs /\ st'[s].cond = "NoCond" /\ \A t \in StateIds \ {s} : st'[t] = st[t]
    BY <1>1, <2>2 DEF DataInv, StateTypeOK, initBpfAppState
  <2>4. Blank(st'[s])
    BY <2>3 DEF Blank, Recorded, NoProgs
  <2>5. \A t \in StateIds : \A o \in Copies(t)' : Blank(o) \/ o \in Copies(t)
    BY <2>1, <2>3, <2>4 DEF Copies, AtState
  <2>6. DistinctLinks'
    BY <2>5, DistinctFollows DEF ReportInv
  <2>7. WalkOK' /\ WriteTrue'
    BY <2>1 DEF WalkOK, WriteTrue
  <2>8. RestTrue'
    <3>1. SUFFICES ASSUME NEW t \in StateIds, st'[t] # None, Claims(st'[t])
                   PROVE  (~Busy(st'[t]) => Recorded(st'[t]) = {}) /\ Live(st'[t], loaded, linkProg)
      BY <2>1 DEF RestTrue, Live, LiveLinks, LiveLink, Recorded, Busy, Claims
    <3>2. t # s
      BY <2>3, <3>1 DEF Claims
    <3>3. QED
      BY <1>1, <2>1, <2>3, <3>1, <3>2 DEF RestTrue, Visiting, AtState
  <2>9. QED
    BY <2>6, <2>7, <2>8 DEF ReportInv
<1>4. ASSUME NEW s \in StateIds, waitForBpfAppStateSpecUpdate(s) PROVE ReportInv'
  <2>1. UNCHANGED <<st, stCache, loaded, linkProg>> /\ pc = "waitSpec" /\ pc' = "write" /\ cs' = s
    BY <1>4 DEF waitForBpfAppStateSpecUpdate, daemonVars
  <2>2. Blank(cur') /\ cur'.cond = "Pending"
    BY <1>1, <1>4, FirstStatusBlank DEF ObjectInv
  <2>3. \A t \in StateIds : \A o \in Copies(t)' : Blank(o) \/ o \in Copies(t)
    BY <2>1, <2>2 DEF Copies, AtState
  <2>4. DistinctLinks'
    BY <2>3, DistinctFollows DEF ReportInv
  <2>5. WalkOK' /\ WriteTrue'
    BY <2>1, <2>2 DEF WalkOK, WriteTrue, Claims
  <2>6. RestTrue'
    BY <2>1 DEF ReportInv, RestTrue, Visiting, AtState, Live, LiveLinks, LiveLink, Recorded, Busy, Claims
  <2>7. QED
    BY <2>4, <2>5, <2>6 DEF ReportInv
<1>5. ASSUME NEW s \in StateIds, waitForBpfAppStateStatusUpdate(s) PROVE ReportInv'
  <2>1. UNCHANGED <<st, stCache, daemonVars>> /\ pc = "waitStatus" /\ pc' = "idle"
    BY <1>5 DEF waitForBpfAppStateStatusUpdate, Return, ReturnLocals
  <2>2. QED
    BY <2>1, LeaveTruth DEF Visiting, AtState
<1>6. CASE updateBpfAppStateStatusFails
  <2>1. /\ UNCHANGED <<st, stCache, daemonVars>> /\ pc = "write" /\ pc \in AtState /\ pc' = "idle"
        /\ st[cs] # orig \/ cur.cond = ""
    BY <1>1, <1>6 DEF updateBpfAppStateStatusFails, ReturnAndRequeue, ReturnLocals, Accepted, Fault, AtState
  <2>2. ~Busy(orig)
    BY <2>1 DEF ReportInv, WriteTrue, CurrentInv, BaseCurrent
  <2>3. QED
    BY <1>1, <2>1, <2>2, IdleIsTrue, LeaveTruth DEF Visiting, AtState
<1>7. CASE removeFinalizerFails
  <2>1. UNCHANGED <<st, stCache, daemonVars>> /\ pc = "finalizer" /\ pc \in AtState /\ pc' = "idle"
    BY <1>7 DEF removeFinalizerFails, Return, ReturnLocals, AtState
  <2>2. ~Busy(orig)
    BY <2>1 DEF ContractInv, ReleaseOK
  <2>3. QED
    BY <1>1, <2>1, <2>2, IdleIsTrue, LeaveTruth DEF Visiting, AtState
<1>8. CASE removeFinalizer
  <2>1. /\ pc = "finalizer" /\ pc \in AtState /\ pc' = "idle" /\ st[cs] = orig /\ UNCHANGED <<stCache, daemonVars>>
        /\ st' = [st EXCEPT ![cs] = IF orig.deleting THEN None ELSE [orig EXCEPT !.finalizer = FALSE]]
    BY <1>8 DEF removeFinalizer, Return, ReturnLocals, AtState
  <2>2. cs \in StateIds /\ orig \in StateObj /\ orig # None /\ ~Busy(orig) /\ orig \in Copies(cs)
    BY <1>1, <2>1, VisitFacts, NoneAssumption DEF ContractInv, ReleaseOK, Copies
  <2> DEFINE o == [orig EXCEPT !.finalizer = FALSE]
  <2>3. o.progs = orig.progs /\ o.cond = orig.cond /\ o.load = orig.load
    BY <2>2 DEF StateObj
  <2>4. st' = [st EXCEPT ![cs] = IF orig.deleting THEN None ELSE o]
    BY <2>1
  <2> HIDE DEF o
  <2>5. PICK n : st' = [st EXCEPT ![cs] = n] /\ (n # None => n = o)
    BY <2>4
  <2>6. Claims(o) => Live(o, loaded, linkProg)
    <3>1. Claims(o) => Claims(orig)
      BY <2>3 DEF Claims
    <3>2. Claims(orig) => Live(orig, loaded, linkProg)
      BY <1>1, <2>1, <2>2, IdleIsTrue
    <3>3. QED
      BY <2>3, <3>1, <3>2, SameLive
  <2>7. n # None => \E u \in Copies(cs) : n.progs = u.progs
    BY <2>2, <2>3, <2>5
  <2>8. n # None /\ Claims(n) => Live(n, loaded, linkProg)
    BY <2>5, <2>6
  <2>9. (\A t \in StateIds : Visiting(t) => t = cs) /\ pc' \notin AtState
    BY <2>1 DEF Visiting, AtState
  <2>10. QED
    BY <1>1, <2>1, <2>2, <2>5, <2>7, <2>8, <2>9, PutTruth, Zenon
<1>9. CASE updateBpfAppStateStatus
  <2>1. /\ UNCHANGED <<stCache, daemonVars, cs>> /\ pc = "write" /\ pc' = "waitStatus"
        /\ cur' = [cur EXCEPT !.count = @ + 1] /\ st' = [st EXCEPT ![cs] = cur'] /\ pc \in AtState
    BY <1>9 DEF updateBpfAppStateStatus, AtState
  <2>2. cs \in StateIds /\ cur \in StateObj /\ cur # None /\ cur \in Copies(cs)
    BY <1>1, <2>1, VisitFacts, NoneAssumption DEF Copies
  <2>3. cur'.progs = cur.progs /\ cur'.cond = cur.cond /\ cur'.load = cur.load
    BY <2>1, <2>2 DEF StateObj
  <2>4. Claims(cur') => Live(cur', loaded, linkProg)
    <3>1. Claims(cur) => Live(cur, loaded, linkProg)
      BY <2>1 DEF ReportInv, WriteTrue
    <3>2. QED
      BY <2>3, <3>1, SameLive DEF Claims
  <2>5. QED
    BY <1>1, <2>1, <2>2, <2>3, <2>4, PutTruth DEF Visiting
<1>10. CASE initBpfAppStateStatusFails
  <2>1. UNCHANGED <<st, stCache, daemonVars>> /\ pc = "waitSpec" /\ pc' = "idle"
    BY <1>10 DEF initBpfAppStateStatusFails, ReturnAndRequeue, ReturnLocals
  <2>2. QED
    BY <2>1, LeaveTruth DEF Visiting, AtState
<1>11. QED
  BY <1>2, <1>3, <1>4, <1>5, <1>6, <1>7, <1>8, <1>9, <1>10 DEF WriteStep

LEMMA AroundTruth ==
  ASSUME Separating \cap Faults = {}, DataInv, ReportInv, ClusterStep \/ EnvironmentStep \/ UNCHANGED vars
  PROVE  ReportInv'
<1>1. ~Crash /\ \A i \in ProgIds : ~ProgramLost(i)
  BY DEF Separating, Crash, ProgramLost, Fault
<1>2. UNCHANGED <<daemonVars, agentVars>>
  BY <1>1 DEF ClusterStep, SyncState, GarbageCollect, OperatorRelease, EnvironmentStep, Resync, UserCreate, Twice, Selectors,
              UserDelete, UserEdit, RelabelNode, PointChanges, vars, agentVars
<1>3. CASE UNCHANGED <<st, stCache>>
  BY <1>2, <1>3, AsideTruth
<1>4. ASSUME NEW s \in StateIds, SyncState(s) PROVE ReportInv'
  <2>1. UNCHANGED st /\ stCache'[s] = st[s] /\ \A t \in StateIds \ {s} : stCache'[t] = stCache[t]
    BY <1>4 DEF SyncState, DataInv, StateTypeOK
  <2>2. QED
    BY <1>2, <2>1, AsideTruth
<1>5. ASSUME NEW s \in StateIds, GarbageCollect(s) PROVE ReportInv'
  <2>1. /\ UNCHANGED stCache /\ st[s] # None /\ st[s] \in StateObj
        /\ st' = [st EXCEPT ![s] = IF st[s].finalizer THEN [st[s] EXCEPT !.deleting = TRUE] ELSE None]
    BY <1>5 DEF GarbageCollect, DataInv, StateTypeOK
  <2> DEFINE o == [st[s] EXCEPT !.deleting = TRUE]
  <2>2. o.progs = st[s].progs /\ o.cond = st[s].cond /\ o.load = st[s].load
    BY <2>1 DEF StateObj
  <2>3. st' = [st EXCEPT ![s] = IF st[s].finalizer THEN o ELSE None]
    BY <2>1
  <2> HIDE DEF o
  <2>4. st'[s] \in {o, None} /\ \A t \in StateIds \ {s} : st'[t] = st[t]
    BY <2>3 DEF DataInv, StateTypeOK
  <2>5. QED
    BY <1>2, <2>1, <2>2, <2>4, AsideTruth
<1>6. QED
  BY <1>1, <1>3, <1>4, <1>5
     DEF ClusterStep, OperatorRelease, EnvironmentStep, Resync, UserCreate, Twice, Selectors, UserDelete, UserEdit, RelabelNode,
         PointChanges, vars

(***************************************************************************)
(* The theorem.                                                            *)
(***************************************************************************)
TruthInv == AllSelected /\ CurrentInv /\ ReportInv

LEMMA InitTruth == Init => TruthInv
<1>1. SUFFICES ASSUME Init PROVE TruthInv
  OBVIOUS
<1>2. AllSelected /\ CurrentInv
  BY <1>1 DEF Init, AllSelected, CurrentInv, BusyOwned, CacheCurrent, BaseCurrent, AtState
<1>3. \A s \in StateIds : Copies(s) = {}
  BY <1>1 DEF Init, Copies, AtState
<1>4. ReportInv
  BY <1>1, <1>3 DEF Init, ReportInv, DistinctLinks, WalkOK, WriteTrue, RestTrue
<1>5. QED
  BY <1>2, <1>4 DEF TruthInv

LEMMA TruthInductive ==
  ASSUME Misleading \cap Faults = {}, ContractInv, ObjectInv, RecordsInv, TruthInv, [Next]_vars
  PROVE  TruthInv'
<1>1. /\ Separating \cap Faults = {} /\ "select" \notin Faults /\ DataInv
      /\ AllSelected /\ CurrentInv /\ ReportInv
  BY DEF Misleading, ContractInv, TruthInv
<1>2. AllSelected'
  BY <1>1, SelectedInductive
<1>3. CASE LoopStep
  BY <1>1, <1>2, <1>3, LoopCurrent, LoopTruth DEF TruthInv
<1>4. CASE WriteStep
  BY <1>1, <1>2, <1>4, WriteCurrent, WriteTruth DEF TruthInv
<1>5. CASE LoadStep
  <2>1. ReportInv'
    BY <1>1, <1>5, LoadEndsTruth, UnloadTruth, LoadTruth DEF LoadStep
  <2>2. QED
    BY <1>1, <1>2, <1>5, <2>1, VisitCurrent DEF TruthInv
<1>6. CASE LinkStep
  <2>1. ReportInv'
    BY <1>1, <1>6, NoSurprise, UpdateLinksTruth, LinkTruth, LinksDoneTruth DEF LinkStep
  <2>2. QED
    BY <1>1, <1>2, <1>6, <2>1, VisitCurrent DEF TruthInv
<1>7. CASE EndStep
  BY <1>1, <1>2, <1>7, VisitCurrent, EndTruth DEF TruthInv
<1>8. CASE ClusterStep \/ EnvironmentStep \/ UNCHANGED vars
  BY <1>1, <1>2, <1>8, AroundCurrent, AroundTruth DEF TruthInv
<1>9. QED
  BY <1>3, <1>4, <1>5, <1>6, <1>7, <1>8, NextKinds

LEMMA TruthHolds == TruthInv => SuccessIsTrue
<1>1. SUFFICES ASSUME TruthInv, NEW s \in StateIds, pc = "idle", st[s] # None, Claims(st[s])
               PROVE  Live(st[s], loaded, linkProg)
  BY DEF SuccessIsTrue, Claims, Live, LiveLinks, LiveLink
<1>2. QED
  BY <1>1 DEF TruthInv, ReportInv, RestTrue, Visiting, AtState

\* For any number of applications, programs and points: while none of the
\* misleading failures happens, a state object that reports Success and
\* LoadSuccess between reconciles names programs that are loaded and links that
\* are attached (reconcileLoad, reconcileBpfLink, updateProgramAttachStatus,
\* checkProgramStatus, updateBpfAppStateStatus).
THEOREM SuccessReportedTruly ==
  ASSUME Misleading \cap Faults = {}
  PROVE  Spec => []SuccessIsTrue
<1>1. Separating \cap Faults = {}
  BY DEF Misleading
<1>2. Init => TruthInv
  BY InitTruth
<1>3. ContractInv /\ ObjectInv /\ RecordsInv /\ TruthInv /\ [Next]_vars => TruthInv'
  BY TruthInductive
<1>4. TruthInv => SuccessIsTrue
  BY TruthHolds
<1>5. Spec => [](ContractInv /\ ObjectInv /\ RecordsInv)
  BY <1>1, RecordsHold
<1>6. QED
  BY <1>2, <1>3, <1>4, <1>5, PTL DEF Spec

(***************************************************************************)
(* The program list is never called changed before a user changed it,      *)
(* unless it lists a function twice.                                       *)
(***************************************************************************)
Gone(a) == app[a] = None \/ app[a].deleting

\* The application lists a function twice, where anyone still sees it.
Repeats(a) ==
  /\ app[a] # None => app[a].twice # {}
  /\ list[a] # None => list[a].twice # {}

\* The object lists the programs of its application, or that one is leaving or
\* has never had a list to derive a status from.
Agrees(o, a) ==
  \/ Leaving(a) \/ Repeats(a)
  \/ /\ app[a] # None => app[a].progs = Recorded(o)
     /\ list[a] # None => list[a].progs = Recorded(o)

\* The list is called changed for its repetition only.
Justified(o, a) == o.load = "ProgramListChangedError" => Repeats(a)

\* A status written before the first edit.
Listed(o) == Justified(o, o.app) /\ (o.cond # "NoCond" => Agrees(o, o.app))

\* An object without a status is about to get its first, or the application
\* will not need it.
Expected(s, o) ==
  o.cond = "NoCond" => \/ Leaving(o.app) \/ Repeats(o.app)
                       \/ pc = "waitSpec" /\ ca = o.app
                       \/ pc = "write" /\ s = cs /\ cur.cond = "Pending"

\* The first status is refused only when the owner has gone.
FirstAccepted == pc = "write" /\ cur.cond = "Pending" => st[cs] = orig \/ Gone(ca)

\* The reconcile's copy of an application lists what the application lists.
SameList ==
  \A a \in Apps : list[a] # None /\ app[a] # None =>
    list[a].progs = app[a].progs /\ list[a].twice = app[a].twice

ListInv ==
  edits = 0 =>
    /\ \A s \in StateIds : st[s] # None => Listed(st[s]) /\ Expected(s, st[s])
    /\ \A s \in StateIds : stCache[s] # None =>
         Listed(stCache[s]) /\ (Expected(s, stCache[s]) \/ Behind(s))
    /\ pc \in AtState => Justified(cur, ca) /\ Agrees(cur, ca)
    /\ SameList
    /\ FirstAccepted

LEMMA AgreesStays ==
  ASSUME NEW a \in Apps, NEW o, Agrees(o, a), UNCHANGED app, list' = list \/ list' = NoApps \/ list' = app
  PROVE  Agrees(o, a)'
BY DEF Agrees, Repeats, Leaving, NoApps, Recorded

LEMMA RepeatsStays ==
  ASSUME NEW a \in Apps, Repeats(a), UNCHANGED app, list' = list \/ list' = NoApps \/ list' = app
  PROVE  Repeats(a)'
BY DEF Repeats, NoApps

\* The entries of an object stay the same programs throughout a visit, and only
\* validateProgramList calls the list changed.
LEMMA VisitListing ==
  ASSUME Separating \cap Faults = {}, DataInv, DaemonOK, RecordsSound, LoadStep \/ LinkStep \/ EndStep,
         pc' \in AtState
  PROVE  /\ Recorded(cur') = Recorded(cur)
         /\ cur'.load = cur.load \/ cur'.load # "ProgramListChangedError" \/ ProgramListInvalid
<1>1. cur \in StateObj /\ orig \in StateObj
  BY VisitEffect, VisitFacts
<1>2. CASE BeginUnload \/ (\E p \in Progs : ProgramStateMissing(p))
  BY <1>2 DEF BeginUnload, ProgramStateMissing, appVars
<1>3. CASE UnloadDone \/ AlreadyLoaded \/ NodeSelectorInvalid \/ ProgramListInvalid \/ loadFails
  BY <1>1, <1>3 DEF UnloadDone, AlreadyLoaded, ProgramListInvalid, NodeSelectorInvalid, loadFails, LoadError, StateObj, Recorded
<1>4. CASE load
  <2>1. PICK f \in FreshIds(Recorded(cur)) : cur' = WithIds(cur, f)
    BY <1>4 DEF load
  <2>2. f \in [Recorded(cur) -> ProgIds]
    BY <2>1 DEF FreshIds, DataInv, DaemonTypeOK
  <2>3. ASSUME NEW p \in Recorded(cur) PROVE [cur.progs[p] EXCEPT !.id = f[p]] # None
    BY <1>1, <2>2, NoneAssumption DEF StateObj, ProgState, Recorded
  <2>4. QED
    BY <1>1, <2>1, <2>3 DEF WithIds, StateObj, Recorded
<1>5. ASSUME NEW p \in Progs, unload(p)
      PROVE  Recorded(cur') = Recorded(cur) /\ cur'.load = cur.load
  <2>1. cur.progs[p] \in ProgState
    BY <1>1, <1>5 DEF unload, DataInv, ControlOK, Recorded, StateObj
  <2>2. UnloadedProg(cur.progs[p]) # None
    BY <2>1, UnloadedProgType, NoneAssumption
  <2>3. cur' = [cur EXCEPT !.progs[p] = UnloadedProg(cur.progs[p])]
    BY <1>1, <1>5 DEF unload, StateObj
  <2>4. QED
    BY <1>1, <2>1, <2>2, <2>3, NoneAssumption DEF StateObj, Recorded
<1>6. ASSUME NEW p \in Progs, updateLinks(p) \/ updateLinksFails(p)
      PROVE  Recorded(cur') = Recorded(cur) /\ cur'.load = cur.load
  <2>1. PICK ps \in ProgState : cur'.progs = [cur.progs EXCEPT ![p] = ps] /\ cur'.load = cur.load
    BY <1>6, UpdateLinksEffect
  <2>2. cur.progs[p] # None
    BY <1>6 DEF updateLinks, updateLinksFails, HasProgState
  <2>3. QED
    BY <1>1, <2>1, <2>2, EntryRecords
<1>7. ASSUME NEW x \in Points, \/ LinkInPlace(x) \/ LinkAttach(x) \/ LinkAttachFails(x)
                               \/ LinkDetach(x) \/ LinkDetachFails(x) \/ LinkDrop(x)
      PROVE  Recorded(cur') = Recorded(cur) /\ cur'.load = cur.load
  <2>1. PICK ps \in ProgState : cur'.progs = [cur.progs EXCEPT ![cp] = ps] /\ cur'.load = cur.load
    BY <1>7, LinkEffect
  <2>2. AtLink(x)
    BY <1>7 DEF LinkInPlace, LinkAttach, LinkAttachFails, LinkDetach, BpfmanDetach, LinkDetachFails, LinkDrop
  <2>3. cp \in Progs /\ cur.progs[cp] # None
    BY <2>2 DEF AtLink, DataInv, ControlOK
  <2>4. QED
    BY <1>1, <2>1, <2>3, EntryRecords
<1>8. ASSUME NEW x \in Points, LinkPanic(x) PROVE FALSE
  BY <1>8 DEF LinkPanic, ReturnAndRequeue, ReturnLocals, AtState
<1>9. CASE LinksDone
  <2> DEFINE ps == [cur.progs[cp] EXCEPT !.attach = updateProgramAttachStatus(cur.progs[cp])]
  <2>1. cp \in Progs /\ cur.progs[cp] # None /\ cur.progs[cp] \in ProgState
    BY <1>1, <1>9 DEF LinksDone, DataInv, ControlOK, StateObj
  <2>2. ps \in ProgState
    BY <2>1 DEF ProgState, updateProgramAttachStatus, ProgramLinkStatus
  <2>3. cur'.progs = [cur.progs EXCEPT ![cp] = ps] /\ cur'.load = cur.load
    BY <1>1, <1>9, <2>1 DEF LinksDone, StateObj
  <2>4. QED
    BY <1>1, <2>1, <2>2, <2>3, EntryRecords
<1>10. CASE StatusChanged
  BY <1>1, <1>10 DEF StatusChanged, FinalState, StateObj, Recorded
<1>11. CASE StatusUnchanged
  BY <1>11 DEF StatusUnchanged, AtState, appVars
<1>12. QED
  BY <1>2, <1>3, <1>4, <1>5, <1>6, <1>7, <1>8, <1>9, <1>10, <1>11 DEF LoadStep, LinkStep, EndStep

\* The reconcile leaves objects and caches alone, and is not in the middle of a
\* first write.
LEMMA AsideList ==
  ASSUME DataInv, ListInv, UNCHANGED <<edits, app, st, stCache>>, list' = list \/ list' = NoApps \/ list' = app,
         pc \notin {"waitSpec", "write", "waitStatus"} \/ UNCHANGED <<pc, ca, cs, orig, cur>>,
         edits = 0 /\ pc' \in AtState => Justified(cur, ca)' /\ Agrees(cur, ca)',
         pc' = "write" /\ cur'.cond = "Pending" => pc = "write"
  PROVE  ListInv'
<1> SUFFICES ASSUME edits = 0 PROVE ListInv'
  BY DEF ListInv
<1>1. \A a \in Apps : (Leaving(a) => Leaving(a)') /\ (Repeats(a) => Repeats(a)')
  BY LeavingStays, RepeatsStays
<1>2. \A a \in Apps : \A o : Agrees(o, a) => Agrees(o, a)'
  BY AgreesStays
<1>3. \A s \in StateIds : /\ st[s] # None => st[s].app \in Apps
                          /\ stCache[s] # None => stCache[s].app \in Apps
  BY DEF DataInv, StateTypeOK, StateObj
<1>4. \A s \in StateIds : \A o : /\ o.app \in Apps /\ Expected(s, o) => Expected(s, o)'
                                 /\ Behind(s) => Behind(s)'
  BY <1>1 DEF Expected, Behind
<1>5. \A o : o.app \in Apps /\ Listed(o) => Listed(o)'
  BY <1>1, <1>2 DEF Listed, Justified
<1>6. \A s \in StateIds : /\ st'[s] # None => Listed(st[s])' /\ Expected(s, st[s])'
                          /\ stCache'[s] # None =>
                               Listed(stCache[s])' /\ (Expected(s, stCache[s])' \/ Behind(s)')
  BY <1>3, <1>4, <1>5 DEF ListInv
<1>7. FirstAccepted'
  BY DEF ListInv, FirstAccepted, Gone
<1>8. SameList'
  BY DEF ListInv, SameList, NoApps
<1>9. QED
  BY <1>6, <1>7, <1>8 DEF ListInv

LEMMA LoopList ==
  ASSUME ContractInv, ListInv, LoopStep
  PROVE  ListInv'
<1>1. DataInv
  BY DEF ContractInv
<1>2. CASE ReconcileStart \/ ReconcileDone
           \/ (\E a \in Apps : SkipDeletedApp(a) \/ DuplicateState(a) \/ NeedState(a))
  <2>1. /\ UNCHANGED <<edits, app, st, stCache>> /\ pc \in {"idle", "next"} /\ pc' \in {"idle", "next", "create"}
        /\ list' = list \/ list' = NoApps \/ list' = app
    BY <1>2 DEF ReconcileStart, ReconcileDone, SkipDeletedApp, DuplicateState, NeedState, Return,
                ReturnAndRequeue, ReturnLocals, objVars, loopVars
  <2>2. QED
    BY <1>1, <2>1, AsideList DEF AtState
<1>3. ASSUME NEW a \in Apps, NEW s \in StateIds, BeginApp(a, s) PROVE ListInv'
  <2>1. /\ UNCHANGED <<edits, app, st, stCache, list>> /\ pc = "next" /\ pc' = "load" /\ ca' = a
        /\ cur' = stCache[s] /\ stCache[s] # None /\ stCache[s].app = a
    BY <1>3 DEF BeginApp, getBpfAppState, objVars, loopVars
  <2>2. edits = 0 => Justified(stCache[s], a) /\ Agrees(stCache[s], a)
    BY <2>1 DEF ListInv, Listed, Expected, Behind, Agrees
  <2>3. \A o : Agrees(o, a) => Agrees(o, a)'
    BY <2>1, AgreesStays
  <2>4. \A o : Justified(o, a) => Justified(o, a)'
    BY <2>1, RepeatsStays DEF Justified
  <2>5. edits = 0 => Justified(cur, ca)' /\ Agrees(cur, ca)'
    BY <2>1, <2>2, <2>3, <2>4
  <2>6. QED
    BY <1>1, <2>1, <2>5, AsideList
<1>4. QED
  BY <1>2, <1>3 DEF LoopStep

\* A visit never finds the list changed: it was read from a status, or it is not
\* compared because the application is leaving.  What it finds is a repetition.
LEMMA VisitList ==
  ASSUME Separating \cap Faults = {}, ContractInv, RecordsInv, ListInv, LoadStep \/ LinkStep \/ EndStep
  PROVE  ListInv'
<1>1. DataInv /\ DaemonOK /\ RecordsSound
  BY DEF ContractInv, RecordsInv
<1>2. /\ pc \in {"load", "unload", "programs", "links"} /\ pc \in AtState /\ UNCHANGED <<edits, app, st, stCache>>
      /\ list' = list \/ list' = NoApps
      /\ pc' \in AtState => UNCHANGED <<list, ca>>
      /\ pc' # "waitStatus"
  BY <1>1, VisitEffect, VisitMeta, VisitControl DEF objVars, loopVars, AtState
<1>3. ca \in Apps /\ list[ca] \in AppObj /\ list[ca] # None
  BY <1>1, <1>2, VisitFacts, NoneAssumption
<1>4. ASSUME edits = 0, ProgramListInvalid PROVE Repeats(ca)
  <2>1. ~list[ca].deleting /\ (Recorded(cur) # list[ca].progs \/ list[ca].twice # {})
    BY <1>4 DEF ProgramListInvalid, MustLoad, isBeingDeleted, validateProgramList
  <2>2. Agrees(cur, ca) /\ (app[ca] # None => app[ca].twice = list[ca].twice)
    BY <1>2, <1>3, <1>4 DEF ListInv, SameList
  <2>3. QED
    BY <1>3, <2>1, <2>2 DEF Agrees, Leaving, Repeats
<1>5. ASSUME edits = 0, pc' \in AtState
      PROVE  Justified(cur, ca)' /\ Agrees(cur, ca)'
  <2>1. Recorded(cur') = Recorded(cur) /\ Justified(cur', ca)
    BY <1>1, <1>2, <1>4, <1>5, VisitListing DEF ListInv, Justified
  <2>2. Agrees(cur, ca)
    BY <1>2, <1>5 DEF ListInv
  <2>3. Agrees(cur', ca)
    BY <2>1, <2>2 DEF Agrees
  <2>4. \A o : Agrees(o, ca) => Agrees(o, ca)'
    BY <1>2, <1>5
       DEF Agrees, Repeats, Leaving, Recorded
  <2>5. \A o : Justified(o, ca) => Justified(o, ca)'
    BY <1>2, <1>5 DEF Justified, Repeats
  <2>6. QED
    BY <1>2, <1>5, <2>1, <2>3, <2>4, <2>5
<1>6. pc' = "write" => cur'.cond # "Pending"
  <2>1. CASE NodeSelectorInvalid \/ ProgramListInvalid \/ loadFails
    BY <1>1, <1>2, <2>1, VisitFacts DEF ProgramListInvalid, NodeSelectorInvalid, loadFails, LoadError, StateObj
  <2>2. CASE StatusChanged
    BY <1>1, <1>2, <2>2, VisitFacts DEF StatusChanged, FinalState, Condition, checkProgramStatus, StateObj
  <2>3. QED
    BY <2>1, <2>2, VisitControl
<1>7. QED
  BY <1>1, <1>2, <1>5, <1>6, AsideList

LEMMA WriteList ==
  ASSUME Separating \cap Faults = {}, ContractInv, UniqueInv, ObjectInv, ListInv, WriteStep
  PROVE  ListInv'
<1>1. DataInv /\ "write" \notin Faults /\ "timeout" \notin Faults
  BY DEF ContractInv, Separating
<1>2. /\ ~createInitialBpfAppStateFails /\ ~waitForBpfAppStateSpecUpdateTimesOut
      /\ ~waitForBpfAppStateStatusUpdateTimesOut
  BY <1>1 DEF createInitialBpfAppStateFails, waitForBpfAppStateSpecUpdateTimesOut,
              waitForBpfAppStateStatusUpdateTimesOut, Fault
<1>3. UNCHANGED <<app, edits>> /\ (list' = list \/ list' = NoApps)
  BY <1>2 DEF WriteStep, createInitialBpfAppState, waitForBpfAppStateSpecUpdate, waitForBpfAppStateStatusUpdate,
       initBpfAppStateStatusFails, updateBpfAppStateStatus, updateBpfAppStateStatusFails, removeFinalizer, removeFinalizerFails,
       Return, ReturnAndRequeue, ReturnLocals, objVars, loopVars
<1> SUFFICES ASSUME edits = 0 PROVE ListInv'
  BY <1>3 DEF ListInv
<1>4. SameList'
  BY <1>3 DEF ListInv, SameList, NoApps
<1>5. \A a \in Apps : /\ Leaving(a) => Leaving(a)'
                      /\ Repeats(a) => Repeats(a)'
                      /\ \A o : Agrees(o, a) => Agrees(o, a)'
  BY <1>3, LeavingStays, RepeatsStays, AgreesStays
<1>6. \A o : o.app \in Apps /\ Listed(o) => Listed(o)'
  BY <1>5 DEF Listed, Justified
<1>7. \A s \in StateIds : /\ st[s] # None => st[s] \in StateObj /\ st[s].app \in Apps
                          /\ stCache[s] # None => stCache[s] \in StateObj /\ stCache[s].app \in Apps
  BY <1>1 DEF DataInv, StateTypeOK, StateObj
<1>8. CASE createInitialBpfAppState
  <2>1. UNCHANGED <<stCache, list, ca>> /\ pc = "create" /\ pc' = "waitSpec" /\ ca \in Apps
    BY <1>1, <1>8 DEF createInitialBpfAppState, loopVars, appVars, DataInv, ControlOK
  <2>2. PICK n \in StateIds : st[n] = None /\ st' = [st EXCEPT ![n] = initBpfAppState(ca)]
    BY <1>8 DEF createInitialBpfAppState
  <2>3. st'[n] = initBpfAppState(ca) /\ \A t \in StateIds \ {n} : st'[t] = st[t]
    BY <1>1, <2>2 DEF DataInv, StateTypeOK
  <2>4. st'[n].app = ca /\ st'[n].cond = "NoCond" /\ st'[n].load = ""
    <3> DEFINE o == initBpfAppState(ca)
    <3>1. o.app = ca /\ o.cond = "NoCond" /\ o.load = ""
      BY DEF initBpfAppState
    <3> HIDE DEF o
    <3>2. st'[n] = o
      BY <2>3 DEF o
    <3>3. QED
      BY <3>1, <3>2
  <2>5. \A s \in StateIds : \A o : /\ o.app \in Apps /\ Expected(s, o) => Expected(s, o)'
                                   /\ ~Behind(s)
    BY <1>5, <2>1 DEF Expected, Behind
  <2>6. Listed(st[n])' /\ Expected(n, st[n])'
    BY <2>1, <2>4 DEF Listed, Justified, Expected
  <2>7. \A s \in StateIds : /\ st'[s] # None => Listed(st[s])' /\ Expected(s, st[s])'
                            /\ stCache'[s] # None => Listed(stCache[s])' /\ Expected(s, stCache[s])'
    BY <1>6, <1>7, <2>1, <2>3, <2>5, <2>6 DEF ListInv
  <2>8. QED
    BY <1>4, <2>1, <2>7 DEF ListInv, FirstAccepted, AtState
<1>9. ASSUME NEW s \in StateIds, waitForBpfAppStateSpecUpdate(s) PROVE ListInv'
  <2>1. /\ UNCHANGED <<st, stCache, list, ca>> /\ pc = "waitSpec" /\ pc' = "write" /\ cs' = s
        /\ getBpfAppState(ca) = {s} /\ orig' = stCache[s] /\ cur' = initBpfAppStateStatus(stCache[s], list[ca])
    BY <1>9 DEF waitForBpfAppStateSpecUpdate, loopVars
  <2>12. ca \in Apps /\ list[ca] \in AppObj /\ list[ca] # None
    BY <1>1, <2>1 DEF DataInv, ControlOK, LocalTypeOK
  <2>2. stCache[s] # None /\ stCache[s].app = ca /\ stCache[s] \in StateObj
    BY <1>7, <2>1 DEF getBpfAppState
  <2>3. /\ cur'.cond = "Pending" /\ cur'.load = "NotLoaded"
        /\ cur'.progs = initializeNodeProgramList(list[ca])
    BY <2>1, <2>2 DEF initBpfAppStateStatus, StateObj
  <2>4. Recorded(cur') = list[ca].progs
    <3>1. ASSUME NEW p \in Progs
          PROVE  [id |-> None, fn |-> p \in list[ca].fn, attach |-> "Pending", links |-> NoLinks] # None
      <4>1. (p \in list[ca].fn) \in BOOLEAN
        OBVIOUS
      <4>2. [id |-> None, fn |-> p \in list[ca].fn, attach |-> "Pending", links |-> NoLinks] \in ProgState
        BY <4>1 DEF ProgState, NoLinks, ProgramLinkStatus
      <4>3. QED
        BY <4>2, NoneAssumption
    <3>2. \A p \in Progs : cur'.progs[p] # None <=> p \in list[ca].progs
      BY <2>3, <3>1, Zenon DEF initializeNodeProgramList
    <3>3. QED
      BY <2>12, <3>2 DEF Recorded, AppObj
  <2>5. Agrees(cur, ca)'
    <3>1. app[ca] # None => app[ca].progs = list[ca].progs
      BY <2>12 DEF ListInv, SameList
    <3>2. Agrees(cur', ca)
      BY <2>4, <3>1 DEF Agrees
    <3>3. Agrees(cur', ca) => Agrees(cur, ca)'
      BY <1>3, <2>1 DEF Agrees, Repeats, Leaving, Recorded
    <3>4. QED
      BY <3>2, <3>3
  <2>6. PICK n \in StateIds : WaitsFor(n)
    BY <2>1, <2>12 DEF UniqueInv, CreatedIsMissing
  <2>7. s = n /\ \A t \in StateIds : st[t] # None /\ st[t].app = ca => t = s
    BY <2>1, <2>6 DEF WaitsFor, UniqueInv, AtMostOneState
  <2>8. /\ \A t \in StateIds : st[t] # None /\ Expected(t, st[t]) => Expected(t, st[t])'
        /\ \A t \in StateIds : stCache[t] # None /\ Expected(t, stCache[t]) => Expected(t, stCache[t])'
    BY <1>5, <1>7, <2>1, <2>3, <2>7, <2>12 DEF Expected, getBpfAppState
  <2>9. \A t \in StateIds : /\ st'[t] # None => Listed(st[t])' /\ Expected(t, st[t])'
                            /\ stCache'[t] # None => Listed(stCache[t])' /\ Expected(t, stCache[t])'
    BY <1>6, <1>7, <2>1, <2>8 DEF ListInv, Behind
  <2>10. FirstAccepted'
    BY <1>3, <2>1, <2>2, <2>6, <2>7 DEF FirstAccepted, ObjectInv, CacheOK, Behind, Leaving, Newborn, Gone, WaitsFor
  <2>11. QED
    BY <1>4, <2>3, <2>5, <2>9, <2>10 DEF ListInv, Justified
<1>10. CASE updateBpfAppStateStatus
  <2>1. /\ UNCHANGED <<stCache, list, ca, cs>> /\ pc = "write" /\ pc' = "waitStatus"
        /\ cur' = [cur EXCEPT !.count = @ + 1] /\ st' = [st EXCEPT ![cs] = cur'] /\ pc \in AtState
    BY <1>10 DEF updateBpfAppStateStatus, loopVars, AtState
  <2>2. cs \in StateIds /\ cur \in StateObj /\ cur.app = ca /\ ca \in Apps /\ cur.cond # "NoCond"
    BY <1>1, <2>1, VisitFacts DEF ContractInv, SameMeta, FirstStatusOK
  <2>3. /\ cur'.progs = cur.progs /\ cur'.load = cur.load /\ cur'.cond = cur.cond /\ cur'.app = ca
        /\ cur'.count = cur.count + 1 /\ cur.count \in Nat
    BY <2>1, <2>2 DEF StateObj
  <2>4. st'[cs] = cur' /\ \A t \in StateIds \ {cs} : st'[t] = st[t]
    BY <1>1, <2>1, <2>2 DEF DataInv, StateTypeOK
  <2>5. Agrees(cur, ca)' /\ Justified(cur, ca)'
    <3>1. Agrees(cur, ca) /\ Justified(cur, ca)
      BY <2>1 DEF ListInv
    <3>2. Agrees(cur', ca) /\ Justified(cur', ca)
      BY <2>3, <3>1 DEF Agrees, Justified, Recorded
    <3>3. /\ Agrees(cur', ca) => Agrees(cur, ca)'
          /\ Justified(cur', ca) => Justified(cur, ca)'
      BY <1>3, <2>1 DEF Agrees, Justified, Repeats, Leaving, Recorded
    <3>4. QED
      BY <2>3, <3>1, <3>2, <3>3
  <2>6. \A s \in StateIds \ {cs} : \A o : o.app \in Apps /\ Expected(s, o) => Expected(s, o)'
    BY <1>5, <2>1 DEF Expected
  <2>7. stCache[cs] # None => Expected(cs, stCache[cs])' \/ Behind(cs)'
    BY <1>7, <2>1, <2>2, <2>3 DEF Expected, Behind, ObjectInv, CountsOK
  <2>8. Listed(st[cs])' /\ Expected(cs, st[cs])'
    <3>1. Agrees(st[cs], st[cs].app)' /\ Justified(st[cs], st[cs].app)'
      BY <2>1, <2>3, <2>4, <2>5
    <3>2. QED
      BY <2>1, <2>2, <2>3, <2>4, <2>5, <3>1 DEF Listed, Expected
  <2>9. \A t \in StateIds : /\ st'[t] # None => Listed(st[t])' /\ Expected(t, st[t])'
                            /\ stCache'[t] # None =>
                                 Listed(stCache[t])' /\ (Expected(t, stCache[t])' \/ Behind(t)')
    BY <1>6, <1>7, <2>1, <2>4, <2>6, <2>7, <2>8 DEF ListInv, Behind
  <2>10. QED
    BY <1>4, <2>1, <2>5, <2>9 DEF ListInv, FirstAccepted
<1>11. ASSUME NEW s \in StateIds, waitForBpfAppStateStatusUpdate(s) PROVE ListInv'
  <2>1. /\ UNCHANGED <<st, stCache>> /\ pc = "waitStatus" /\ pc' = "idle" /\ pc \in AtState
        /\ getBpfAppState(ca) = {s} /\ stCache[s].count >= cur.count
    BY <1>11 DEF waitForBpfAppStateStatusUpdate, StatusSeen, Return, ReturnLocals, AtState
  <2>2. cs \in StateIds /\ cur \in StateObj /\ (stCache[cs] # None => stCache[cs].app = ca)
    BY <1>1, <2>1, VisitFacts DEF ObjectInv, VisitOK
  <2>3. stCache[cs] # None => cs = s /\ stCache[s] \in StateObj
    BY <1>7, <2>1, <2>2 DEF getBpfAppState
  <2>4. \A t \in StateIds : stCache[t] # None => ~Behind(t)
    BY <2>1, <2>2, <2>3 DEF Behind, StateObj
  <2>5. \A t \in StateIds : \A o : o.app \in Apps /\ Expected(t, o) => Expected(t, o)'
    BY <1>5, <2>1 DEF Expected
  <2>6. \A t \in StateIds : /\ st'[t] # None => Listed(st[t])' /\ Expected(t, st[t])'
                            /\ stCache'[t] # None => Listed(stCache[t])' /\ Expected(t, stCache[t])'
    BY <1>6, <1>7, <2>1, <2>4, <2>5 DEF ListInv
  <2>7. QED
    BY <1>4, <2>1, <2>6 DEF ListInv, FirstAccepted, AtState
<1>12. CASE updateBpfAppStateStatusFails
  <2>1. /\ UNCHANGED <<st, stCache>> /\ pc = "write" /\ pc' = "idle" /\ pc \in AtState /\ list' = NoApps
        /\ ~(st[cs] = orig /\ cur.cond # "")
    BY <1>1, <1>12 DEF updateBpfAppStateStatusFails, ReturnAndRequeue, ReturnLocals, Accepted, Fault, AtState
  <2>2. ca \in Apps /\ cs \in StateIds
    BY <1>1, <2>1, VisitFacts
  <2>3. \A a \in Apps : a = ca /\ cur.cond = "Pending" => Leaving(a)'
    BY <1>3, <2>1, <2>2 DEF ListInv, FirstAccepted, Gone, Leaving, NoApps
  <2>4. (st[cs] # None => st[cs].app = ca) /\ (stCache[cs] # None => stCache[cs].app = ca)
    BY <2>1 DEF ObjectInv, VisitOK
  <2>5. /\ \A t \in StateIds : st[t] # None /\ Expected(t, st[t]) => Expected(t, st[t])'
        /\ \A t \in StateIds : stCache[t] # None /\ Expected(t, stCache[t]) => Expected(t, stCache[t])'
    BY <1>5, <1>7, <2>1, <2>3, <2>4 DEF Expected
  <2>6. \A t \in StateIds : /\ st'[t] # None => Listed(st[t])' /\ Expected(t, st[t])'
                            /\ stCache'[t] # None => Listed(stCache[t])' /\ Expected(t, stCache[t])'
    BY <1>6, <1>7, <2>1, <2>5 DEF ListInv, Behind
  <2>7. QED
    BY <1>4, <2>1, <2>6 DEF ListInv, FirstAccepted, AtState
<1>13. CASE removeFinalizer
  <2>1. /\ UNCHANGED stCache /\ pc = "finalizer" /\ pc' = "idle" /\ pc \in AtState /\ st[cs] = orig
        /\ st' = [st EXCEPT ![cs] = IF orig.deleting THEN None ELSE [orig EXCEPT !.finalizer = FALSE]]
    BY <1>13 DEF removeFinalizer, Return, ReturnLocals, AtState
  <2>2. cs \in StateIds /\ orig \in StateObj /\ orig # None
    BY <1>1, <2>1, VisitFacts, NoneAssumption
  <2>3. /\ st'[cs] # None => /\ st'[cs].app = st[cs].app /\ st'[cs].progs = st[cs].progs
                             /\ st'[cs].load = st[cs].load /\ st'[cs].cond = st[cs].cond
        /\ \A t \in StateIds \ {cs} : st'[t] = st[t]
    BY <1>1, <2>1, <2>2 DEF DataInv, StateTypeOK, StateObj
  <2>4. st'[cs] # None => Listed(st'[cs]) /\ Expected(cs, st'[cs]) /\ st'[cs].app \in Apps
    BY <1>7, <2>1, <2>2, <2>3 DEF ListInv, Listed, Justified, Expected, Agrees, Recorded
  <2>5. \A t \in StateIds : \A o : o.app \in Apps /\ Expected(t, o) => Expected(t, o)'
    BY <1>5, <2>1 DEF Expected
  <2>6. \A t \in StateIds : /\ st'[t] # None => Listed(st[t])' /\ Expected(t, st[t])'
                            /\ stCache'[t] # None => Listed(stCache[t])' /\ Expected(t, stCache[t])'
    BY <1>6, <1>7, <2>1, <2>3, <2>4, <2>5 DEF ListInv, Behind
  <2>7. QED
    BY <1>4, <2>1, <2>6 DEF ListInv, FirstAccepted, AtState
<1>14. CASE removeFinalizerFails
  <2>1. UNCHANGED <<st, stCache>> /\ pc = "finalizer" /\ pc' = "idle"
    BY <1>14 DEF removeFinalizerFails, Return, ReturnLocals
  <2>2. QED
    BY <1>1, <1>3, <2>1, AsideList DEF AtState
<1>15. CASE initBpfAppStateStatusFails
  <2>1. /\ UNCHANGED <<st, stCache>> /\ pc = "waitSpec" /\ pc' = "idle" /\ list' = NoApps /\ list[ca].twice # {}
    BY <1>15 DEF initBpfAppStateStatusFails, ReturnAndRequeue, ReturnLocals
  <2>2. ca \in Apps /\ list[ca] # None
    BY <1>1, <2>1 DEF DataInv, ControlOK, LocalTypeOK
  <2>3. \A a \in Apps : a = ca => Repeats(a)'
    BY <1>3, <2>1, <2>2 DEF ListInv, SameList, Repeats, NoApps
  <2>4. \A t \in StateIds : \A o : o.app \in Apps /\ Expected(t, o) => Expected(t, o)'
    BY <1>5, <2>1, <2>3 DEF Expected
  <2>5. \A t \in StateIds : /\ st'[t] # None => Listed(st[t])' /\ Expected(t, st[t])'
                            /\ stCache'[t] # None => Listed(stCache[t])' /\ Expected(t, stCache[t])'
    BY <1>6, <1>7, <2>1, <2>4 DEF ListInv, Behind
  <2>6. QED
    BY <1>4, <2>1, <2>5 DEF ListInv, FirstAccepted, AtState
<1>16. QED
  BY <1>2, <1>8, <1>9, <1>10, <1>11, <1>12, <1>13, <1>14, <1>15 DEF WriteStep

LEMMA AroundList ==
  ASSUME Separating \cap Faults = {}, ContractInv, ObjectInv, ListInv,
         ClusterStep \/ EnvironmentStep \/ UNCHANGED vars
  PROVE  ListInv'
<1>1. DataInv /\ "crash" \notin Faults /\ "recreate" \notin Faults
  BY DEF ContractInv, Separating
<1>2. ~Crash
  BY <1>1 DEF Crash, Fault
<1>3. UNCHANGED agentVars
  BY <1>2 DEF ClusterStep, SyncState, GarbageCollect, OperatorRelease, EnvironmentStep, Resync, UserCreate, Twice, Selectors,
              UserDelete, UserEdit, RelabelNode, PointChanges, ProgramLost, vars, agentVars
<1>4. UNCHANGED <<pc, list, ca, cs, orig, cur>>
  BY <1>3 DEF agentVars, loopVars, appVars
<1>5. \A s \in StateIds : /\ st[s] # None => st[s] \in StateObj /\ st[s].app \in Apps
                          /\ stCache[s] # None => stCache[s] \in StateObj /\ stCache[s].app \in Apps
  BY <1>1 DEF DataInv, StateTypeOK, StateObj
<1>6. pc \in AtState => ca \in Apps /\ list[ca] # None /\ cur.app = ca /\ orig.app = ca /\ cs \in StateIds
  BY <1>1, VisitFacts, NoneAssumption DEF ContractInv, SameMeta
<1>7. ASSUME NEW s \in StateIds, SyncState(s) PROVE ListInv'
  <2>1. /\ UNCHANGED <<edits, app, st>> /\ stCache'[s] = st[s] /\ \A t \in StateIds \ {s} : stCache'[t] = stCache[t]
    BY <1>1, <1>7 DEF SyncState, objVars, DataInv, StateTypeOK
  <2>2. \A t \in StateIds : \A o : /\ Listed(o) => Listed(o)'
                                   /\ Expected(t, o) => Expected(t, o)'
    BY <1>4, <2>1 DEF Listed, Justified, Expected, Agrees, Repeats, Leaving, Recorded
  <2>3. \A t \in StateIds \ {s} : Behind(t) => Behind(t)'
    BY <1>4, <2>1 DEF Behind
  <2>4. SUFFICES ASSUME edits = 0 PROVE ListInv'
    BY <2>1 DEF ListInv
  <2>5. \A t \in StateIds : /\ st'[t] # None => Listed(st[t])' /\ Expected(t, st[t])'
                            /\ stCache'[t] # None =>
                                 Listed(stCache[t])' /\ (Expected(t, stCache[t])' \/ Behind(t)')
    BY <2>1, <2>2, <2>3, <2>4 DEF ListInv
  <2>6. pc' \in AtState => Justified(cur, ca)' /\ Agrees(cur, ca)'
    BY <1>4, <2>1, <2>4 DEF ListInv, Justified, Agrees, Repeats, Leaving, Recorded
  <2>7. QED
    BY <1>4, <2>1, <2>4, <2>5, <2>6 DEF ListInv, SameList, FirstAccepted, Gone
<1>8. ASSUME NEW s \in StateIds, GarbageCollect(s) PROVE ListInv'
  <2>1. /\ UNCHANGED <<edits, app, stCache>> /\ st[s] # None /\ ~OwnerAlive(s)
        /\ st' = [st EXCEPT ![s] = IF st[s].finalizer THEN [st[s] EXCEPT !.deleting = TRUE] ELSE None]
    BY <1>1, <1>8 DEF GarbageCollect, objVars, DataInv, StateTypeOK
  <2>2. app[st[s].app] = None
    BY <2>1 DEF OwnerAlive, ObjectInv, OwnersOK
  <2>3. /\ st'[s] # None => /\ st'[s].app = st[s].app /\ st'[s].progs = st[s].progs
                            /\ st'[s].load = st[s].load /\ st'[s].cond = st[s].cond
        /\ \A t \in StateIds \ {s} : st'[t] = st[t]
    BY <1>1, <1>5, <2>1 DEF DataInv, StateTypeOK, StateObj
  <2>4. \A t \in StateIds : \A o : /\ Listed(o) => Listed(o)'
                                   /\ Expected(t, o) => Expected(t, o)'
                                   /\ Behind(t) => Behind(t)'
    BY <1>4, <2>1 DEF Listed, Justified, Expected, Agrees, Repeats, Leaving, Recorded, Behind
  <2>5. SUFFICES ASSUME edits = 0 PROVE ListInv'
    BY <2>1 DEF ListInv
  <2>6. st'[s] # None => Listed(st'[s]) /\ Expected(s, st'[s])
    BY <2>1, <2>3, <2>5 DEF ListInv, Listed, Justified, Expected, Agrees, Recorded
  <2>7. \A t \in StateIds : /\ st'[t] # None => Listed(st[t])' /\ Expected(t, st[t])'
                            /\ stCache'[t] # None =>
                                 Listed(stCache[t])' /\ (Expected(t, stCache[t])' \/ Behind(t)')
    BY <2>1, <2>3, <2>4, <2>5, <2>6 DEF ListInv
  <2>8. pc' \in AtState => Justified(cur, ca)' /\ Agrees(cur, ca)'
    BY <1>4, <2>1, <2>5 DEF ListInv, Justified, Agrees, Repeats, Leaving, Recorded
  <2>9. FirstAccepted'
    <3>1. SUFFICES ASSUME pc = "write", cur.cond = "Pending" PROVE st'[cs] = orig \/ Gone(ca)
      BY <1>4, <2>1 DEF FirstAccepted, Gone
    <3>2. s = cs => Gone(ca)
      BY <1>6, <2>1, <2>2, <3>1 DEF ObjectInv, VisitOK, AtState, Gone
    <3>3. QED
      BY <1>6, <2>3, <2>5, <3>1, <3>2 DEF ListInv, FirstAccepted, AtState
  <2>10. QED
    BY <1>4, <2>1, <2>5, <2>7, <2>8, <2>9 DEF ListInv, SameList
<1>9. ASSUME UNCHANGED <<edits, st, stCache>>,
             \A a \in Apps : \/ app'[a] = app[a]
                             \/ app[a] # None /\ app'[a] = None
                             \/ /\ app[a] # None /\ app'[a] # None /\ app'[a].deleting
                                /\ app'[a].progs = app[a].progs /\ app'[a].twice = app[a].twice
                             \/ /\ app[a] = None /\ list[a] = None
                                /\ \A s \in StateIds : /\ st[s] # None => st[s].app # a
                                                       /\ stCache[s] # None => stCache[s].app # a
      PROVE  ListInv'
  <2> DEFINE New(a) == app[a] = None /\ app'[a] # None
  <2>1. \A a \in Apps : New(a) => /\ list[a] = None
                                  /\ \A s \in StateIds : /\ st[s] # None => st[s].app # a
                                                         /\ stCache[s] # None => stCache[s].app # a
    BY <1>9
  <2>2. \A a \in Apps : ~New(a) => /\ Leaving(a) => Leaving(a)'
                                   /\ \A o : Agrees(o, a) => Agrees(o, a)'
                                   /\ Repeats(a) => Repeats(a)'
                                   /\ Gone(a) => Gone(a)'
    BY <1>4, <1>9 DEF Leaving, Agrees, Repeats, Gone, Recorded
  <2>3. \A t \in StateIds : \A o : o.app \in Apps /\ ~New(o.app) =>
                                     /\ Listed(o) => Listed(o)'
                                     /\ Expected(t, o) => Expected(t, o)'
    BY <1>4, <2>2 DEF Listed, Justified, Expected
  <2>4. \A t \in StateIds : Behind(t) => Behind(t)'
    BY <1>4, <1>9 DEF Behind
  <2>5. SUFFICES ASSUME edits = 0 PROVE ListInv'
    BY <1>9 DEF ListInv
  <2>6. \A t \in StateIds : /\ st'[t] # None => Listed(st[t])' /\ Expected(t, st[t])'
                            /\ stCache'[t] # None =>
                                 Listed(stCache[t])' /\ (Expected(t, stCache[t])' \/ Behind(t)')
    BY <1>5, <1>9, <2>1, <2>3, <2>4, <2>5 DEF ListInv
  <2>7. pc' \in AtState => ~New(ca)
    BY <1>4, <1>6, <2>1
  <2>8. pc' \in AtState => Justified(cur, ca)' /\ Agrees(cur, ca)'
    BY <1>4, <1>6, <2>2, <2>5, <2>7 DEF ListInv, Justified
  <2>9. FirstAccepted'
    BY <1>4, <1>6, <1>9, <2>2, <2>5, <2>7 DEF ListInv, FirstAccepted, AtState
  <2>10. SameList'
    BY <1>4, <1>9, <2>5 DEF ListInv, SameList
  <2>11. QED
    BY <1>4, <2>5, <2>6, <2>8, <2>9, <2>10 DEF ListInv
<1>10. ASSUME NEW a \in Apps, OperatorRelease(a) PROVE ListInv'
  BY <1>1, <1>9, <1>10 DEF OperatorRelease, DataInv, ObjTypeOK
<1>11. ASSUME NEW a \in Apps, UserCreate(a) PROVE ListInv'
  BY <1>1, <1>9, <1>11 DEF UserCreate, Twice, Selectors, getBpfAppState, DataInv, ObjTypeOK
<1>12. ASSUME NEW a \in Apps, UserDelete(a) PROVE ListInv'
  <2>1. app[a] \in AppObj /\ app' = [app EXCEPT ![a].deleting = TRUE] /\ UNCHANGED <<edits, st, stCache>>
    BY <1>1, <1>12 DEF UserDelete, DataInv, ObjTypeOK
  <2>2. [app[a] EXCEPT !.deleting = TRUE] \in AppObj
    BY <2>1 DEF AppObj
  <2>3. /\ app'[a] = [app[a] EXCEPT !.deleting = TRUE] /\ app'[a].progs = app[a].progs /\ app'[a].deleting
        /\ app'[a].twice = app[a].twice
        /\ \A b \in Apps \ {a} : app'[b] = app[b]
    BY <1>1, <2>1 DEF DataInv, ObjTypeOK, AppObj
  <2>4. QED
    BY <1>9, <2>1, <2>2, <2>3, NoneAssumption
<1>13. CASE (\E a \in Apps : UserEdit(a) \/ RelabelNode(a)) \/ (\E x \in Points : PointChanges(x))
  <2>1. edits \in Nat /\ edits' = edits + 1
    BY <1>1, <1>13 DEF UserEdit, RelabelNode, PointChanges, Edit, DataInv, ObjTypeOK
  <2>2. edits' # 0
    BY <2>1
  <2>3. QED
    BY <2>2 DEF ListInv
<1>14. CASE Resync \/ (\E i \in ProgIds : ProgramLost(i)) \/ UNCHANGED vars
  BY <1>9, <1>14 DEF Resync, ProgramLost, vars, objVars
<1>15. QED
  BY <1>2, <1>7, <1>8, <1>10, <1>11, <1>12, <1>13, <1>14 DEF ClusterStep, EnvironmentStep

LEMMA InitList == Init => ListInv
BY DEF Init, ListInv, SameList, FirstAccepted, AtState, NoApps

LEMMA ListInductive ==
  ASSUME Separating \cap Faults = {}, ContractInv, UniqueInv, ObjectInv, RecordsInv, ListInv, [Next]_vars
  PROVE  ListInv'
<1>1. CASE LoopStep
  BY <1>1, LoopList
<1>2. CASE WriteStep
  BY <1>2, WriteList
<1>3. CASE LoadStep \/ LinkStep \/ EndStep
  BY <1>3, VisitList
<1>4. CASE ClusterStep \/ EnvironmentStep \/ UNCHANGED vars
  BY <1>4, AroundList
<1>5. QED
  BY <1>1, <1>2, <1>3, <1>4, NextKinds

\* For any number of applications, programs and points: while none of the
\* separating failures happens, ProgListChangedError is in no status of an
\* application that is still there before a user changes something, except where
\* the application lists a function twice.  The first status is derived from the
\* list the reconcile read (initializeNodeProgramList), which fails on a
\* repetition only, is refused only when the application is on its way out, and
\* is waited for before the next comparison (validateProgramList).
THEOREM ListErrorReportedTruly ==
  ASSUME Separating \cap Faults = {}
  PROVE  Spec => []ProgramListErrorIsTrue
<1>1. "timeout" \notin Faults
  BY DEF Separating
<1>2. Init => UniqueInv /\ ListInv
  BY InitUnique, InitList
<1>3. /\ ContractInv /\ ObjectInv /\ RecordsInv /\ UniqueInv /\ ListInv
      /\ [Next]_vars
      => (UniqueInv /\ ListInv)'
  <2>1. SUFFICES ASSUME ContractInv, ObjectInv, RecordsInv, UniqueInv, ListInv, [Next]_vars
                 PROVE  UniqueInv' /\ ListInv'
    OBVIOUS
  <2>2. DataInv
    BY <2>1 DEF ContractInv
  <2>3. UniqueInv'
    BY <1>1, <2>1, <2>2, UniqueInductive
  <2>4. ListInv'
    BY <2>1, ListInductive
  <2>5. QED
    BY <2>3, <2>4
<1>4. ContractInv /\ ListInv => ProgramListErrorIsTrue
  <2>1. SUFFICES ASSUME ContractInv, ListInv PROVE ProgramListErrorIsTrue
    OBVIOUS
  <2>2. edits \in Nat
    BY <2>1 DEF ContractInv, DataInv, ObjTypeOK
  <2>3. edits = 0 => \A s \in StateIds : st[s] # None /\ st[s].load = "ProgramListChangedError" => Repeats(st[s].app)
    BY <2>1 DEF ListInv, Listed, Justified
  <2>4. edits # 0 => edits > 0
    BY <2>2
  <2>5. QED
    BY <2>3, <2>4 DEF ProgramListErrorIsTrue, Repeats
<1>5. Spec => [](ContractInv /\ ObjectInv /\ RecordsInv)
  BY RecordsHold
<1>6. QED
  BY <1>2, <1>3, <1>4, <1>5, PTL DEF Spec

(***************************************************************************)
(* One of two controllers: what it holds, and what it does not mind.       *)
(***************************************************************************)
\* All versions of the state objects, and the ids of programs and links that
\* are in them.
AllCopies == ({st[s] : s \in StateIds} \cup {stCache[s] : s \in StateIds} \cup {cur}) \ {None}
HeldProgs == {i \in ProgIds : \E o \in AllCopies : RecordsProg(o, i)}
HeldLinks == {l \in LinkIds : \E o \in AllCopies : RecordsLink(o, l)}

\* Outside a visit there is no copy at work.
AtRest == pc \notin AtState => cur = None

\* The ids of an object are held or to be given away.
Within(o) ==
  \A p \in Recorded(o) :
    /\ o.progs[p].id \in HeldProgs \cup freeProgs \cup {None}
    /\ \A x \in Points : o.progs[p].links[x] # None =>
         o.progs[p].links[x].id \in HeldLinks \cup freeLinks \cup {None}

LEMMA RestInductive ==
  ASSUME DataInv, AtRest, [Next]_vars
  PROVE  AtRest'
<1>1. CASE LoopStep
  BY <1>1 DEF LoopStep, ReconcileStart, ReconcileDone, SkipDeletedApp, DuplicateState, NeedState, BeginApp, Return,
              ReturnAndRequeue, ReturnLocals, appVars, AtRest, AtState
<1>2. CASE WriteStep
  BY <1>2 DEF WriteStep, createInitialBpfAppState, createInitialBpfAppStateFails, waitForBpfAppStateSpecUpdate,
              waitForBpfAppStateStatusUpdate, waitForBpfAppStateSpecUpdateTimesOut, initBpfAppStateStatusFails,
              waitForBpfAppStateStatusUpdateTimesOut, updateBpfAppStateStatus, updateBpfAppStateStatusFails,
              removeFinalizer, removeFinalizerFails, Return, ReturnAndRequeue, ReturnLocals, appVars, AtRest, AtState
<1>3. CASE LoadStep \/ LinkStep \/ EndStep
  <2>1. pc \in AtState
    BY <1>3, VisitEffect
  <2>2. \/ pc' \in AtState
        \/ \E x \in Points : LinkPanic(x)
        \/ StatusUnchanged
    BY <1>3, <2>1
       DEF LoadStep, BeginUnload, UnloadDone, ProgramListInvalid, NodeSelectorInvalid, AlreadyLoaded, load, loadFails, LoadError, unload,
           LinkStep, ProgramStateMissing, updateLinks, updateLinksFails, LinkInPlace, LinkAttach, LinkAttachFails,
           LinkDetach, BpfmanDetach, LinkDetachFails, LinkDrop, LinksDone, EndStep, StatusChanged, VisitLink, AtState
  <2>3. QED
    BY <2>2 DEF LinkPanic, ReturnAndRequeue, ReturnLocals, StatusUnchanged, AtRest, AtState
<1>4. CASE ClusterStep \/ EnvironmentStep \/ UNCHANGED vars
  BY <1>4 DEF ClusterStep, SyncState, GarbageCollect, OperatorRelease, EnvironmentStep, Crash, Resync, UserCreate, Twice, Selectors,
              UserDelete, UserEdit, RelabelNode, PointChanges, ProgramLost, ReturnAndRequeue, ReturnLocals,
              vars, agentVars, appVars, AtRest
<1>5. QED
  BY <1>1, <1>2, <1>3, <1>4, NextKinds

LEMMA CopiesTyped ==
  ASSUME DataInv
  PROVE  \A o \in AllCopies : o \in StateObj
BY DEF AllCopies, DataInv, StateTypeOK, LocalTypeOK

\* What is held was given away.
LEMMA HeldIsGiven ==
  ASSUME DataInv, AtRest, RecordsSound
  PROVE  HeldProgs \cap freeProgs = {} /\ HeldLinks \cap freeLinks = {}
<1>1. ASSUME NEW o \in AllCopies PROVE Sound(o, freeProgs, freeLinks, linkProg)
  <2>1. CASE \E s \in StateIds : o \in {st[s], stCache[s]}
    BY <1>1, <2>1 DEF AllCopies, Copies, RecordsSound
  <2>2. CASE o = cur
    <3>1. pc \in AtState /\ cs \in StateIds /\ cur # None
      BY <1>1, <2>2 DEF AllCopies, AtRest, DataInv, ControlOK
    <3>2. QED
      BY <2>2, <3>1 DEF Copies, RecordsSound
  <2>3. QED
    BY <2>1, <2>2 DEF AllCopies
<1>2. QED
  BY <1>1 DEF HeldProgs, HeldLinks, RecordsProg, RecordsLink, Sound, SoundEntry

LEMMA CopyWithin ==
  ASSUME DataInv, NEW o \in AllCopies
  PROVE  \A u : u.progs = o.progs => Within(u)
<1>1. o \in StateObj
  BY CopiesTyped
<1>2. ASSUME NEW p \in Recorded(o)
      PROVE  /\ o.progs[p].id \in HeldProgs \cup {None}
             /\ \A x \in Points : o.progs[p].links[x] # None => o.progs[p].links[x].id \in HeldLinks \cup {None}
  <2>1. o.progs[p] \in ProgState
    BY <1>1 DEF StateObj, Recorded
  <2>2. o.progs[p].id \in ProgIds \cup {None}
    BY <2>1 DEF ProgState
  <2>3. ASSUME NEW x \in Points, o.progs[p].links[x] # None
        PROVE  o.progs[p].links[x].id \in LinkIds \cup {None}
    BY <2>1, <2>3 DEF ProgState, LinkState
  <2>4. QED
    BY <2>2, <2>3 DEF HeldProgs, HeldLinks, RecordsProg, RecordsLink
<1>3. QED
  BY <1>2 DEF Within, Recorded

LEMMA BlankWithin ==
  ASSUME NEW o, Blank(o)
  PROVE  Within(o)
BY DEF Blank, Within, NoLinks

\* A controller comes to hold only what it held and what bpfman had to give.
LEMMA WithinHeld ==
  ASSUME DataInv, \A o : o \in AllCopies' => Within(o)
  PROVE  /\ HeldProgs' \subseteq HeldProgs \cup freeProgs
         /\ HeldLinks' \subseteq HeldLinks \cup freeLinks
<1>1. ASSUME NEW i \in HeldProgs' PROVE i \in HeldProgs \cup freeProgs
  <2>1. PICK o \in AllCopies' : RecordsProg(o, i)'
    BY <1>1 DEF HeldProgs
  <2>2. QED
    BY <1>1, <2>1, BpfAgentAssumption DEF HeldProgs, Within, RecordsProg, Recorded
<1>2. ASSUME NEW l \in HeldLinks' PROVE l \in HeldLinks \cup freeLinks
  <2>1. PICK o \in AllCopies' : RecordsLink(o, l)'
    BY <1>2 DEF HeldLinks
  <2>2. PICK p \in Recorded(o), x \in Points : o.progs[p].links[x] # None /\ o.progs[p].links[x].id = l
    BY <2>1 DEF RecordsLink, Recorded
  <2>3. l \in LinkIds /\ l # None
    BY <1>2, BpfAgentAssumption DEF HeldLinks
  <2>4. QED
    BY <2>1, <2>2, <2>3 DEF Within
<1>3. QED
  BY <1>1, <1>2

LEMMA CopiesStay ==
  ASSUME DataInv,
         \A s \in StateIds : /\ st'[s] = None \/ Within(st'[s])
                             /\ stCache'[s] = None \/ Within(stCache'[s]),
         cur' = None \/ Within(cur')
  PROVE  \A o : o \in AllCopies' => Within(o)
BY DEF AllCopies

LEMMA HeldGrows ==
  ASSUME Separating \cap Faults = {}, ContractInv, ObjectInv, RecordsInv, AtRest, [Next]_vars
  PROVE  /\ HeldProgs' \subseteq HeldProgs \cup freeProgs
         /\ HeldLinks' \subseteq HeldLinks \cup freeLinks
<1>1. DataInv /\ DaemonOK /\ RecordsSound /\ PlaceOK /\ PlainApps
  BY DEF ContractInv, RecordsInv, ObjectInv
<1>2. /\ \A s \in StateIds : /\ st[s] = None \/ Within(st[s])
                             /\ stCache[s] = None \/ Within(stCache[s])
      /\ cur = None \/ Within(cur)
  BY <1>1, CopyWithin DEF AllCopies
<1> SUFFICES /\ \A s \in StateIds : /\ st'[s] = None \/ Within(st'[s])
                                    /\ stCache'[s] = None \/ Within(stCache'[s])
             /\ cur' = None \/ Within(cur')
  BY <1>1, CopiesStay, WithinHeld
<1>3. CASE LoopStep
  <2>1. UNCHANGED <<st, stCache>> /\ (cur' \in {cur, None} \/ \E s \in StateIds : cur' = stCache[s])
    BY <1>3 DEF LoopStep, ReconcileStart, ReconcileDone, SkipDeletedApp, DuplicateState, NeedState, BeginApp, Return,
                ReturnAndRequeue, ReturnLocals, appVars
  <2>2. QED
    BY <1>2, <2>1
<1>4. CASE WriteStep
  <2>1. CASE createInitialBpfAppState
    <3>1. PICK n \in StateIds : st' = [st EXCEPT ![n] = initBpfAppState(ca)]
      BY <2>1 DEF createInitialBpfAppState
    <3>2. UNCHANGED <<stCache, cur>>
      BY <2>1 DEF createInitialBpfAppState, appVars
    <3>3. Within(initBpfAppState(ca))
      BY DEF initBpfAppState, Within, Recorded, NoProgs
    <3>4. \A s \in StateIds : st'[s] \in {st[s], initBpfAppState(ca)}
      BY <1>1, <3>1 DEF DataInv, StateTypeOK
    <3>5. QED
      BY <1>2, <3>2, <3>3, <3>4
  <2>2. ASSUME NEW s \in StateIds, waitForBpfAppStateSpecUpdate(s)
        PROVE  UNCHANGED <<st, stCache>> /\ Within(cur')
    BY <1>1, <2>2, FirstStatusBlank, BlankWithin DEF waitForBpfAppStateSpecUpdate
  <2>3. CASE updateBpfAppStateStatus
    <3>1. cur' = [cur EXCEPT !.count = @ + 1] /\ st' = [st EXCEPT ![cs] = cur'] /\ UNCHANGED stCache /\ pc \in AtState
      BY <2>3 DEF updateBpfAppStateStatus, AtState
    <3>2. cur \in StateObj /\ cs \in StateIds /\ cur # None
      BY <1>1, <3>1, VisitFacts, NoneAssumption
    <3>3. cur'.progs = cur.progs
      BY <3>1, <3>2 DEF StateObj
    <3>4. Within(cur')
      BY <1>1, <3>2, <3>3, CopyWithin DEF AllCopies
    <3>5. \A s \in StateIds : st'[s] \in {st[s], cur'}
      BY <1>1, <3>1 DEF DataInv, StateTypeOK
    <3>6. QED
      BY <1>2, <3>1, <3>4, <3>5
  <2>4. CASE removeFinalizer
    <3>1. /\ UNCHANGED stCache /\ cur' = None /\ st[cs] = orig /\ pc \in AtState
          /\ st' = [st EXCEPT ![cs] = IF orig.deleting THEN None ELSE [orig EXCEPT !.finalizer = FALSE]]
      BY <2>4 DEF removeFinalizer, Return, ReturnLocals, AtState
    <3>2. orig \in StateObj /\ cs \in StateIds /\ orig # None
      BY <1>1, <3>1, VisitFacts, NoneAssumption
    <3>3. [orig EXCEPT !.finalizer = FALSE].progs = st[cs].progs
      BY <3>1, <3>2 DEF StateObj
    <3>4. Within([orig EXCEPT !.finalizer = FALSE])
      BY <1>1, <3>1, <3>2, <3>3, CopyWithin DEF AllCopies
    <3>5. \A s \in StateIds : st'[s] \in {st[s], None, [orig EXCEPT !.finalizer = FALSE]}
      BY <1>1, <3>1 DEF DataInv, StateTypeOK
    <3>6. QED
      BY <1>2, <3>1, <3>4, <3>5
  <2>5. CASE \/ createInitialBpfAppStateFails \/ initBpfAppStateStatusFails \/ waitForBpfAppStateSpecUpdateTimesOut
             \/ waitForBpfAppStateStatusUpdateTimesOut \/ updateBpfAppStateStatusFails \/ removeFinalizerFails
             \/ \E s \in StateIds : waitForBpfAppStateStatusUpdate(s)
    <3>1. UNCHANGED <<st, stCache>> /\ cur' = None
      BY <2>5 DEF createInitialBpfAppStateFails, waitForBpfAppStateSpecUpdateTimesOut, initBpfAppStateStatusFails,
                  waitForBpfAppStateStatusUpdateTimesOut, updateBpfAppStateStatusFails, removeFinalizerFails,
                  waitForBpfAppStateStatusUpdate, Return, ReturnAndRequeue, ReturnLocals
    <3>2. QED
      BY <1>2, <3>1
  <2>6. QED
    BY <1>2, <1>4, <2>1, <2>2, <2>3, <2>4, <2>5 DEF WriteStep
<1>5. CASE LoadStep \/ LinkStep \/ EndStep
  <2>1. UNCHANGED <<st, stCache>> /\ pc \in AtState
    BY <1>1, <1>5, VisitEffect
  <2>2. cur \in StateObj /\ cur # None /\ cs \in StateIds
    BY <1>1, <2>1, VisitFacts, NoneAssumption
  <2>3. SUFFICES cur' = None \/ Within(cur')
    BY <1>2, <2>1
  <2>4. ASSUME cur'.progs = cur.progs PROVE Within(cur')
    BY <1>1, <2>2, <2>4, CopyWithin DEF AllCopies
  <2>5. ASSUME NEW p \in Progs, cur.progs[p] # None, NEW ps \in ProgState,
               cur'.progs = [cur.progs EXCEPT ![p] = ps], ps.id \in {cur.progs[p].id, None},
               \A x \in Points : ps.links[x] # None =>
                 \/ cur.progs[p].links[x] # None /\ ps.links[x].id = cur.progs[p].links[x].id
                 \/ ps.links[x].id \in freeLinks \cup {None}
        PROVE  Within(cur')
    <3>1. /\ cur'.progs[p] = ps /\ \A q \in Progs \ {p} : cur'.progs[q] = cur.progs[q]
          /\ Recorded(cur') = Recorded(cur) /\ p \in Recorded(cur)
      BY <2>2, <2>5, EntryRecords
    <3>2. Within(cur)
      BY <1>2, <2>2
    <3>3. QED
      BY <2>5, <3>1, <3>2 DEF Within, Recorded
  <2>6. CASE BeginUnload \/ UnloadDone \/ NodeSelectorInvalid \/ ProgramListInvalid \/ AlreadyLoaded \/ loadFails \/ StatusChanged
             \/ \E p \in Progs : ProgramStateMissing(p)
    BY <2>2, <2>4, <2>6 DEF BeginUnload, UnloadDone, ProgramListInvalid, NodeSelectorInvalid, AlreadyLoaded, loadFails, LoadError,
                            StatusChanged, FinalState, ProgramStateMissing, appVars, StateObj
  <2>7. CASE StatusUnchanged
    BY <1>2, <2>7 DEF StatusUnchanged, appVars
  <2>8. CASE load
    <3>1. PICK f \in [Recorded(cur) -> freeProgs] :
            /\ Recorded(cur') = Recorded(cur)
            /\ \A p \in Recorded(cur) : cur'.progs[p].id = f[p] /\ cur'.progs[p].links = cur.progs[p].links
      BY <1>1, <2>8, LoadEffect DEF Separating
    <3>2. Within(cur)
      BY <1>2, <2>2
    <3>3. QED
      BY <3>1, <3>2 DEF Within
  <2>9. ASSUME NEW p \in Progs, unload(p) PROVE Within(cur')
    <3>1. cur.progs[p] # None /\ cur.progs[p] \in ProgState
      BY <1>1, <2>2, <2>9 DEF unload, DataInv, ControlOK, StateObj
    <3>2. cur'.progs = [cur.progs EXCEPT ![p] = UnloadedProg(cur.progs[p])]
      BY <2>2, <2>9 DEF unload, StateObj
    <3>3. UnloadedProg(cur.progs[p]) \in ProgState
      BY <3>1, UnloadedProgType
    <3>4. /\ UnloadedProg(cur.progs[p]).id \in {cur.progs[p].id, None}
          /\ \A x \in Points : UnloadedProg(cur.progs[p]).links[x] # None =>
                UnloadedProg(cur.progs[p]).links[x] = cur.progs[p].links[x]
      BY <3>1 DEF UnloadedProg, ProgState, NoLinks
    <3>5. QED
      BY <2>5, <3>1, <3>2, <3>3, <3>4
  <2>10. ASSUME NEW p \in Progs, updateLinks(p) \/ updateLinksFails(p) PROVE Within(cur')
    <3>1. PICK ps \in ProgState :
            /\ cur' \in StateObj /\ cur'.progs = [cur.progs EXCEPT ![p] = ps] /\ cur'.load = cur.load
            /\ ps.id = cur.progs[p].id /\ ps.fn = cur.progs[p].fn
            /\ pc' = "programs" => ps.attach = "UpdateAttachInfoError"
            /\ \A x \in Points :
                 /\ ps.links[x] # None => \/ cur.progs[p].links[x] # None /\ ps.links[x].id = cur.progs[p].links[x].id
                                          \/ ps.links[x].id = None
                 /\ cur.progs[p].links[x] # None => ps.links[x] # None /\ ps.links[x].id = cur.progs[p].links[x].id
      BY <1>1, <2>10, UpdateLinksEffect
    <3>2. cur.progs[p] # None
      BY <2>10 DEF updateLinks, updateLinksFails, HasProgState
    <3>3. QED
      BY <2>5, <3>1, <3>2
  <2>11. ASSUME NEW x \in Points, \/ LinkInPlace(x) \/ LinkAttach(x) \/ LinkAttachFails(x)
                                  \/ LinkDetach(x) \/ LinkDetachFails(x) \/ LinkDrop(x)
         PROVE  Within(cur')
    <3>1. PICK ps \in ProgState :
            /\ cur'.progs = [cur.progs EXCEPT ![cp] = ps] /\ ps.id = cur.progs[cp].id
            /\ \A y \in Points \ {x} : ps.links[y] = cur.progs[cp].links[y]
            /\ ps.links[x] # None => ps.links[x].id = cur.progs[cp].links[x].id \/ ps.links[x].id \in freeLinks
      BY <1>1, <2>11, LinkEffect
    <3>2. AtLink(x)
      BY <2>11 DEF LinkInPlace, LinkAttach, LinkAttachFails, LinkDetach, BpfmanDetach, LinkDetachFails, LinkDrop
    <3>3. cp \in Progs /\ cur.progs[cp] # None /\ cur.progs[cp].links[x] # None
      BY <1>1, <3>2 DEF AtLink, DataInv, ControlOK
    <3>4. QED
      BY <2>5, <3>1, <3>3
  <2>12. ASSUME NEW x \in Points, LinkPanic(x) PROVE cur' = None
    BY <2>12 DEF LinkPanic, ReturnAndRequeue, ReturnLocals
  <2>13. CASE LinksDone
    <3> DEFINE ps == [cur.progs[cp] EXCEPT !.attach = updateProgramAttachStatus(cur.progs[cp])]
    <3>1. cp \in Progs /\ cur.progs[cp] # None /\ cur.progs[cp] \in ProgState
      BY <1>1, <2>2, <2>13 DEF LinksDone, DataInv, ControlOK, StateObj
    <3>2. ps \in ProgState /\ ps.id = cur.progs[cp].id /\ ps.links = cur.progs[cp].links
      BY <3>1 DEF ProgState, updateProgramAttachStatus, ProgramLinkStatus
    <3>3. cur'.progs = [cur.progs EXCEPT ![cp] = ps]
      BY <2>2, <2>13, <3>1 DEF LinksDone, StateObj
    <3> HIDE DEF ps
    <3>4. QED
      BY <2>5, <3>1, <3>2, <3>3
  <2>14. QED
    BY <1>5, <2>6, <2>7, <2>8, <2>9, <2>10, <2>11, <2>12, <2>13 DEF LoadStep, LinkStep, EndStep
<1>6. ASSUME NEW s \in StateIds, SyncState(s)
      PROVE  /\ \A t \in StateIds : st'[t] = st[t] /\ stCache'[t] \in {stCache[t], st[t]}
             /\ cur' = cur
  BY <1>1, <1>6 DEF SyncState, agentVars, appVars, DataInv, StateTypeOK
<1>7. ASSUME NEW s \in StateIds, GarbageCollect(s)
      PROVE  /\ \A t \in StateIds : st'[t] = None \/ Within(st'[t])
             /\ UNCHANGED <<stCache, cur>>
  <2>1. /\ UNCHANGED <<stCache, cur>> /\ st[s] # None /\ st[s] \in StateObj
        /\ st' = [st EXCEPT ![s] = IF st[s].finalizer THEN [st[s] EXCEPT !.deleting = TRUE] ELSE None]
    BY <1>1, <1>7 DEF GarbageCollect, agentVars, appVars, DataInv, StateTypeOK
  <2>2. [st[s] EXCEPT !.deleting = TRUE].progs = st[s].progs
    BY <2>1 DEF StateObj
  <2>3. Within([st[s] EXCEPT !.deleting = TRUE])
    BY <1>1, <2>1, <2>2, CopyWithin DEF AllCopies
  <2>4. \A t \in StateIds : st'[t] \in {st[t], None, [st[s] EXCEPT !.deleting = TRUE]}
    BY <1>1, <2>1 DEF DataInv, StateTypeOK
  <2>5. QED
    BY <1>2, <2>1, <2>3, <2>4
<1>8. CASE EnvironmentStep \/ UNCHANGED vars \/ \E a \in Apps : OperatorRelease(a)
  <2>1. UNCHANGED st /\ (stCache' = stCache \/ stCache' = st) /\ (cur' = cur \/ cur' = None)
    BY <1>8 DEF OperatorRelease, EnvironmentStep, Crash, Resync, UserCreate, Twice, Selectors, UserDelete, UserEdit, RelabelNode,
                PointChanges, ProgramLost, ReturnAndRequeue, ReturnLocals, vars, agentVars, appVars
  <2>2. QED
    BY <1>2, <2>1
<1>9. QED
  BY <1>2, <1>3, <1>4, <1>5, <1>6, <1>7, <1>8, NextKinds DEF ClusterStep

\* Another user of bpfman takes ids that nobody holds, and has failures and edits
\* of its own.
LEMMA ForeignStep ==
  ASSUME ContractInv, ObjectInv, HeldInv, RecordsInv, TruthInv, AtRest,
         UNCHANGED <<app, selected, avail, created, st, stCache, loaded, linkProg, agentVars>>,
         freeProgs' \subseteq freeProgs, freeLinks' \subseteq freeLinks, edits' \in Nat, faults' \in Nat
  PROVE  ContractInv' /\ ObjectInv' /\ HeldInv' /\ RecordsInv' /\ TruthInv' /\ AtRest'
<1>1. UNCHANGED <<app, selected, avail, created, st, stCache, loaded, linkProg, pc, list, node, todo, ca, cs, orig,
                  cur, listChanged, ptodo, cp, ltodo>>
  BY DEF agentVars, loopVars, appVars, progVars
<1>2. DataInv'
  BY <1>1 DEF ContractInv, DataInv, ObjTypeOK, StateTypeOK, DaemonTypeOK, LocalTypeOK, ControlOK
<1>3. ContractInv'
  <2>1. AppAgree' /\ DeletionStays' /\ SameMeta' /\ UnseenIsNew'
    BY <1>1 DEF ContractInv, AppAgree, DeletionStays, SameMeta, UnseenIsNew
  <2>2. \A o : /\ Busy(o)' <=> Busy(o)
               /\ CopyOK(o) => CopyOK(o)'
    BY <1>1 DEF CopyOK, Leaving, Busy, Recorded
  <2>3. CopiesOK'
    BY <1>1, <2>2 DEF ContractInv, CopiesOK
  <2>4. WorkOK' /\ ReleaseOK' /\ FirstStatusOK'
    BY <1>1, <2>2 DEF ContractInv, WorkOK, ReleaseOK, FirstStatusOK, Recorded
  <2>5. QED
    BY <1>2, <2>1, <2>3, <2>4 DEF ContractInv
<1>4. ObjectInv'
  BY <1>1 DEF ObjectInv, PlainApps, OwnersOK, CountsOK, CacheOK, OwnerStays, VisitOK, Behind, Leaving, Newborn
<1>5. \A s \in StateIds : Copies(s)' = Copies(s)
  BY <1>1 DEF Copies
<1>6. DaemonOK' /\ OneRecord' /\ LoadedTogether' /\ NothingDropped' /\ PlaceOK' /\ NothingOrphaned'
  <2>1. DaemonOK'
    BY <1>1 DEF RecordsInv, DaemonOK
  <2>2. OneRecord'
    BY <1>1, <1>5 DEF RecordsInv, OneRecord, RecordsProg, Recorded
  <2>3. LoadedTogether'
    BY <1>1, <1>5 DEF RecordsInv, LoadedTogether, Passed, AllOrNone, Recorded
  <2>4. NothingDropped'
    BY <1>1 DEF RecordsInv, NothingDropped, Covers, RecordsProg, RecordsLink, Recorded
  <2>5. PlaceOK'
    BY <1>1 DEF RecordsInv, PlaceOK, Busy, isLoaded, Recorded
  <2>6. NothingOrphaned'
    BY <1>1 DEF RecordsInv, NothingOrphaned, Recorders, RecordsProg, RecordsLink, Recorded
  <2>7. QED
    BY <2>1, <2>2, <2>3, <2>4, <2>5, <2>6
<1>7. RecordsSound'
  <2>1. \A o : Sound(o, freeProgs, freeLinks, linkProg) => Sound(o, freeProgs', freeLinks', linkProg')
    BY <1>1 DEF Sound, SoundEntry
  <2>2. \A o : Sound(o, freeProgs', freeLinks', linkProg') => Sound(o, freeProgs, freeLinks, linkProg)'
    BY DEF Sound, SoundEntry, Recorded
  <2>3. QED
    BY <1>5, <2>1, <2>2 DEF RecordsInv, RecordsSound
<1>8. TruthInv'
  <2>1. AllSelected' /\ CurrentInv'
    BY <1>1 DEF TruthInv, AllSelected, CurrentInv, BusyOwned, CacheCurrent, BaseCurrent, Busy, Behind, Recorded
  <2>2. DistinctLinks'
    BY <1>1, <1>5 DEF TruthInv, ReportInv, DistinctLinks, Distinct, Recorded
  <2>3. WalkOK'
    BY <1>1 DEF TruthInv, ReportInv, WalkOK, Walked, isLoaded, LiveLinks, LiveLink, isAttachSuccess, Recorded
  <2>4. WriteTrue' /\ RestTrue'
    <3>1. \A o : Live(o, loaded, linkProg) => Live(o, loaded, linkProg)'
      BY <1>1 DEF Live, LiveLinks, LiveLink, Recorded
    <3>2. \A o : (Claims(o)' <=> Claims(o)) /\ (Busy(o)' <=> Busy(o)) /\ Recorded(o)' = Recorded(o)
      BY DEF Claims, Busy, Recorded
    <3>3. QED
      BY <1>1, <3>1, <3>2 DEF TruthInv, ReportInv, WriteTrue, RestTrue, Visiting
  <2>5. QED
    BY <2>1, <2>2, <2>3, <2>4 DEF TruthInv, ReportInv
<1>9. HeldInv'
  BY <1>1 DEF HeldInv, Held, Busy, Recorded
<1>10. QED
  BY <1>1, <1>3, <1>4, <1>6, <1>7, <1>8, <1>9 DEF RecordsInv, AtRest

\* The controller's invariant, as its neighbour on the node sees it.
AgentInv == ContractInv /\ ObjectInv /\ HeldInv /\ RecordsInv /\ TruthInv /\ AtRest

LEMMA AgentStarts ==
  ASSUME Init
  PROVE  AgentInv /\ HeldProgs = {} /\ HeldLinks = {}
<1>1. AgentInv
  BY InitContract, InitObject, InitRecords, InitTruth DEF AgentInv, HeldInv, Held, AtRest, AtState, Init
<1>2. AllCopies = {}
  BY DEF Init, AllCopies
<1>3. QED
  BY <1>1, <1>2 DEF HeldProgs, HeldLinks

LEMMA AgentSteps ==
  ASSUME Misleading \cap Faults = {}, AgentInv, [Next]_vars
  PROVE  /\ AgentInv'
         /\ HeldProgs' \subseteq HeldProgs \cup freeProgs
         /\ HeldLinks' \subseteq HeldLinks \cup freeLinks
<1>1. /\ ContractInv /\ ObjectInv /\ HeldInv /\ RecordsInv /\ TruthInv /\ AtRest /\ DataInv
      /\ Separating \cap Faults = {} /\ "recreate" \notin Faults
  BY DEF AgentInv, ContractInv, Misleading, Separating
<1>2. ContractInv' /\ ObjectInv' /\ HeldInv' /\ RecordsInv' /\ TruthInv' /\ AtRest'
  BY <1>1, ContractInductive, ObjectInductive, HeldInductive, RecordsInductive, TruthInductive, RestInductive
<1>3. QED
  BY <1>1, <1>2, HeldGrows DEF AgentInv

LEMMA AgentUndisturbed ==
  ASSUME AgentInv,
         UNCHANGED <<app, selected, avail, created, st, stCache, loaded, linkProg, agentVars>>,
         freeProgs' \subseteq freeProgs, freeLinks' \subseteq freeLinks, edits' \in Nat, faults' \in Nat
  PROVE  AgentInv'
BY ForeignStep DEF AgentInv

LEMMA AgentFacts ==
  ASSUME AgentInv
  PROVE  /\ DaemonOK /\ edits \in Nat /\ faults \in Nat
         /\ HeldProgs \cap freeProgs = {} /\ HeldLinks \cap freeLinks = {}
         /\ NoOrphanProgram /\ NoOrphanLink /\ SuccessIsTrue
<1>1. DaemonOK /\ edits \in Nat /\ faults \in Nat
  BY DEF AgentInv, ContractInv, RecordsInv, DataInv, ObjTypeOK
<1>2. HeldProgs \cap freeProgs = {} /\ HeldLinks \cap freeLinks = {}
  BY HeldIsGiven DEF AgentInv, ContractInv, RecordsInv
<1>3. NoOrphanProgram /\ NoOrphanLink
  BY DEF AgentInv, RecordsInv, NothingOrphaned, Recorders, NoOrphanProgram, NoOrphanLink
<1>4. SuccessIsTrue
  BY TruthHolds DEF AgentInv
<1>5. QED
  BY <1>1, <1>2, <1>3, <1>4

=============================================================================

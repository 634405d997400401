--------------------------- MODULE BpfAgentRecords --------------------------
(***************************************************************************)
(* Every program and every link bpfman holds is recorded by a state object *)
(* or by the reconcile at work, for any number of applications, programs   *)
(* and points, as long as no step of the agent is cut off from the state   *)
(* object it belongs to.                                                   *)
(***************************************************************************)
EXTENDS BpfAgentProofs

\* The failures that separate what bpfman did from what the agent writes down:
\* a crash or a lost reply between the two, a refused write, an error of bpfman
\* that the agent ignores or takes for "not there", a program taken away, an
\* application re-created over its old state, and a status the API server
\* refuses because its condition has no type.
Separating == {"crash", "timeout", "write", "unload", "reply", "get", "lost", "recreate", "retype"}

(***************************************************************************)
(* The inductive invariant.                                                *)
(***************************************************************************)
\* bpfman: ids are used once, and a link belongs to a loaded program.
DaemonOK ==
  /\ loaded \cap freeProgs = {}
  /\ \A l \in LinkIds : linkProg[l] # None => l \notin freeLinks /\ linkProg[l] \in loaded

\* The versions of state object s that are around: in the API server, in the
\* cache, and in the hands of the reconcile that visits it.
Copies(s) ==
  {o \in {st[s], stCache[s]} \cup (IF pc \in AtState /\ s = cs THEN {cur} ELSE {}) : o # None}

\* With these ids to give away and these links, an entry records ids that were
\* given away, and live links of its own program only.
SoundEntry(ps, progs, links, lp) ==
  /\ ps.fn = FALSE /\ ps.id \notin progs
  /\ \A x \in Points : ps.links[x] # None =>
       /\ ps.links[x].id \notin links
       /\ ps.links[x].id # None /\ lp[ps.links[x].id] # None => lp[ps.links[x].id] = ps.id

Sound(o, progs, links, lp) == \A p \in Recorded(o) : SoundEntry(o.progs[p], progs, links, lp)

RecordsSound == \A s \in StateIds : \A o \in Copies(s) : Sound(o, freeProgs, freeLinks, linkProg)

\* A loaded program is recorded under one name only.
OneRecord ==
  \A s, t \in StateIds : s # t =>
    \A o \in Copies(s), u \in Copies(t) : \A i \in loaded : ~(RecordsProg(o, i) /\ RecordsProg(u, i))

\* The programs of an object are loaded together: all of them are, or none.
AllOrNone(o, progs) ==
  \/ \A p \in Recorded(o) : o.progs[p].id \in progs
  \/ \A p \in Recorded(o) : o.progs[p].id \notin progs

\* None of the programs an unload() has passed is loaded.
Passed(o, rest, progs) == \A p \in Recorded(o) \ rest : o.progs[p].id \notin progs

LoadedTogether ==
  \A s \in StateIds : \A o \in Copies(s) :
    IF pc = "unload" /\ s = cs THEN Passed(o, ptodo, loaded) ELSE AllOrNone(o, loaded)

\* No application uses the second function of a program.
PlainApps ==
  \A a \in Apps : (app[a] # None => app[a].fn = {}) /\ (list[a] # None => list[a].fn = {})

\* The application a state object names is the one that owns it.
OwnersOK ==
  /\ \A s \in StateIds : st[s] # None /\ app[st[s].app] # None => app[st[s].app].uid = st[s].uid
  /\ \A a \in Apps : list[a] # None /\ app[a] # None => app[a].uid = list[a].uid
  /\ pc \in AtState => cur.uid = orig.uid

\* The first status of a state object is being written for an application that
\* has gone meanwhile.
Newborn(a) ==
  /\ a = ca /\ app[a] = None
  /\ pc = "waitSpec" \/ (pc \in {"write", "waitStatus"} /\ cur.cond = "Pending")

\* The cache does not show the write yet that the reconcile waits for.
Behind(s) == pc = "waitStatus" /\ s = cs /\ stCache[s].count < cur.count

\* Outside the wait a cached copy carries the current status, and it is the
\* current version unless the application is on its way out.
CacheOK ==
  \A s \in StateIds : stCache[s] # None =>
    \/ Behind(s)
    \/ /\ st[s] # None => stCache[s].progs = st[s].progs /\ stCache[s].count = st[s].count
       /\ stCache[s] = st[s] \/ Leaving(stCache[s].app) \/ Newborn(stCache[s].app)

\* An object without a status was never updated.
CountsOK ==
  \A s \in StateIds : /\ st[s] # None /\ st[s].cond = "NoCond" =>
                           st[s].count = 0 /\ st[s].progs = NoProgs
                      /\ stCache[s] # None /\ stCache[s].cond = "NoCond" =>
                           stCache[s].count = 0 /\ stCache[s].progs = NoProgs

\* No reconcile that has seen an application alive finds it gone.
OwnerStays ==
  \A s \in StateIds : st[s] # None /\ app[st[s].app] = None => Leaving(st[s].app) \/ Newborn(st[s].app)

\* The object visited is the application's; until it is written it is the one
\* that was read, unless the application is on its way out.
VisitOK ==
  /\ pc \in AtState => /\ st[cs] # None => st[cs].app = ca
                       /\ stCache[cs] # None => stCache[cs].app = ca
  /\ pc \in AtState \ {"waitStatus"} =>
       /\ cur.count = orig.count
       /\ st[cs] # None => st[cs].progs = orig.progs
       /\ stCache[cs] # None => stCache[cs].progs = orig.progs
       /\ st[cs] = orig \/ Leaving(ca) \/ (pc = "write" /\ cur.cond = "Pending")

\* Of these programs and links, o records all that u does.
Covers(o, u, progs, lp) ==
  /\ \A i \in progs : RecordsProg(u, i) => RecordsProg(o, i)
  /\ \A l \in LinkIds : lp[l] # None /\ RecordsLink(u, l) => RecordsLink(o, l)

\* Nothing that is still there leaves the records before the write.
NothingDropped == pc \in AtState \ {"waitStatus"} => Covers(cur, orig, loaded, linkProg)

\* The visit, place by place: what has been loaded or attached in it will be
\* written, and the write will be accepted.
PlaceOK ==
  /\ pc = "load" => cur = orig /\ listChanged = FALSE
  /\ pc = "unload" => \A p \in ptodo : cur.progs[p] = orig.progs[p]
  /\ pc \in {"programs", "links"} =>
       \/ ~Busy(cur)
       \/ isLoaded(cur) /\ listChanged = FALSE /\ ptodo \subseteq Recorded(cur)
  /\ pc = "write" => ~Busy(cur) \/ (cur.cond # "" /\ (~list[ca].deleting \/ cur.progs = orig.progs))
  /\ pc = "finalizer" => ~Busy(cur)
  /\ pc = "waitStatus" => ~Busy(cur) \/ (st[cs] # None /\ st[cs].progs = cur.progs)

\* Where a copy that was read records a program, the object is still there and
\* holds its finalizer.
Held(o, s) == o # None /\ Busy(o) => st[s] # None /\ st[s].finalizer

HeldInv ==
  /\ \A s \in StateIds : Held(stCache[s], s)
  /\ pc \in AtState \ {"waitStatus"} => Held(orig, cs)

\* What bpfman holds is recorded.
Recorders == {st[s] : s \in StateIds} \cup (IF pc \in AtState THEN {cur} ELSE {})

NothingOrphaned ==
  /\ \A i \in loaded : \E o \in Recorders : o # None /\ RecordsProg(o, i)
  /\ \A l \in LinkIds : linkProg[l] # None => \E o \in Recorders : o # None /\ RecordsLink(o, l)

\* The part about objects and caches, and the part about bpfman.
ObjectInv == PlainApps /\ OwnersOK /\ CountsOK /\ CacheOK /\ OwnerStays /\ VisitOK

RecordsInv ==
  /\ DaemonOK /\ RecordsSound /\ OneRecord /\ LoadedTogether
  /\ NothingDropped /\ PlaceOK /\ NothingOrphaned

(***************************************************************************)
(* The objects and the cache.                                              *)
(***************************************************************************)
\* A step of a visit changes neither the owner nor the count.
LEMMA VisitMeta ==
  ASSUME DataInv, LoadStep \/ LinkStep \/ EndStep
  PROVE  /\ pc \in {"load", "unload", "programs", "links"}
         /\ pc' \in AtState => cur'.uid = cur.uid /\ cur'.count = cur.count
<1>1. pc \in {"load", "unload", "programs", "links"}
  BY DEF LoadStep, BeginUnload, UnloadDone, ProgramListInvalid, NodeSelectorInvalid, AlreadyLoaded, load,
         loadFails, unload, MustLoad, LoadError, LinkStep, ProgramStateMissing, updateLinks, updateLinksFails,
         LinkInPlace, LinkAttach, LinkAttachFails, LinkPanic, LinkDetach, BpfmanDetach, LinkDetachFails, LinkDrop,
         LinksDone, AtLink, VisitLink, EndStep, StatusChanged, StatusUnchanged, VisitOver
<1>2. cur \in StateObj
  BY <1>1, VisitFacts DEF AtState
<1> SUFFICES ASSUME pc' \in AtState PROVE cur'.uid = cur.uid /\ cur'.count = cur.count
  BY <1>1
<1>3. CASE BeginUnload \/ (\E p \in Progs : ProgramStateMissing(p))
  BY <1>3 DEF BeginUnload, ProgramStateMissing, appVars
<1>4. CASE UnloadDone \/ AlreadyLoaded \/ NodeSelectorInvalid \/ ProgramListInvalid \/ loadFails
  BY <1>2, <1>4 DEF UnloadDone, AlreadyLoaded, ProgramListInvalid, NodeSelectorInvalid, loadFails, LoadError, StateObj
<1>5. CASE load
  BY <1>2, <1>5 DEF load, WithIds, StateObj
<1>6. ASSUME NEW p \in Progs, unload(p) \/ updateLinks(p) \/ updateLinksFails(p)
      PROVE  cur'.uid = cur.uid /\ cur'.count = cur.count
  BY <1>2, <1>6 DEF unload, updateLinks, updateLinksFails, StateObj
<1>7. ASSUME NEW x \in Points, \/ LinkInPlace(x) \/ LinkAttach(x) \/ LinkAttachFails(x)
                               \/ LinkDetach(x) \/ LinkDetachFails(x) \/ LinkDrop(x)
      PROVE  cur'.uid = cur.uid /\ cur'.count = cur.count
  <2>1. \E new : VisitLink(x, new)
    BY <1>7 DEF LinkInPlace, LinkAttach, LinkAttachFails, LinkDetach, BpfmanDetach, LinkDetachFails, LinkDrop
  <2>2. QED
    BY <1>2, <2>1 DEF VisitLink, StateObj
<1>8. ASSUME NEW x \in Points, LinkPanic(x) PROVE FALSE
  BY <1>8 DEF LinkPanic, ReturnAndRequeue, ReturnLocals, AtState
<1>9. CASE LinksDone \/ StatusChanged
  BY <1>2, <1>9 DEF LinksDone, StatusChanged, FinalState, StateObj
<1>10. CASE StatusUnchanged
  BY <1>10 DEF StatusUnchanged, AtState, appVars
<1>11. QED
  BY <1>3, <1>4, <1>5, <1>6, <1>7, <1>8, <1>9, <1>10 DEF LoadStep, LinkStep, EndStep

\* An application that is leaving keeps leaving, whatever the reconcile does.
LEMMA LeavingStays ==
  ASSUME NEW a \in Apps, Leaving(a), UNCHANGED app, list' = list \/ list' = NoApps \/ list' = app
  PROVE  Leaving(a)'
BY DEF Leaving, NoApps

LEMMA InitObject == Init => ObjectInv
BY DEF Init, ObjectInv, PlainApps, OwnersOK, CountsOK, CacheOK, OwnerStays, VisitOK, AtState, NoApps

\* Reconcile() returns, and does not leave a wait for the cache too early.
LEMMA ReturnObject ==
  ASSUME ContractInv, ObjectInv, ReturnLocals, UNCHANGED <<st, stCache, app>>,
         \A s \in StateIds : stCache[s] # None => ~Behind(s)
  PROVE  ObjectInv'
<1>1. pc' = "idle" /\ list' = NoApps
  BY DEF ReturnLocals
<1>2. PlainApps' /\ OwnersOK' /\ CountsOK' /\ VisitOK'
  BY <1>1 DEF ObjectInv, PlainApps, OwnersOK, CountsOK, VisitOK, AtState, NoApps
<1>3. ASSUME NEW a \in Apps, Leaving(a) \/ Newborn(a) PROVE Leaving(a)'
  BY <1>1, <1>3, LeavingStays DEF Newborn, Leaving, NoApps
<1>4. \A s \in StateIds : /\ st[s] # None => st[s].app \in Apps
                          /\ stCache[s] # None => stCache[s].app \in Apps
  BY DEF ContractInv, DataInv, StateTypeOK, StateObj
<1>5. CacheOK'
  BY <1>3, <1>4 DEF ObjectInv, CacheOK
<1>6. OwnerStays'
  BY <1>3, <1>4 DEF ObjectInv, OwnerStays
<1>7. QED
  BY <1>2, <1>5, <1>6 DEF ObjectInv

LEMMA VisitObject ==
  ASSUME ContractInv, ObjectInv, LoadStep \/ LinkStep \/ EndStep
  PROVE  ObjectInv'
<1>1. DataInv
  BY DEF ContractInv
<1>2. /\ pc \in {"load", "unload", "programs", "links"} /\ pc \in AtState
      /\ UNCHANGED <<objVars, st, stCache>>
      /\ list' = list \/ list' = NoApps
      /\ pc' \in AtState => UNCHANGED <<list, ca, cs, orig>> /\ cur'.uid = cur.uid /\ cur'.count = cur.count
      /\ pc' \in AtState \cup {"idle", "next"}
  BY <1>1, VisitEffect, VisitMeta DEF loopVars, AtState
<1>3. UNCHANGED app /\ pc' # "waitStatus"
  BY <1>2, VisitControl DEF objVars
<1>4. ASSUME NEW a \in Apps, Leaving(a) \/ Newborn(a) PROVE Leaving(a)'
  BY <1>2, <1>3, <1>4, LeavingStays DEF Newborn
<1>5. \A s \in StateIds : /\ st[s] # None => st[s].app \in Apps
                          /\ stCache[s] # None => stCache[s].app \in Apps
  BY <1>1 DEF DataInv, StateTypeOK, StateObj
<1>6. CacheOK'
  BY <1>2, <1>4, <1>5 DEF ObjectInv, CacheOK, Behind
<1>7. OwnerStays'
  BY <1>2, <1>3, <1>4, <1>5 DEF ObjectInv, OwnerStays
<1>8. PlainApps' /\ OwnersOK' /\ CountsOK'
  BY <1>2, <1>3 DEF ObjectInv, PlainApps, OwnersOK, CountsOK, NoApps
<1>9. ca \in Apps
  BY <1>1, <1>2, VisitFacts
<1>10. VisitOK'
  BY <1>2, <1>3, <1>4, <1>9 DEF ObjectInv, VisitOK
<1>11. QED
  BY <1>6, <1>7, <1>8, <1>10 DEF ObjectInv

LEMMA LoopObject ==
  ASSUME ContractInv, ObjectInv, LoopStep
  PROVE  ObjectInv'
<1>1. \A s \in StateIds : /\ st[s] # None => st[s].app \in Apps
                          /\ stCache[s] # None => stCache[s].app \in Apps
  BY DEF ContractInv, DataInv, StateTypeOK, StateObj
<1>2. CASE ReconcileStart
  <2>1. UNCHANGED <<st, stCache, app>> /\ list' = app /\ pc' = "next" /\ pc = "idle"
    BY <1>2 DEF ReconcileStart, objVars
  <2>2. ASSUME NEW a \in Apps, Leaving(a) \/ Newborn(a) PROVE Leaving(a)'
    BY <2>1, <2>2, LeavingStays DEF Newborn
  <2>3. CacheOK' /\ OwnerStays'
    BY <1>1, <2>1, <2>2 DEF ObjectInv, CacheOK, OwnerStays, Behind
  <2>4. QED
    BY <2>1, <2>3 DEF ObjectInv, PlainApps, OwnersOK, CountsOK, VisitOK, AtState
<1>3. CASE ReconcileDone
  BY <1>3, ReturnObject DEF ReconcileDone, Return, objVars, Behind
<1>4. ASSUME NEW a \in Apps, DuplicateState(a) PROVE ObjectInv'
  BY <1>4, ReturnObject DEF DuplicateState, ReturnAndRequeue, objVars, Behind
<1>5. ASSUME NEW a \in Apps, SkipDeletedApp(a) \/ NeedState(a) PROVE ObjectInv'
  <2>1. UNCHANGED <<st, stCache, app, list>> /\ pc = "next" /\ pc' \in {"next", "create"}
    BY <1>5 DEF SkipDeletedApp, NeedState, objVars, loopVars
  <2>2. ASSUME NEW b \in Apps, Leaving(b) \/ Newborn(b) PROVE Leaving(b)'
    BY <2>1, <2>2, LeavingStays DEF Newborn
  <2>3. CacheOK' /\ OwnerStays'
    BY <1>1, <2>1, <2>2 DEF ObjectInv, CacheOK, OwnerStays, Behind
  <2>4. QED
    BY <2>1, <2>3 DEF ObjectInv, PlainApps, OwnersOK, CountsOK, VisitOK, AtState
<1>6. ASSUME NEW a \in Apps, NEW s \in StateIds, BeginApp(a, s) PROVE ObjectInv'
  <2>1. /\ UNCHANGED <<st, stCache, app, list>> /\ pc = "next" /\ pc' = "load" /\ ca' = a /\ cs' = s
        /\ orig' = stCache[s] /\ cur' = stCache[s] /\ stCache[s] # None /\ stCache[s].app = a
    BY <1>6 DEF BeginApp, objVars, loopVars, getBpfAppState
  <2>2. ASSUME NEW b \in Apps, Leaving(b) \/ Newborn(b) PROVE Leaving(b)'
    BY <2>1, <2>2, LeavingStays DEF Newborn
  <2>3. CacheOK' /\ OwnerStays'
    BY <1>1, <2>1, <2>2 DEF ObjectInv, CacheOK, OwnerStays, Behind
  <2>4. /\ st[s] # None => st[s].progs = stCache[s].progs /\ st[s].app = a
        /\ st[s] = stCache[s] \/ Leaving(a)
    BY <2>1 DEF ObjectInv, CacheOK, Behind, Newborn, ContractInv, AppAgree
  <2>5. VisitOK'
    BY <2>1, <2>2, <2>4 DEF VisitOK
  <2>6. QED
    BY <2>1, <2>3, <2>5 DEF ObjectInv, PlainApps, OwnersOK, CountsOK
<1>7. QED
  BY <1>2, <1>3, <1>4, <1>5, <1>6 DEF LoopStep

\* The new object and the wait for it.
LEMMA CreateObject ==
  ASSUME ContractInv, ObjectInv, createInitialBpfAppState
  PROVE  ObjectInv'
<1>1. /\ pc = "create" /\ pc' = "waitSpec" /\ UNCHANGED <<stCache, app, list, ca>>
      /\ ca \in Apps /\ list[ca] # None
  BY DEF createInitialBpfAppState, objVars, loopVars, appVars, ContractInv, DataInv, ControlOK
<1>2. PICK s \in StateIds : /\ st[s] = None /\ stCache[s] = None
                            /\ st' = [st EXCEPT ![s] = initBpfAppState(ca)]
  BY DEF createInitialBpfAppState
<1>3. /\ st'[s] = initBpfAppState(ca) /\ st'[s].app = ca /\ st'[s].uid = list[ca].uid
      /\ st'[s].count = 0 /\ st'[s].progs = NoProgs
      /\ \A t \in StateIds \ {s} : st'[t] = st[t]
  BY <1>2 DEF ContractInv, DataInv, StateTypeOK, initBpfAppState
<1>4. ASSUME NEW a \in Apps, Leaving(a) \/ Newborn(a) PROVE Leaving(a)'
  BY <1>1, <1>4, LeavingStays DEF Newborn
<1>5. \A t \in StateIds : /\ st[t] # None => st[t].app \in Apps
                          /\ stCache[t] # None => stCache[t].app \in Apps
  BY DEF ContractInv, DataInv, StateTypeOK, StateObj
<1>6. CacheOK'
  BY <1>1, <1>2, <1>3, <1>4, <1>5 DEF ObjectInv, CacheOK, Behind
<1>7. OwnerStays'
  <2>1. app'[ca] = None => Newborn(ca)'
    BY <1>1 DEF Newborn
  <2>2. QED
    BY <1>1, <1>3, <1>4, <1>5, <2>1 DEF ObjectInv, OwnerStays
<1>8. PlainApps' /\ OwnersOK' /\ VisitOK'
  BY <1>1, <1>3 DEF ObjectInv, PlainApps, OwnersOK, VisitOK, AtState
<1>9. CountsOK'
  BY <1>1, <1>3 DEF ObjectInv, CountsOK
<1>10. QED
  BY <1>6, <1>7, <1>8, <1>9 DEF ObjectInv

LEMMA FirstStatusObject ==
  ASSUME ContractInv, ObjectInv, NEW s \in StateIds, waitForBpfAppStateSpecUpdate(s)
  PROVE  ObjectInv'
<1>1. /\ UNCHANGED <<st, stCache, app, list, ca>> /\ pc = "waitSpec" /\ pc' = "write" /\ cs' = s
      /\ orig' = stCache[s] /\ cur' = initBpfAppStateStatus(stCache[s], list[ca])
      /\ stCache[s] # None /\ stCache[s].app = ca /\ ca \in Apps
  BY DEF waitForBpfAppStateSpecUpdate, objVars, loopVars, getBpfAppState, ContractInv, DataInv, ControlOK
<1>2. stCache[s] \in StateObj
  BY <1>1 DEF ContractInv, DataInv, StateTypeOK
<1>3. cur'.uid = stCache[s].uid /\ cur'.cond = "Pending" /\ cur'.count = 0
  BY <1>1, <1>2 DEF initBpfAppStateStatus, StateObj
<1>4. ASSUME NEW a \in Apps, Leaving(a) \/ Newborn(a) PROVE (Leaving(a) \/ Newborn(a))'
  BY <1>1, <1>3, <1>4, LeavingStays DEF Newborn
<1>5. \A t \in StateIds : /\ st[t] # None => st[t].app \in Apps
                          /\ stCache[t] # None => stCache[t].app \in Apps
  BY DEF ContractInv, DataInv, StateTypeOK, StateObj
<1>6. CacheOK' /\ OwnerStays'
  BY <1>1, <1>4, <1>5 DEF ObjectInv, CacheOK, OwnerStays, Behind
<1>7. VisitOK'
  <2>1. st[s] # None => st[s].progs = stCache[s].progs /\ st[s].app = ca
    BY <1>1 DEF ObjectInv, CacheOK, Behind, ContractInv, AppAgree
  <2>2. stCache[s].count = 0
    <3>1. stCache[s].cond = "NoCond"
      BY <1>1 DEF ContractInv, FirstStatusOK
    <3>2. QED
      BY <1>1, <3>1 DEF ObjectInv, CountsOK
  <2>3. QED
    BY <1>1, <1>3, <2>1, <2>2 DEF VisitOK
<1>8. QED
  BY <1>1, <1>3, <1>6, <1>7 DEF ObjectInv, PlainApps, OwnersOK, CountsOK

\* After the write the cache is behind until it shows the new count.
LEMMA UpdateObject ==
  ASSUME ContractInv, ObjectInv, updateBpfAppStateStatus
  PROVE  ObjectInv'
<1>1. /\ UNCHANGED <<stCache, app, list, ca, cs, orig>> /\ pc = "write" /\ pc' = "waitStatus"
      /\ st[cs] = orig /\ cur' = [cur EXCEPT !.count = @ + 1]
      /\ st' = [st EXCEPT ![cs] = cur'] /\ pc \in AtState
  BY DEF updateBpfAppStateStatus, Accepted, objVars, loopVars, AtState
<1>2. /\ cur \in StateObj /\ orig \in StateObj /\ cs \in StateIds /\ orig # None /\ ca \in Apps
      /\ cur.app = ca /\ orig.app = ca
  BY <1>1, VisitFacts, NoneAssumption DEF ContractInv, SameMeta
<1>3. /\ cur'.count = cur.count + 1 /\ cur.count \in Nat
      /\ cur'.app = ca /\ cur'.uid = cur.uid /\ cur'.cond = cur.cond
  BY <1>1, <1>2 DEF StateObj
<1>4. st'[cs] = cur' /\ \A t \in StateIds \ {cs} : st'[t] = st[t]
  BY <1>1, <1>2 DEF ContractInv, DataInv, StateTypeOK
<1>5. ASSUME NEW a \in Apps, Leaving(a) \/ Newborn(a) PROVE (Leaving(a) \/ Newborn(a))'
  BY <1>1, <1>3, <1>5, LeavingStays DEF Newborn
<1>6. \A t \in StateIds : /\ st[t] # None => st[t].app \in Apps
                          /\ stCache[t] # None => stCache[t].app \in Apps
  BY DEF ContractInv, DataInv, StateTypeOK, StateObj
<1>7. CacheOK'
  <2>1. ASSUME stCache[cs] # None PROVE Behind(cs)'
    <3>1. stCache[cs].count = cur.count
      BY <1>1, <1>2, <2>1 DEF ObjectInv, CacheOK, VisitOK, Behind
    <3>2. QED
      BY <1>1, <1>3, <3>1 DEF Behind
  <2>2. ASSUME NEW t \in StateIds \ {cs}, stCache[t] # None
        PROVE  /\ st'[t] # None => stCache[t].progs = st'[t].progs /\ stCache[t].count = st'[t].count
               /\ stCache[t] = st'[t] \/ (Leaving(stCache[t].app) \/ Newborn(stCache[t].app))'
    BY <1>1, <1>4, <1>5, <1>6, <2>2 DEF ObjectInv, CacheOK, Behind
  <2>3. QED
    BY <1>1, <2>1, <2>2 DEF CacheOK
<1>8. OwnerStays'
  <2>1. app[ca] = None => (Leaving(ca) \/ Newborn(ca))'
    BY <1>1, <1>2, <1>5 DEF ObjectInv, OwnerStays
  <2>2. QED
    BY <1>1, <1>3, <1>4, <1>5, <1>6, <2>1 DEF ObjectInv, OwnerStays
<1>9. OwnersOK'
  BY <1>1, <1>2, <1>3, <1>4 DEF ObjectInv, OwnersOK
<1>10. CountsOK'
  <2>1. cur'.cond # "NoCond"
    BY <1>1, <1>3 DEF ContractInv, FirstStatusOK
  <2>2. QED
    BY <1>1, <1>4, <2>1 DEF ObjectInv, CountsOK
<1>11. VisitOK' /\ PlainApps'
  BY <1>1, <1>3, <1>4 DEF ObjectInv, VisitOK, PlainApps
<1>12. QED
  BY <1>7, <1>8, <1>9, <1>10, <1>11 DEF ObjectInv

\* An object whose application is leaving, or was gone before the object was
\* first written, changes its deletion marks only or disappears.
LEMMA MarkObject ==
  ASSUME ContractInv, ObjectInv, NEW s \in StateIds, st[s] # None, NEW n \in StateObj \cup {None},
         st' = [st EXCEPT ![s] = n], UNCHANGED <<stCache, app>>,
         n # None => /\ n.app = st[s].app /\ n.uid = st[s].uid /\ n.count = st[s].count
                     /\ n.progs = st[s].progs /\ n.cond = st[s].cond,
         Leaving(st[s].app) \/ Newborn(st[s].app),
         UNCHANGED agentVars \/ (pc # "waitStatus" /\ ReturnLocals)
  PROVE  ObjectInv'
<1>1. st'[s] = n /\ \A t \in StateIds \ {s} : st'[t] = st[t]
  BY DEF ContractInv, DataInv, StateTypeOK
<1>2. \A t \in StateIds : /\ st[t] # None => st[t].app \in Apps
                          /\ stCache[t] # None => stCache[t].app \in Apps
  BY DEF ContractInv, DataInv, StateTypeOK, StateObj
<1>3. \/ UNCHANGED <<pc, list, ca, cs, orig, cur>>
      \/ pc # "waitStatus" /\ pc' = "idle" /\ list' = NoApps
  BY DEF agentVars, loopVars, appVars, ReturnLocals
<1>4. ASSUME NEW a \in Apps, Leaving(a) \/ Newborn(a) PROVE (Leaving(a) \/ Newborn(a))'
  <2>1. CASE pc' = "idle" /\ list' = NoApps
    BY <1>4, <2>1, LeavingStays DEF Newborn, Leaving, NoApps
  <2>2. CASE UNCHANGED <<pc, list, ca, cs, orig, cur>>
    BY <1>4, <2>2, LeavingStays DEF Newborn
  <2>3. QED
    BY <1>3, <2>1, <2>2
<1>5. CacheOK'
  <2>1. SUFFICES ASSUME NEW t \in StateIds, stCache[t] # None
                 PROVE  \/ Behind(t)'
                        \/ /\ st'[t] # None => stCache[t].progs = st'[t].progs /\ stCache[t].count = st'[t].count
                           /\ stCache[t] = st'[t] \/ (Leaving(stCache[t].app) \/ Newborn(stCache[t].app))'
    BY DEF CacheOK
  <2>2. CASE Behind(t)
    BY <1>3, <2>2 DEF Behind
  <2>3. CASE ~Behind(t)
    <3>1. /\ st[t] # None => stCache[t].progs = st[t].progs /\ stCache[t].count = st[t].count
          /\ stCache[t] = st[t] \/ Leaving(stCache[t].app) \/ Newborn(stCache[t].app)
      BY <2>1, <2>3 DEF ObjectInv, CacheOK
    <3>2. CASE t = s
      <4>1. stCache[s].app = st[s].app
        BY <2>1, <3>2 DEF ContractInv, AppAgree
      <4>2. QED
        BY <1>1, <1>2, <1>4, <2>1, <3>1, <3>2, <4>1
    <3>3. QED
      BY <1>1, <1>2, <1>4, <2>1, <3>1, <3>2
  <2>4. QED
    BY <2>2, <2>3
<1>6. OwnerStays'
  BY <1>1, <1>2, <1>4 DEF ObjectInv, OwnerStays
<1>7. OwnersOK' /\ PlainApps' /\ CountsOK'
  BY <1>1, <1>3 DEF ObjectInv, OwnersOK, PlainApps, CountsOK, NoApps, AtState
<1>8. VisitOK'
  <2>1. CASE pc' = "idle"
    BY <2>1 DEF VisitOK, AtState
  <2>2. CASE UNCHANGED <<pc, list, ca, cs, orig, cur>>
    <3>1. SUFFICES ASSUME pc \in AtState PROVE VisitOK'
      BY <2>2 DEF VisitOK
    <3>2. cs \in StateIds /\ ca \in Apps
      BY <3>1, VisitFacts DEF ContractInv
    <3>3. ASSUME cs = s, pc # "waitStatus" PROVE Leaving(ca)' \/ (pc = "write" /\ cur.cond = "Pending")
      <4>1. st[s].app = ca
        BY <3>1, <3>3 DEF ObjectInv, VisitOK
      <4>2. QED
        BY <2>2, <3>1, <3>2, <3>3, <4>1, LeavingStays DEF Newborn, AtState
    <3>4. ASSUME Leaving(ca) PROVE Leaving(ca)'
      BY <2>2, <3>2, <3>4, LeavingStays
    <3>5. QED
      BY <1>1, <2>2, <3>1, <3>2, <3>3, <3>4 DEF ObjectInv, VisitOK
  <2>3. QED
    BY <1>3, <2>1, <2>2
<1>9. QED
  BY <1>5, <1>6, <1>7, <1>8 DEF ObjectInv

LEMMA ReleaseObject ==
  ASSUME ContractInv, ObjectInv, removeFinalizer
  PROVE  ObjectInv'
<1>1. /\ UNCHANGED <<stCache, app>> /\ pc = "finalizer" /\ ReturnLocals
      /\ st[cs] = orig /\ pc \in AtState
      /\ st' = [st EXCEPT ![cs] = IF orig.deleting THEN None ELSE [orig EXCEPT !.finalizer = FALSE]]
  BY DEF removeFinalizer, Return, objVars, AtState
<1>2. /\ orig \in StateObj /\ cs \in StateIds /\ orig # None /\ ca \in Apps /\ orig.app = ca
  BY <1>1, VisitFacts, NoneAssumption DEF ContractInv, SameMeta
<1> DEFINE o == [orig EXCEPT !.finalizer = FALSE]
<1>3. /\ o \in StateObj /\ o.app = orig.app /\ o.uid = orig.uid /\ o.count = orig.count
      /\ o.progs = orig.progs /\ o.cond = orig.cond
  BY <1>2 DEF StateObj
<1>4. st' = [st EXCEPT ![cs] = IF orig.deleting THEN None ELSE o]
  BY <1>1
<1> HIDE DEF o
<1>5. PICK n \in StateObj \cup {None} : st' = [st EXCEPT ![cs] = n] /\ (n # None => n = o)
  BY <1>3, <1>4
<1>6. Leaving(st[cs].app)
  BY <1>1, <1>2 DEF ContractInv, ReleaseOK, DeletionStays, Leaving, DataInv, ControlOK
<1>7. n # None => /\ n.app = st[cs].app /\ n.uid = st[cs].uid /\ n.count = st[cs].count
                  /\ n.progs = st[cs].progs /\ n.cond = st[cs].cond
  BY <1>1, <1>3, <1>5
<1>8. QED
  BY <1>1, <1>2, <1>5, <1>6, <1>7, MarkObject

LEMMA WriteObject ==
  ASSUME "timeout" \notin Faults, ContractInv, ObjectInv, WriteStep
  PROVE  ObjectInv'
<1>1. CASE createInitialBpfAppStateFails
  BY <1>1, ReturnObject DEF createInitialBpfAppStateFails, ReturnAndRequeue, objVars, Behind
<1>2. ASSUME NEW s \in StateIds, waitForBpfAppStateStatusUpdate(s) PROVE ObjectInv'
  <2>1. /\ pc = "waitStatus" /\ getBpfAppState(ca) = {s} /\ stCache[s].count >= cur.count
        /\ ReturnLocals /\ UNCHANGED <<st, stCache, app>>
    BY <1>2 DEF waitForBpfAppStateStatusUpdate, StatusSeen, Return, objVars
  <2>2. cs \in StateIds /\ stCache \in [StateIds -> StateObj \cup {None}] /\ cur \in StateObj
    BY <2>1, VisitFacts DEF ContractInv, DataInv, StateTypeOK, AtState
  <2>3. ASSUME stCache[cs] # None PROVE ~Behind(cs)
    <3>1. stCache[cs].app = ca
      BY <2>1, <2>3 DEF ObjectInv, VisitOK, AtState
    <3>2. cs = s
      BY <2>1, <2>2, <2>3, <3>1 DEF getBpfAppState
    <3>3. QED
      BY <2>1, <2>2, <2>3, <3>2 DEF Behind, StateObj
  <2>4. QED
    BY <2>1, <2>3, ReturnObject DEF Behind
<1>3. ~waitForBpfAppStateSpecUpdateTimesOut /\ ~waitForBpfAppStateStatusUpdateTimesOut
  BY DEF waitForBpfAppStateSpecUpdateTimesOut, waitForBpfAppStateStatusUpdateTimesOut, Fault
<1>4. CASE updateBpfAppStateStatusFails
  BY <1>4, ReturnObject DEF updateBpfAppStateStatusFails, ReturnAndRequeue, objVars, Behind
<1>5. CASE removeFinalizerFails
  BY <1>5, ReturnObject DEF removeFinalizerFails, Return, objVars, Behind
<1>6. CASE initBpfAppStateStatusFails
  BY <1>6, ReturnObject DEF initBpfAppStateStatusFails, ReturnAndRequeue, objVars, Behind
<1>7. QED
  BY <1>1, <1>2, <1>3, <1>4, <1>5, <1>6, CreateObject, FirstStatusObject, UpdateObject, ReleaseObject
     DEF WriteStep

\* The applications change, but neither their number, their owners nor their
\* functions, and those that were leaving still are.
LEMMA AppObject ==
  ASSUME ContractInv, ObjectInv, UNCHANGED <<st, stCache, agentVars>>,
         \A a \in Apps : /\ app'[a] = None <=> app[a] = None
                         /\ app[a] # None => /\ app'[a].uid = app[a].uid /\ app'[a].fn = {}
                                             /\ app[a].deleting => app'[a].deleting
  PROVE  ObjectInv'
<1>1. UNCHANGED <<pc, list, ca, cs, orig, cur>>
  BY DEF agentVars, loopVars, appVars
<1>2. ASSUME NEW a \in Apps, Leaving(a) PROVE Leaving(a)'
  BY <1>1, <1>2 DEF Leaving
<1>3. ASSUME NEW a \in Apps, Newborn(a) PROVE Newborn(a)'
  BY <1>1, <1>3 DEF Newborn
<1>4. \A s \in StateIds : /\ st[s] # None => st[s].app \in Apps
                          /\ stCache[s] # None => stCache[s].app \in Apps
  BY DEF ContractInv, DataInv, StateTypeOK, StateObj
<1>5. CacheOK'
  <2>1. \A s \in StateIds : Behind(s) <=> Behind(s)'
    BY <1>1 DEF Behind
  <2>2. QED
    BY <1>2, <1>3, <1>4, <2>1 DEF ObjectInv, CacheOK
<1>6. OwnerStays'
  BY <1>2, <1>3, <1>4 DEF ObjectInv, OwnerStays
<1>7. PlainApps' /\ OwnersOK' /\ CountsOK'
  BY <1>1, <1>4 DEF ObjectInv, PlainApps, OwnersOK, CountsOK
<1>8. VisitOK'
  <2>1. pc \in AtState => ca \in Apps
    BY VisitFacts DEF ContractInv
  <2>2. QED
    BY <1>1, <1>2, <2>1 DEF ObjectInv, VisitOK
<1>9. QED
  BY <1>5, <1>6, <1>7, <1>8 DEF ObjectInv

LEMMA ClusterObject ==
  ASSUME ContractInv, ObjectInv, ClusterStep
  PROVE  ObjectInv'
<1>1. \A s \in StateIds : /\ st[s] # None => st[s].app \in Apps
                          /\ stCache[s] # None => stCache[s].app \in Apps
  BY DEF ContractInv, DataInv, StateTypeOK, StateObj
<1>2. ASSUME NEW s \in StateIds, SyncState(s) PROVE ObjectInv'
  <2>1. /\ UNCHANGED <<app, st, pc, list, ca, cs, orig, cur>>
        /\ stCache'[s] = st[s] /\ \A t \in StateIds \ {s} : stCache'[t] = stCache[t]
    BY <1>2 DEF SyncState, objVars, agentVars, loopVars, appVars, ContractInv, DataInv, StateTypeOK
  <2>2. ASSUME NEW a \in Apps, Leaving(a) \/ Newborn(a) PROVE (Leaving(a) \/ Newborn(a))'
    BY <2>1, <2>2 DEF Leaving, Newborn
  <2>3. CacheOK'
    <3>1. \A t \in StateIds \ {s} : Behind(t) => Behind(t)'
      BY <2>1 DEF Behind
    <3>2. QED
      BY <1>1, <2>1, <2>2, <3>1 DEF ObjectInv, CacheOK
  <2>4. OwnerStays' /\ PlainApps' /\ OwnersOK' /\ CountsOK'
    BY <1>1, <2>1, <2>2 DEF ObjectInv, OwnerStays, PlainApps, OwnersOK, CountsOK
  <2>5. VisitOK'
    <3>1. pc \in AtState => cs \in StateIds /\ ca \in Apps
      BY VisitFacts DEF ContractInv
    <3>2. ASSUME pc \in AtState, Leaving(ca) PROVE Leaving(ca)'
      BY <2>1, <3>2 DEF Leaving
    <3>3. QED
      BY <2>1, <3>1, <3>2 DEF ObjectInv, VisitOK
  <2>6. QED
    BY <2>3, <2>4, <2>5 DEF ObjectInv
<1>3. ASSUME NEW s \in StateIds, GarbageCollect(s) PROVE ObjectInv'
  <2>1. /\ UNCHANGED <<app, stCache, agentVars>> /\ st[s] # None /\ st[s] \in StateObj /\ ~OwnerAlive(s)
        /\ st' = [st EXCEPT ![s] = IF st[s].finalizer THEN [st[s] EXCEPT !.deleting = TRUE] ELSE None]
    BY <1>3 DEF GarbageCollect, objVars, ContractInv, DataInv, StateTypeOK
  <2> DEFINE o == [st[s] EXCEPT !.deleting = TRUE]
  <2>2. /\ o \in StateObj /\ o.app = st[s].app /\ o.uid = st[s].uid /\ o.count = st[s].count
        /\ o.progs = st[s].progs /\ o.cond = st[s].cond
    BY <2>1 DEF StateObj
  <2>3. st' = [st EXCEPT ![s] = IF st[s].finalizer THEN o ELSE None]
    BY <2>1
  <2> HIDE DEF o
  <2>4. PICK n \in StateObj \cup {None} : st' = [st EXCEPT ![s] = n] /\ (n # None => n = o)
    BY <2>2, <2>3
  <2>5. Leaving(st[s].app) \/ Newborn(st[s].app)
    BY <2>1 DEF OwnerAlive, ObjectInv, OwnersOK, OwnerStays
  <2>6. n # None => /\ n.app = st[s].app /\ n.uid = st[s].uid /\ n.count = st[s].count
                    /\ n.progs = st[s].progs /\ n.cond = st[s].cond
    BY <2>2, <2>4
  <2>7. QED
    BY <2>1, <2>4, <2>5, <2>6, MarkObject
<1>4. ASSUME NEW a \in Apps, OperatorRelease(a) PROVE ObjectInv'
  <2>1. /\ UNCHANGED <<st, stCache, pc, list, ca, cs, orig, cur>>
        /\ app[a] # None /\ app'[a] = None /\ \A b \in Apps \ {a} : app'[b] = app[b]
        /\ \A s \in StateIds : st[s] # None /\ st[s].app = a => ~st[s].finalizer
    BY <1>4 DEF OperatorRelease, agentVars, loopVars, appVars, ContractInv, DataInv, ObjTypeOK
  <2>2. ASSUME NEW b \in Apps, Leaving(b) PROVE Leaving(b)'
    BY <2>1, <2>2 DEF Leaving
  <2>3. ASSUME NEW b \in Apps, Newborn(b) PROVE Newborn(b)'
    BY <2>1, <2>3 DEF Newborn
  <2>4. CacheOK'
    <3>1. \A s \in StateIds : Behind(s) <=> Behind(s)'
      BY <2>1 DEF Behind
    <3>2. QED
      BY <1>1, <2>1, <2>2, <2>3, <3>1 DEF ObjectInv, CacheOK
  <2>5. ASSUME NEW s \in StateIds, st[s] # None, st[s].app = a PROVE Leaving(a)
    BY <2>1, <2>5 DEF ContractInv, CopiesOK, CopyOK
  <2>6. OwnerStays'
    BY <1>1, <2>1, <2>2, <2>3, <2>5 DEF ObjectInv, OwnerStays
  <2>7. PlainApps' /\ OwnersOK' /\ CountsOK'
    BY <1>1, <2>1 DEF ObjectInv, PlainApps, OwnersOK, CountsOK
  <2>8. VisitOK'
    <3>1. pc \in AtState => ca \in Apps
      BY VisitFacts DEF ContractInv
    <3>2. QED
      BY <2>1, <2>2, <3>1 DEF ObjectInv, VisitOK
  <2>9. QED
    BY <2>4, <2>6, <2>7, <2>8 DEF ObjectInv
<1>5. QED
  BY <1>2, <1>3, <1>4 DEF ClusterStep

LEMMA CreateAppObject ==
  ASSUME "recreate" \notin Faults, ContractInv, ObjectInv, NEW a \in Apps, UserCreate(a)
  PROVE  ObjectInv'
<1>1. /\ UNCHANGED <<st, stCache, pc, list, ca, cs, orig, cur>> /\ list[a] = None
      /\ \A s \in StateIds : /\ stCache[s] # None => stCache[s].app # a
                             /\ st[s] # None => st[s].app # a
  BY DEF UserCreate, Twice, Selectors, getBpfAppState, agentVars, loopVars, appVars
<1>2. app'[a].fn = {} /\ app'[a] # None /\ \A b \in Apps \ {a} : app'[b] = app[b]
  <2>1. PICK P \in SUBSET Progs, W \in SUBSET (Progs \X Points), D \in SUBSET Progs, sel \in {"valid", "malformed"} :
          app' = [app EXCEPT ![a] = [uid |-> created[a] + 1, deleting |-> FALSE, progs |-> P, twice |-> D,
                                     fn |-> {}, want |-> W, selector |-> sel]]
    <3>1. Twice \subseteq SUBSET Progs /\ Selectors \subseteq {"valid", "malformed"}
      BY DEF Twice, Selectors
    <3>2. QED
      BY <3>1 DEF UserCreate
  <2>2. app \in [Apps -> AppObj \cup {None}] /\ created[a] + 1 \in Nat
    BY DEF ContractInv, DataInv, ObjTypeOK
  <2>3. [uid |-> created[a] + 1, deleting |-> FALSE, progs |-> P, twice |-> D, fn |-> {}, want |-> W,
         selector |-> sel] \in AppObj
    BY <2>2 DEF AppObj
  <2>4. QED
    BY <2>1, <2>2, <2>3, NoneAssumption
<1>3. ASSUME NEW b \in Apps \ {a}, Leaving(b) PROVE Leaving(b)'
  BY <1>1, <1>2, <1>3 DEF Leaving
<1>4. ASSUME NEW b \in Apps \ {a}, Newborn(b) PROVE Newborn(b)'
  BY <1>1, <1>2, <1>4 DEF Newborn
<1>5. \A s \in StateIds : /\ st[s] # None => st[s].app \in Apps \ {a}
                          /\ stCache[s] # None => stCache[s].app \in Apps \ {a}
  BY <1>1 DEF ContractInv, DataInv, StateTypeOK, StateObj
<1>6. CacheOK'
  <2>1. \A s \in StateIds : Behind(s) <=> Behind(s)'
    BY <1>1 DEF Behind
  <2>2. QED
    BY <1>1, <1>3, <1>4, <1>5, <2>1 DEF ObjectInv, CacheOK
<1>7. OwnerStays'
  BY <1>1, <1>2, <1>3, <1>4, <1>5 DEF ObjectInv, OwnerStays
<1>8. PlainApps' /\ OwnersOK' /\ CountsOK'
  BY <1>1, <1>2, <1>5 DEF ObjectInv, PlainApps, OwnersOK, CountsOK
<1>9. VisitOK'
  <2>1. pc \in AtState => ca \in Apps \ {a}
    BY <1>1, VisitFacts DEF ContractInv, DataInv, ControlOK
  <2>2. QED
    BY <1>1, <1>3, <2>1 DEF ObjectInv, VisitOK
<1>10. QED
  BY <1>6, <1>7, <1>8, <1>9 DEF ObjectInv

LEMMA EnvironmentObject ==
  ASSUME Separating \cap Faults = {}, ContractInv, ObjectInv, EnvironmentStep
  PROVE  ObjectInv'
<1>1. "crash" \notin Faults /\ "recreate" \notin Faults /\ "retype" \notin Faults
  BY DEF Separating
<1>2. ~Crash
  BY <1>1 DEF Crash, Fault
<1>3. \A a \in Apps : app[a] # None => app[a] \in AppObj /\ app[a].fn = {}
  BY DEF ContractInv, DataInv, ObjTypeOK, ObjectInv, PlainApps
<1>4. ASSUME NEW a \in Apps, UserDelete(a) PROVE ObjectInv'
  <2> DEFINE ap == [app[a] EXCEPT !.deleting = TRUE]
  <2>1. /\ app[a] # None /\ UNCHANGED <<st, stCache, agentVars>> /\ app' = [app EXCEPT ![a] = ap]
    BY <1>4 DEF UserDelete, ContractInv, DataInv, ObjTypeOK
  <2>2. ap \in AppObj /\ ap.uid = app[a].uid /\ ap.fn = {} /\ ap.deleting = TRUE
    BY <1>3, <2>1 DEF AppObj
  <2> HIDE DEF ap
  <2>3. app'[a] = ap /\ \A b \in Apps \ {a} : app'[b] = app[b]
    BY <2>1 DEF ContractInv, DataInv, ObjTypeOK
  <2>4. QED
    BY <1>3, <2>1, <2>2, <2>3, NoneAssumption, AppObject
<1>5. ASSUME NEW a \in Apps, UserEdit(a) PROVE ObjectInv'
  <2>1. app[a] # None /\ UNCHANGED <<st, stCache, agentVars>>
    BY <1>5 DEF UserEdit
  <2>2. \/ \E W \in SUBSET (app[a].progs \X Points) : app' = [app EXCEPT ![a].want = W]
        \/ \E P \in SUBSET Progs, D \in SUBSET Progs : app' = [app EXCEPT ![a].progs = P, ![a].twice = D]
        \/ \E sel \in {"valid", "malformed"} : app' = [app EXCEPT ![a].selector = sel]
    <3>1. Twice \subseteq SUBSET Progs /\ Selectors \subseteq {"valid", "malformed"}
      BY DEF Twice, Selectors
    <3>2. QED
      BY <1>1, <1>5, <3>1 DEF UserEdit
  <2>3. PICK ap : /\ ap \in AppObj /\ ap.uid = app[a].uid /\ ap.fn = {} /\ ap.deleting = app[a].deleting
                  /\ app' = [app EXCEPT ![a] = ap]
    <3>1. app \in [Apps -> AppObj \cup {None}] /\ app[a] \in AppObj /\ app[a].fn = {}
      BY <1>3, <2>1 DEF ContractInv, DataInv, ObjTypeOK
    <3>2. ASSUME NEW W \in SUBSET (app[a].progs \X Points)
          PROVE  /\ [app[a] EXCEPT !.want = W] \in AppObj
                 /\ [app[a] EXCEPT !.want = W].uid = app[a].uid /\ [app[a] EXCEPT !.want = W].fn = {}
                 /\ [app[a] EXCEPT !.want = W].deleting = app[a].deleting
                 /\ [app EXCEPT ![a].want = W] = [app EXCEPT ![a] = [app[a] EXCEPT !.want = W]]
      BY <3>1 DEF AppObj
    <3>3. ASSUME NEW P \in SUBSET Progs, NEW D \in SUBSET Progs, app' = [app EXCEPT ![a].progs = P, ![a].twice = D]
          PROVE  \E ap : /\ ap \in AppObj /\ ap.uid = app[a].uid /\ ap.fn = {} /\ ap.deleting = app[a].deleting
                         /\ app' = [app EXCEPT ![a] = ap]
      <4> DEFINE ap == [app[a] EXCEPT !.progs = P, !.twice = D]
      <4>1. ap \in AppObj /\ ap.uid = app[a].uid /\ ap.fn = {} /\ ap.deleting = app[a].deleting
        BY <3>1 DEF AppObj
      <4>2. app' = [app EXCEPT ![a] = ap]
        BY <3>1, <3>3
      <4> HIDE DEF ap
      <4>3. QED
        BY <4>1, <4>2
    <3>4. ASSUME NEW sel \in {"valid", "malformed"}
          PROVE  /\ [app[a] EXCEPT !.selector = sel] \in AppObj
                 /\ [app[a] EXCEPT !.selector = sel].uid = app[a].uid /\ [app[a] EXCEPT !.selector = sel].fn = {}
                 /\ [app[a] EXCEPT !.selector = sel].deleting = app[a].deleting
                 /\ [app EXCEPT ![a].selector = sel] = [app EXCEPT ![a] = [app[a] EXCEPT !.selector = sel]]
      BY <3>1 DEF AppObj
    <3>5. QED
      BY <2>2, <3>2, <3>3, <3>4
  <2>4. app'[a] = ap /\ \A b \in Apps \ {a} : app'[b] = app[b]
    BY <2>3 DEF ContractInv, DataInv, ObjTypeOK
  <2>5. QED
    BY <1>3, <2>1, <2>3, <2>4, NoneAssumption, AppObject
<1>6. CASE Resync \/ (\E a \in Apps : RelabelNode(a)) \/ (\E x \in Points : PointChanges(x))
           \/ (\E i \in ProgIds : ProgramLost(i))
  <2>1. UNCHANGED <<app, st, stCache, agentVars>>
    BY <1>6 DEF Resync, RelabelNode, PointChanges, ProgramLost, objVars
  <2>2. QED
    BY <1>3, <2>1, AppObject
<1>7. QED
  BY <1>1, <1>2, <1>4, <1>5, <1>6, CreateAppObject DEF EnvironmentStep

\* Next in groups of actions.
LEMMA NextKinds ==
  ASSUME [Next]_vars
  PROVE  \/ LoopStep \/ WriteStep \/ LoadStep \/ LinkStep \/ EndStep \/ ClusterStep
         \/ EnvironmentStep \/ UNCHANGED vars
BY Zenon DEF Next, ReconcileStep, LoopStep, WriteStep, LoadStep, LinkStep, EndStep

LEMMA ObjectInductive ==
  ASSUME Separating \cap Faults = {}, ContractInv, ObjectInv, [Next]_vars
  PROVE  ObjectInv'
<1>1. "timeout" \notin Faults
  BY DEF Separating
<1>2. CASE UNCHANGED vars
  <2>1. UNCHANGED <<app, st, stCache, agentVars>>
    BY <1>2 DEF vars, objVars, agentVars
  <2>2. \A a \in Apps : app[a] # None => app[a].fn = {}
    BY DEF ObjectInv, PlainApps
  <2>3. QED
    BY <2>1, <2>2, AppObject
<1>3. QED
  BY <1>1, <1>2, NextKinds, LoopObject, WriteObject, VisitObject, ClusterObject, EnvironmentObject

(***************************************************************************)
(* An object that records a program stays under its finalizer.             *)
(***************************************************************************)
\* One object is written: it keeps its finalizer, or no copy records a program.
LEMMA PutHeld ==
  ASSUME DataInv, HeldInv, UNCHANGED stCache, NEW s \in StateIds, NEW n, st' = [st EXCEPT ![s] = n],
         \/ st[s] # None /\ (st[s].finalizer => n # None /\ n.finalizer)
         \/ stCache[s] = None \/ ~Busy(stCache[s]),
         \/ pc' \notin AtState \ {"waitStatus"}
         \/ /\ UNCHANGED <<pc, orig, cs>> /\ st[s] # None /\ (st[s].finalizer => n # None /\ n.finalizer)
  PROVE  HeldInv'
<1>1. st'[s] = n /\ \A t \in StateIds \ {s} : st'[t] = st[t]
  BY DEF DataInv, StateTypeOK
<1>2. ASSUME NEW o PROVE Busy(o)' <=> Busy(o)
  BY DEF Busy, Recorded
<1>3. ASSUME NEW t \in StateIds PROVE Held(stCache[t], t)'
  <2>1. CASE t = s
    BY <1>1, <2>1 DEF HeldInv, Held, Busy, Recorded
  <2>2. CASE t # s
    BY <1>1, <2>2 DEF HeldInv, Held, Busy, Recorded
  <2>3. QED
    BY <2>1, <2>2
<1>4. ASSUME pc' \in AtState \ {"waitStatus"} PROVE Held(orig, cs)'
  <2>1. cs \in StateIds /\ Held(orig, cs)
    BY <1>4, VisitFacts DEF HeldInv
  <2>2. QED
    BY <1>1, <1>4, <2>1 DEF Held, Busy, Recorded
<1>5. QED
  BY <1>3, <1>4 DEF HeldInv

\* Neither the objects nor the cache change, and the agent goes on with the
\* object it read or reads one from the cache.
ReadStep ==
  /\ UNCHANGED <<st, stCache>>
  /\ \/ pc' \notin AtState \ {"waitStatus"}
     \/ UNCHANGED <<pc, orig, cs>>
     \/ pc \in AtState \ {"waitStatus"} /\ UNCHANGED <<orig, cs>>
     \/ cs' \in StateIds /\ orig' = stCache[cs']

LEMMA HeldInductive ==
  ASSUME "recreate" \notin Faults, ContractInv, ObjectInv, HeldInv, [Next]_vars
  PROVE  HeldInv'
<1>1. DataInv
  BY DEF ContractInv
<1>2. ASSUME ReadStep PROVE HeldInv'
  BY <1>2 DEF ReadStep, HeldInv, Held, Busy, Recorded
<1>3. CASE UNCHANGED vars
  BY <1>2, <1>3 DEF ReadStep, vars, appVars
<1>4. CASE LoopStep
  <2>1. ReadStep
    BY <1>4 DEF ReadStep, LoopStep, ReconcileStart, ReconcileDone, SkipDeletedApp, DuplicateState, NeedState, BeginApp,
                Return, ReturnAndRequeue, ReturnLocals, AtState
  <2>2. QED
    BY <1>2, <2>1
<1>5. CASE LoadStep \/ LinkStep \/ EndStep
  <2>1. ReadStep
    BY <1>1, <1>5, VisitEffect, VisitMeta DEF ReadStep, AtState
  <2>2. QED
    BY <1>2, <2>1
<1>6. CASE createInitialBpfAppState
  <2>1. pc' = "waitSpec" /\ UNCHANGED stCache
    BY <1>6 DEF createInitialBpfAppState
  <2>2. PICK s \in StateIds : stCache[s] = None /\ st' = [st EXCEPT ![s] = initBpfAppState(ca)]
    BY <1>6 DEF createInitialBpfAppState
  <2>3. QED
    BY <1>1, <2>1, <2>2, PutHeld DEF AtState
<1>7. CASE updateBpfAppStateStatus
  <2>1. /\ UNCHANGED stCache /\ pc = "write" /\ pc' = "waitStatus" /\ st[cs] = orig
        /\ cur' = [cur EXCEPT !.count = @ + 1] /\ st' = [st EXCEPT ![cs] = cur']
    BY <1>7 DEF updateBpfAppStateStatus, Accepted
  <2>2. cs \in StateIds /\ cur \in StateObj /\ orig # None /\ cur.finalizer = orig.finalizer
    BY <1>1, <2>1, VisitFacts, NoneAssumption DEF AtState, ContractInv, SameMeta
  <2>3. cur' \in StateObj /\ cur'.finalizer = orig.finalizer
    BY <2>1, <2>2 DEF StateObj
  <2>4. PICK n \in StateObj : n.finalizer = orig.finalizer /\ st' = [st EXCEPT ![cs] = n]
    BY <2>1, <2>3
  <2>5. QED
    BY <1>1, <2>1, <2>2, <2>4, PutHeld, NoneAssumption
<1>8. CASE removeFinalizer
  <2>1. /\ UNCHANGED stCache /\ pc = "finalizer" /\ pc' = "idle"
        /\ \E n : st' = [st EXCEPT ![cs] = n]
    BY <1>8 DEF removeFinalizer, Return, ReturnLocals
  <2>2. cs \in StateIds /\ ~Busy(orig) /\ (stCache[cs] # None => stCache[cs].progs = orig.progs)
    BY <1>1, <2>1, VisitFacts DEF AtState, ContractInv, ReleaseOK, ObjectInv, VisitOK
  <2>3. stCache[cs] = None \/ ~Busy(stCache[cs])
    BY <2>2 DEF Busy, Recorded
  <2>4. QED
    BY <1>1, <2>1, <2>2, <2>3, PutHeld DEF AtState
<1>9. CASE WriteStep /\ ~createInitialBpfAppState /\ ~updateBpfAppStateStatus /\ ~removeFinalizer
  <2>1. ReadStep
    BY <1>9
       DEF ReadStep, WriteStep, createInitialBpfAppStateFails, waitForBpfAppStateSpecUpdate,
           waitForBpfAppStateStatusUpdate, initBpfAppStateStatusFails, waitForBpfAppStateSpecUpdateTimesOut,
           waitForBpfAppStateStatusUpdateTimesOut, updateBpfAppStateStatusFails, removeFinalizerFails,
           Return, ReturnAndRequeue, ReturnLocals, AtState
  <2>2. QED
    BY <1>2, <2>1
<1>10. ASSUME NEW s \in StateIds, SyncState(s) PROVE HeldInv'
  <2>1. /\ UNCHANGED <<st, pc, orig, cs>>
        /\ stCache'[s] = st[s] /\ \A t \in StateIds \ {s} : stCache'[t] = stCache[t]
    BY <1>1, <1>10 DEF SyncState, agentVars, appVars, DataInv, StateTypeOK
  <2>2. Held(st[s], s)
    BY DEF Held, ContractInv, CopiesOK, CopyOK
  <2>3. QED
    BY <2>1, <2>2 DEF HeldInv, Held, Busy, Recorded
<1>11. ASSUME NEW s \in StateIds, GarbageCollect(s) PROVE HeldInv'
  <2>1. /\ UNCHANGED <<stCache, pc, orig, cs>> /\ st[s] # None /\ st[s] \in StateObj
        /\ st' = [st EXCEPT ![s] = IF st[s].finalizer THEN [st[s] EXCEPT !.deleting = TRUE] ELSE None]
    BY <1>1, <1>11 DEF GarbageCollect, agentVars, appVars, DataInv, StateTypeOK
  <2> DEFINE o == [st[s] EXCEPT !.deleting = TRUE]
  <2>2. o \in StateObj /\ o.finalizer = st[s].finalizer
    BY <2>1 DEF StateObj
  <2>3. st' = [st EXCEPT ![s] = IF st[s].finalizer THEN o ELSE None]
    BY <2>1
  <2> HIDE DEF o
  <2>4. PICK n : st' = [st EXCEPT ![s] = n] /\ (st[s].finalizer => n # None /\ n.finalizer)
    BY <2>2, <2>3, NoneAssumption
  <2>5. QED
    BY <1>1, <2>1, <2>4, PutHeld
<1>12. ASSUME NEW a \in Apps, OperatorRelease(a) PROVE HeldInv'
  BY <1>2, <1>12 DEF ReadStep, OperatorRelease, agentVars, appVars
<1>13. CASE Crash
  <2>1. UNCHANGED st /\ stCache' = st /\ pc' = "idle"
    BY <1>13 DEF Crash, ReturnAndRequeue, ReturnLocals
  <2>2. QED
    BY <2>1 DEF HeldInv, Held, Busy, Recorded, AtState, ContractInv, CopiesOK, CopyOK
<1>14. CASE EnvironmentStep /\ ~Crash
  <2>1. UNCHANGED <<st, stCache, agentVars>>
    BY <1>14 DEF EnvironmentStep, Resync, UserCreate, UserDelete, UserEdit, RelabelNode, PointChanges, ProgramLost
  <2>2. QED
    BY <1>2, <2>1 DEF ReadStep, agentVars, appVars
<1>15. CASE ClusterStep
  BY <1>10, <1>11, <1>12, <1>15 DEF ClusterStep
<1>16. QED
  BY <1>3, <1>4, <1>5, <1>6, <1>7, <1>8, <1>9, <1>13, <1>14, <1>15, NextKinds

(***************************************************************************)
(* The records: what follows from the programs of an object alone.         *)
(***************************************************************************)
\* No id, no link, no second function.
Blank(o) ==
  \A p \in Recorded(o) : o.progs[p].id = None /\ o.progs[p].fn = FALSE /\ o.progs[p].links = NoLinks

\* None of these programs and links is recorded.
Lifeless(o, progs, lp) ==
  /\ \A i \in progs : ~RecordsProg(o, i)
  /\ \A l \in LinkIds : lp[l] # None => ~RecordsLink(o, l)

LEMMA SameRecords ==
  ASSUME NEW o, NEW u, o.progs = u.progs
  PROVE  /\ Recorded(o) = Recorded(u) /\ (Busy(o) <=> Busy(u))
         /\ \A i : RecordsProg(o, i) <=> RecordsProg(u, i)
         /\ \A l : RecordsLink(o, l) <=> RecordsLink(u, l)
         /\ \A fp, fl, lp : Sound(u, fp, fl, lp) => Sound(o, fp, fl, lp)
         /\ \A progs : AllOrNone(u, progs) => AllOrNone(o, progs)
         /\ \A rest, progs : Passed(u, rest, progs) => Passed(o, rest, progs)
         /\ \A progs, lp : Covers(o, u, progs, lp)
<1>1. Recorded(o) = Recorded(u)
  BY DEF Recorded
<1>2. /\ Busy(o) <=> Busy(u)
      /\ \A i : RecordsProg(o, i) <=> RecordsProg(u, i)
      /\ \A l : RecordsLink(o, l) <=> RecordsLink(u, l)
  BY <1>1 DEF Busy, RecordsProg, RecordsLink
<1>3. /\ \A fp, fl, lp : Sound(u, fp, fl, lp) => Sound(o, fp, fl, lp)
      /\ \A progs : AllOrNone(u, progs) => AllOrNone(o, progs)
      /\ \A rest, progs : Passed(u, rest, progs) => Passed(o, rest, progs)
  BY <1>1 DEF Sound, AllOrNone, Passed
<1>4. QED
  BY <1>1, <1>2, <1>3 DEF Covers

LEMMA BlankRecords ==
  ASSUME NEW o, Blank(o), DataInv
  PROVE  /\ ~Busy(o) /\ Sound(o, freeProgs, freeLinks, linkProg)
         /\ \A i \in loaded : ~RecordsProg(o, i)
         /\ AllOrNone(o, loaded) /\ \A rest : Passed(o, rest, loaded)
<1>1. None \notin loaded /\ None \notin freeProgs
  BY BpfAgentAssumption DEF DataInv, DaemonTypeOK
<1>2. Sound(o, freeProgs, freeLinks, linkProg)
  BY <1>1 DEF Blank, Sound, SoundEntry, NoLinks
<1>3. QED
  BY <1>1, <1>2 DEF Blank, Busy, RecordsProg, AllOrNone, Passed

\* Without a program id there is nothing alive in an object.
LEMMA IdleLifeless ==
  ASSUME DataInv, NEW o \in StateObj, ~Busy(o), Sound(o, freeProgs, freeLinks, linkProg)
  PROVE  Lifeless(o, loaded, linkProg)
<1>1. None \notin loaded /\ None \notin LinkIds
  BY BpfAgentAssumption DEF DataInv, DaemonTypeOK
<1>2. ASSUME NEW l \in LinkIds, linkProg[l] # None, RecordsLink(o, l) PROVE FALSE
  <2>1. PICK p \in Recorded(o), x \in Points : o.progs[p].links[x] # None /\ o.progs[p].links[x].id = l
    BY <1>2 DEF RecordsLink
  <2>2. linkProg[l] = o.progs[p].id
    BY <1>1, <1>2, <2>1 DEF Sound, SoundEntry
  <2>3. QED
    BY <1>2, <2>2 DEF Busy
<1>3. QED
  BY <1>1, <1>2 DEF Lifeless, RecordsProg, Busy

LEMMA CopyType ==
  ASSUME DataInv, NEW s \in StateIds
  PROVE  \A o \in Copies(s) : o \in StateObj /\ o # None
BY DEF Copies, DataInv, StateTypeOK, LocalTypeOK

(***************************************************************************)
(* Steps that leave bpfman alone.                                          *)
(***************************************************************************)
\* Every version of an object carries the programs of an earlier one, or none.
LEMMA CopiesFollow ==
  ASSUME DataInv, RecordsSound, OneRecord, UNCHANGED daemonVars,
         \A s \in StateIds : \A o \in Copies(s)' : Blank(o) \/ \E u \in Copies(s) : o.progs = u.progs
  PROVE  RecordsSound' /\ OneRecord'
<1>1. UNCHANGED <<loaded, freeProgs, linkProg, freeLinks>>
  BY DEF daemonVars
<1>2. RecordsSound'
  <2>1. SUFFICES ASSUME NEW s \in StateIds, NEW o \in Copies(s)'
                 PROVE  Sound(o, freeProgs, freeLinks, linkProg)
    BY <1>1 DEF RecordsSound
  <2>2. CASE Blank(o)
    BY <2>2, BlankRecords
  <2>3. ASSUME NEW u \in Copies(s), o.progs = u.progs PROVE Sound(o, freeProgs, freeLinks, linkProg)
    BY <2>3, SameRecords DEF RecordsSound
  <2>4. QED
    BY <2>1, <2>2, <2>3
<1>3. OneRecord'
  <2>1. SUFFICES ASSUME NEW s \in StateIds, NEW t \in StateIds, s # t, NEW o \in Copies(s)', NEW u \in Copies(t)',
                        NEW i \in loaded, RecordsProg(o, i), RecordsProg(u, i)
                 PROVE  FALSE
    BY <1>1 DEF OneRecord
  <2>2. ~Blank(o) /\ ~Blank(u)
    BY <2>1, BlankRecords
  <2>3. PICK o1 \in Copies(s) : o.progs = o1.progs
    BY <2>1, <2>2
  <2>4. PICK u1 \in Copies(t) : u.progs = u1.progs
    BY <2>1, <2>2
  <2>5. RecordsProg(o1, i) /\ RecordsProg(u1, i)
    BY <2>1, <2>3, <2>4, SameRecords
  <2>6. QED
    BY <2>1, <2>3, <2>4, <2>5 DEF OneRecord
<1>4. QED
  BY <1>2, <1>3

LEMMA TogetherFollows ==
  ASSUME DataInv, LoadedTogether, UNCHANGED daemonVars,
         \A s \in StateIds : \A o \in Copies(s)' : Blank(o) \/ \E u \in Copies(s) : o.progs = u.progs,
         \/ pc # "unload" /\ pc' # "unload"
         \/ UNCHANGED <<pc, cs, ptodo>>
  PROVE  LoadedTogether'
<1>1. UNCHANGED loaded
  BY DEF daemonVars
<1>2. SUFFICES ASSUME NEW s \in StateIds, NEW o \in Copies(s)'
               PROVE  IF pc' = "unload" /\ s = cs' THEN Passed(o, ptodo', loaded) ELSE AllOrNone(o, loaded)
  BY <1>1 DEF LoadedTogether
<1>3. CASE Blank(o)
  BY <1>3, BlankRecords
<1>4. ASSUME NEW u \in Copies(s), o.progs = u.progs
      PROVE  IF pc' = "unload" /\ s = cs' THEN Passed(o, ptodo', loaded) ELSE AllOrNone(o, loaded)
  <2>1. IF pc = "unload" /\ s = cs THEN Passed(u, ptodo, loaded) ELSE AllOrNone(u, loaded)
    BY DEF LoadedTogether
  <2>2. QED
    BY <1>4, <2>1, SameRecords
<1>5. QED
  BY <1>2, <1>3, <1>4

\* Every object that recorded something alive has one that covers it.
LEMMA OrphansFollow ==
  ASSUME NothingOrphaned, UNCHANGED daemonVars,
         \A u \in Recorders : u # None => \/ Lifeless(u, loaded, linkProg)
                                          \/ \E o \in Recorders' : o # None /\ Covers(o, u, loaded, linkProg)
  PROVE  NothingOrphaned'
<1>1. UNCHANGED <<loaded, linkProg>>
  BY DEF daemonVars
<1>2. ASSUME NEW i \in loaded PROVE \E o \in Recorders' : o # None /\ RecordsProg(o, i)
  BY DEF NothingOrphaned, Lifeless, Covers
<1>3. ASSUME NEW l \in LinkIds, linkProg[l] # None PROVE \E o \in Recorders' : o # None /\ RecordsLink(o, l)
  BY <1>3 DEF NothingOrphaned, Lifeless, Covers
<1>4. QED
  BY <1>1, <1>2, <1>3 DEF NothingOrphaned

LEMMA QuietRecords ==
  ASSUME DataInv, RecordsInv, UNCHANGED <<st, stCache, daemonVars, agentVars>>
  PROVE  RecordsInv'
<1>1. /\ UNCHANGED <<pc, list, ca, cs, orig, cur, listChanged, ptodo>>
      /\ UNCHANGED <<loaded, freeProgs, linkProg, freeLinks>>
  BY DEF agentVars, loopVars, appVars, progVars, daemonVars
<1>2. \A s \in StateIds : Copies(s)' = Copies(s)
  BY <1>1 DEF Copies
<1>3. RecordsSound' /\ OneRecord'
  BY <1>2, CopiesFollow DEF RecordsInv
<1>4. LoadedTogether'
  BY <1>1, <1>2, TogetherFollows DEF RecordsInv
<1>5. Recorders' = Recorders
  BY <1>1 DEF Recorders
<1>6. NothingOrphaned'
  BY <1>1, <1>5 DEF RecordsInv, NothingOrphaned
<1>7. DaemonOK'
  BY <1>1 DEF RecordsInv, DaemonOK
<1>8. NothingDropped'
  BY <1>1 DEF RecordsInv, NothingDropped, Covers, RecordsProg, RecordsLink, Recorded
<1>9. PlaceOK'
  <2>1. PlaceOK
    BY DEF RecordsInv
  <2>2. (Busy(cur)' <=> Busy(cur)) /\ (isLoaded(cur)' <=> isLoaded(cur)) /\ Recorded(cur)' = Recorded(cur)
    BY <1>1 DEF Busy, isLoaded, Recorded
  <2>3. QED
    BY <1>1, <2>1, <2>2, Zenon DEF PlaceOK
<1>10. QED
  BY <1>3, <1>4, <1>6, <1>7, <1>8, <1>9 DEF RecordsInv

\* Reconcile() leaves a state object, or has none at hand: what it recorded is
\* lifeless or written.
LEMMA LeaveRecords ==
  ASSUME DataInv, RecordsInv, UNCHANGED <<st, stCache, daemonVars>>, pc # "unload",
         pc' \in {"idle", "next", "create"},
         pc \in AtState => ~Busy(cur) \/ (st[cs] # None /\ st[cs].progs = cur.progs)
  PROVE  RecordsInv'
<1>1. pc' \notin AtState /\ pc' # "unload" /\ UNCHANGED <<loaded, freeProgs, linkProg, freeLinks>>
  BY DEF AtState, daemonVars
<1>2. \A s \in StateIds : Copies(s)' \subseteq Copies(s)
  BY <1>1 DEF Copies
<1>3. RecordsSound' /\ OneRecord' /\ LoadedTogether'
  BY <1>1, <1>2, CopiesFollow, TogetherFollows DEF RecordsInv
<1>4. ASSUME NEW u \in Recorders, u # None
      PROVE  \/ Lifeless(u, loaded, linkProg)
             \/ \E o \in Recorders' : o # None /\ Covers(o, u, loaded, linkProg)
  <2>1. CASE \E s \in StateIds : u = st[s]
    BY <1>4, <2>1, SameRecords DEF Recorders
  <2>2. CASE pc \in AtState /\ u = cur
    <3>1. cs \in StateIds /\ cur \in StateObj /\ cur # None
      BY <2>2, VisitFacts, NoneAssumption
    <3>2. CASE ~Busy(cur)
      <4>1. Sound(cur, freeProgs, freeLinks, linkProg)
        BY <2>2, <3>1 DEF RecordsInv, RecordsSound, Copies
      <4>2. QED
        BY <2>2, <3>1, <3>2, <4>1, IdleLifeless
    <3>3. CASE st[cs] # None /\ st[cs].progs = cur.progs
      BY <2>2, <3>1, <3>3, SameRecords DEF Recorders
    <3>4. QED
      BY <2>2, <3>2, <3>3
  <2>3. QED
    BY <2>1, <2>2 DEF Recorders
<1>5. NothingOrphaned'
  BY <1>4, OrphansFollow DEF RecordsInv
<1>6. DaemonOK' /\ NothingDropped' /\ PlaceOK'
  BY <1>1 DEF RecordsInv, DaemonOK, NothingDropped, PlaceOK, AtState
<1>7. QED
  BY <1>3, <1>5, <1>6 DEF RecordsInv

LEMMA LoopRecords ==
  ASSUME DataInv, RecordsInv, LoopStep
  PROVE  RecordsInv'
<1>1. CASE ReconcileStart \/ ReconcileDone
           \/ (\E a \in Apps : SkipDeletedApp(a) \/ DuplicateState(a) \/ NeedState(a))
  <2>1. /\ UNCHANGED <<st, stCache, daemonVars>> /\ pc \in {"idle", "next"}
        /\ pc' \in {"idle", "next", "create"}
    BY <1>1 DEF ReconcileStart, ReconcileDone, SkipDeletedApp, DuplicateState, NeedState, Return,
                ReturnAndRequeue, ReturnLocals
  <2>2. QED
    BY <2>1, LeaveRecords DEF AtState
<1>2. ASSUME NEW a \in Apps, NEW s \in StateIds, BeginApp(a, s) PROVE RecordsInv'
  <2>1. /\ UNCHANGED <<st, stCache, daemonVars, list>> /\ pc = "next" /\ pc' = "load" /\ ca' = a /\ cs' = s
        /\ orig' = stCache[s] /\ cur' = stCache[s] /\ listChanged' = FALSE /\ stCache[s] # None
    BY <1>2 DEF BeginApp, loopVars, getBpfAppState
  <2>2. \A t \in StateIds : Copies(t)' = Copies(t)
    BY <2>1 DEF Copies, AtState
  <2>3. RecordsSound' /\ OneRecord' /\ LoadedTogether'
    BY <2>1, <2>2, CopiesFollow, TogetherFollows DEF RecordsInv
  <2>4. \A u \in Recorders : u \in Recorders'
    BY <2>1 DEF Recorders, AtState
  <2>5. NothingOrphaned'
    BY <2>1, <2>4, SameRecords, OrphansFollow DEF RecordsInv
  <2>6. DaemonOK'
    BY <2>1 DEF RecordsInv, DaemonOK, daemonVars
  <2>7. NothingDropped'
    BY <2>1 DEF NothingDropped, Covers
  <2>8. PlaceOK'
    BY <2>1 DEF PlaceOK
  <2>9. QED
    BY <2>3, <2>5, <2>6, <2>7, <2>8 DEF RecordsInv
<1>3. QED
  BY <1>1, <1>2 DEF LoopStep

(***************************************************************************)
(* Creating and writing.                                                   *)
(***************************************************************************)
LEMMA CreateRecords ==
  ASSUME DataInv, RecordsInv, createInitialBpfAppState
  PROVE  RecordsInv'
<1>1. pc = "create" /\ pc' = "waitSpec" /\ UNCHANGED <<stCache, daemonVars>>
  BY DEF createInitialBpfAppState
<1>2. PICK s \in StateIds : /\ st[s] = None /\ stCache[s] = None
                            /\ st' = [st EXCEPT ![s] = initBpfAppState(ca)]
  BY DEF createInitialBpfAppState
<1>3. /\ st'[s] = initBpfAppState(ca) /\ st'[s].progs = NoProgs
      /\ \A t \in StateIds \ {s} : st'[t] = st[t]
  BY <1>2 DEF DataInv, StateTypeOK, initBpfAppState
<1>4. Blank(st'[s])
  BY <1>3 DEF Blank, Recorded, NoProgs
<1>5. ASSUME NEW t \in StateIds, NEW o \in Copies(t)' PROVE Blank(o) \/ o \in Copies(t)
  BY <1>1, <1>2, <1>3, <1>4, <1>5 DEF Copies, AtState
<1>6. RecordsSound' /\ OneRecord' /\ LoadedTogether'
  BY <1>1, <1>5, CopiesFollow, TogetherFollows DEF RecordsInv
<1>7. \A u \in Recorders : u # None => u \in Recorders'
  BY <1>1, <1>2, <1>3 DEF Recorders, AtState
<1>8. NothingOrphaned'
  BY <1>1, <1>7, SameRecords, OrphansFollow DEF RecordsInv
<1>9. DaemonOK' /\ NothingDropped' /\ PlaceOK'
  BY <1>1 DEF RecordsInv, DaemonOK, NothingDropped, PlaceOK, AtState, daemonVars
<1>10. QED
  BY <1>6, <1>8, <1>9 DEF RecordsInv

\* The first status lists the programs and nothing about them.
LEMMA FirstStatusBlank ==
  ASSUME DataInv, PlainApps, NEW s \in StateIds, waitForBpfAppStateSpecUpdate(s)
  PROVE  cur' \in StateObj /\ Blank(cur') /\ cur'.cond = "Pending"
<1>1. /\ pc = "waitSpec" /\ cur' = initBpfAppStateStatus(stCache[s], list[ca]) /\ stCache[s] # None
  BY DEF waitForBpfAppStateSpecUpdate, getBpfAppState
<1>2. stCache[s] \in StateObj /\ list[ca] \in AppObj /\ list[ca] # None /\ ca \in Apps
  BY <1>1 DEF DataInv, StateTypeOK, LocalTypeOK, ControlOK
<1> DEFINE new == initBpfAppStateStatus(stCache[s], list[ca])
<1>3. new \in StateObj /\ new.progs = initializeNodeProgramList(list[ca]) /\ new.cond = "Pending"
  <2>1. new \in StateObj
    BY <1>2, InitStatusType
  <2>2. QED
    BY <1>2, <2>1 DEF initBpfAppStateStatus, StateObj
<1>4. cur' = new
  BY <1>1
<1> HIDE DEF new
<1>5. Blank(new)
  <2>1. list[ca].fn = {}
    BY <1>2 DEF PlainApps
  <2>2. ASSUME NEW p \in Recorded(new)
        PROVE  new.progs[p] = [id |-> None, fn |-> p \in list[ca].fn, attach |-> "Pending", links |-> NoLinks]
    BY <1>3, <2>2 DEF Recorded, initializeNodeProgramList
  <2>3. ASSUME NEW p \in Recorded(new)
        PROVE  new.progs[p].id = None /\ new.progs[p].links = NoLinks /\ new.progs[p].fn = (p \in list[ca].fn)
    <3> DEFINE b == p \in list[ca].fn
    <3>1. new.progs[p] = [id |-> None, fn |-> b, attach |-> "Pending", links |-> NoLinks]
      BY <2>2
    <3> HIDE DEF b
    <3>2. new.progs[p].id = None /\ new.progs[p].links = NoLinks /\ new.progs[p].fn = b
      BY <3>1
    <3>3. QED
      BY <3>2 DEF b
  <2>4. ASSUME NEW p PROVE (p \in list[ca].fn) = FALSE
    BY <2>1
  <2>5. QED
    BY <2>3, <2>4, Zenon DEF Blank
<1>6. QED
  BY <1>3, <1>4, <1>5

LEMMA FirstStatusRecords ==
  ASSUME ContractInv, ObjectInv, RecordsInv, NEW s \in StateIds, waitForBpfAppStateSpecUpdate(s)
  PROVE  RecordsInv'
<1>1. /\ UNCHANGED <<st, stCache, daemonVars, list, ca>> /\ pc = "waitSpec" /\ pc' = "write" /\ cs' = s
      /\ orig' = stCache[s] /\ cur' = initBpfAppStateStatus(stCache[s], list[ca])
      /\ stCache[s] # None /\ stCache[s].app = ca
  BY DEF waitForBpfAppStateSpecUpdate, loopVars, getBpfAppState
<1>2. DataInv /\ stCache[s] \in StateObj /\ list[ca] \in AppObj /\ list[ca] # None /\ ca \in Apps
  BY <1>1 DEF ContractInv, DataInv, StateTypeOK, LocalTypeOK, ControlOK
<1>3. cur' \in StateObj /\ Blank(cur') /\ PlainApps
  BY <1>2, FirstStatusBlank DEF ObjectInv
<1>6. ASSUME NEW t \in StateIds, NEW o \in Copies(t)' PROVE Blank(o) \/ o \in Copies(t)
  BY <1>1, <1>3, <1>6 DEF Copies, AtState
<1>7. RecordsSound' /\ OneRecord' /\ LoadedTogether'
  BY <1>1, <1>2, <1>6, CopiesFollow, TogetherFollows DEF RecordsInv
<1>8. \A u \in Recorders : u \in Recorders'
  BY <1>1 DEF Recorders, AtState
<1>9. NothingOrphaned'
  BY <1>1, <1>8, SameRecords, OrphansFollow DEF RecordsInv
<1>10. DaemonOK'
  BY <1>1 DEF RecordsInv, DaemonOK, daemonVars
<1>11. NothingDropped'
  <2>1. stCache[s].progs = NoProgs
    <3>1. stCache[s].cond = "NoCond"
      BY <1>1 DEF ContractInv, FirstStatusOK
    <3>2. QED
      BY <1>1, <3>1 DEF ObjectInv, CountsOK
  <2>2. QED
    BY <1>1, <2>1 DEF NothingDropped, Covers, RecordsProg, RecordsLink, Recorded, NoProgs
<1>12. PlaceOK'
  <2>1. ~Busy(cur)'
    BY <1>2, <1>3, BlankRecords DEF Busy, Recorded
  <2>2. QED
    BY <1>1, <2>1 DEF PlaceOK
<1>13. QED
  BY <1>7, <1>9, <1>10, <1>11, <1>12 DEF RecordsInv

LEMMA UpdateRecords ==
  ASSUME DataInv, RecordsInv, updateBpfAppStateStatus
  PROVE  RecordsInv'
<1>1. /\ UNCHANGED <<stCache, daemonVars, list, ca, cs, orig>> /\ pc = "write" /\ pc' = "waitStatus"
      /\ st[cs] = orig /\ cur' = [cur EXCEPT !.count = @ + 1]
      /\ st' = [st EXCEPT ![cs] = cur'] /\ pc \in AtState
  BY DEF updateBpfAppStateStatus, Accepted, loopVars, AtState
<1>2. /\ cur \in StateObj /\ orig \in StateObj /\ cs \in StateIds /\ orig # None /\ cur # None
  BY <1>1, VisitFacts, NoneAssumption
<1>3. cur'.progs = cur.progs /\ cur' \in StateObj /\ cur' # None
  <2>1. [cur EXCEPT !.count = cur.count + 1] \in StateObj
        /\ [cur EXCEPT !.count = cur.count + 1].progs = cur.progs
    BY <1>2 DEF StateObj
  <2>2. QED
    BY <1>1, <2>1, NoneAssumption
<1>4. st'[cs] = cur' /\ \A t \in StateIds \ {cs} : st'[t] = st[t]
  BY <1>1, <1>2 DEF DataInv, StateTypeOK
<1>5. cur \in Copies(cs)
  BY <1>1, <1>2 DEF Copies
<1>6. ASSUME NEW t \in StateIds, NEW o \in Copies(t)' PROVE \E u \in Copies(t) : o.progs = u.progs
  <2>1. \/ o \in Copies(t)
        \/ t = cs /\ o = cur'
    BY <1>1, <1>4, <1>6 DEF Copies, AtState
  <2>2. QED
    BY <1>3, <1>5, <2>1
<1>7. RecordsSound' /\ OneRecord' /\ LoadedTogether'
  BY <1>1, <1>6, CopiesFollow, TogetherFollows DEF RecordsInv
<1>8. ASSUME NEW u \in Recorders, u # None
      PROVE  \E o \in Recorders' : o # None /\ Covers(o, u, loaded, linkProg)
  <2>1. cur' \in Recorders' /\ \A t \in StateIds : st'[t] \in Recorders'
    BY <1>1 DEF Recorders, AtState
  <2>2. Covers(cur', cur, loaded, linkProg)
    BY <1>3, SameRecords
  <2>3. Covers(cur, orig, loaded, linkProg)
    BY <1>1 DEF RecordsInv, NothingDropped
  <2>4. Covers(cur', orig, loaded, linkProg)
    BY <2>2, <2>3 DEF Covers
  <2>5. ASSUME NEW t \in StateIds, u = st[t], t # cs PROVE Covers(st'[t], u, loaded, linkProg) /\ st'[t] # None
    BY <1>4, <1>8, <2>5, SameRecords
  <2>6. u = cur \/ (\E t \in StateIds : u = st[t])
    BY DEF Recorders
  <2>7. QED
    BY <1>1, <1>3, <2>1, <2>2, <2>4, <2>5, <2>6
<1>9. NothingOrphaned'
  BY <1>1, <1>8, OrphansFollow DEF RecordsInv
<1>10. DaemonOK' /\ NothingDropped'
  BY <1>1 DEF RecordsInv, DaemonOK, NothingDropped, daemonVars
<1>11. PlaceOK'
  BY <1>1, <1>3, <1>4 DEF PlaceOK
<1>12. QED
  BY <1>7, <1>9, <1>10, <1>11 DEF RecordsInv

\* An object is marked, released or removed; it goes only when it records
\* nothing that is alive.  The reconcile stands where it was, or returns from
\* removeFinalizer.
LEMMA PutRecords ==
  ASSUME DataInv, RecordsInv, UNCHANGED <<stCache, daemonVars>>,
         NEW s \in StateIds, NEW n \in StateObj \cup {None}, st[s] # None,
         st' = [st EXCEPT ![s] = n], n # None => n.progs = st[s].progs, n = None => ~Busy(st[s]),
         \/ UNCHANGED agentVars
         \/ pc = "finalizer" /\ pc' = "idle"
  PROVE  RecordsInv'
<1>1. st'[s] = n /\ \A t \in StateIds \ {s} : st'[t] = st[t]
  BY DEF DataInv, StateTypeOK
<1>2. \/ UNCHANGED <<pc, list, ca, cs, orig, cur, listChanged, ptodo>>
      \/ pc = "finalizer" /\ pc' = "idle"
  BY DEF agentVars, loopVars, appVars, progVars
<1>3. UNCHANGED <<loaded, freeProgs, linkProg, freeLinks>>
  BY DEF daemonVars
<1>4. ASSUME NEW t \in StateIds, NEW o \in Copies(t)' PROVE \E u \in Copies(t) : o.progs = u.progs
  <2>1. \/ o \in Copies(t)
        \/ t = s /\ o = n /\ n # None
    BY <1>1, <1>2, <1>4 DEF Copies, AtState
  <2>2. st[s] \in Copies(s)
    BY DEF Copies
  <2>3. QED
    BY <2>1, <2>2
<1>5. RecordsSound' /\ OneRecord' /\ LoadedTogether'
  BY <1>2, <1>4, CopiesFollow, TogetherFollows DEF RecordsInv
<1>6. \A o \in StateObj : ~Busy(o) /\ (\E t \in StateIds : o \in Copies(t)) => Lifeless(o, loaded, linkProg)
  BY IdleLifeless DEF RecordsInv, RecordsSound
<1>7. ASSUME NEW u \in Recorders, u # None
      PROVE  \/ Lifeless(u, loaded, linkProg)
             \/ \E o \in Recorders' : o # None /\ Covers(o, u, loaded, linkProg)
  <2>1. \A t \in StateIds : st'[t] \in Recorders'
    BY DEF Recorders
  <2>2. CASE u = st[s]
    <3>1. CASE n = None
      BY <1>6, <2>2, <3>1 DEF Copies, DataInv, StateTypeOK
    <3>2. CASE n # None
      BY <1>1, <2>1, <2>2, <3>2, SameRecords
    <3>3. QED
      BY <3>1, <3>2
  <2>3. ASSUME NEW t \in StateIds \ {s}, u = st[t] PROVE \E o \in Recorders' : o # None /\ Covers(o, u, loaded, linkProg)
    BY <1>1, <1>7, <2>1, <2>3, SameRecords
  <2>4. CASE pc \in AtState /\ u = cur
    <3>1. cur \in Copies(cs) /\ cs \in StateIds /\ cur \in StateObj
      BY <1>7, <2>4, VisitFacts DEF Copies
    <3>2. CASE pc' \in AtState
      <4>1. cur' = cur /\ cur' \in Recorders'
        BY <1>2, <3>2 DEF Recorders, AtState
      <4>2. Covers(u, u, loaded, linkProg)
        BY DEF Covers
      <4>3. QED
        BY <1>7, <2>4, <4>1, <4>2
    <3>3. CASE pc' \notin AtState
      <4>1. ~Busy(cur)
        BY <1>2, <2>4, <3>3 DEF RecordsInv, PlaceOK
      <4>2. QED
        BY <1>6, <2>4, <3>1, <4>1
    <3>4. QED
      BY <3>2, <3>3
  <2>5. QED
    BY <2>2, <2>3, <2>4 DEF Recorders
<1>8. NothingOrphaned'
  BY <1>7, OrphansFollow DEF RecordsInv
<1>9. DaemonOK'
  BY <1>3 DEF RecordsInv, DaemonOK
<1>10. CASE pc' = "idle"
  BY <1>5, <1>8, <1>9, <1>10 DEF RecordsInv, NothingDropped, PlaceOK, AtState
<1>11. CASE UNCHANGED <<pc, list, ca, cs, orig, cur, listChanged, ptodo>>
  <2>1. NothingDropped'
    BY <1>3, <1>11 DEF RecordsInv, NothingDropped, Covers, RecordsProg, RecordsLink, Recorded
  <2>2. (Busy(cur)' <=> Busy(cur)) /\ (isLoaded(cur)' <=> isLoaded(cur)) /\ Recorded(cur)' = Recorded(cur)
    BY <1>3, <1>11 DEF Busy, isLoaded, Recorded
  <2>3. pc = "waitStatus" => ~Busy(cur) \/ (st'[cs] # None /\ st'[cs].progs = cur.progs)
    <3>1. SUFFICES ASSUME pc = "waitStatus", Busy(cur)
                   PROVE  st'[cs] # None /\ st'[cs].progs = cur.progs
      OBVIOUS
    <3>2. cs \in StateIds /\ st[cs] # None /\ st[cs].progs = cur.progs
      BY <3>1, VisitFacts DEF RecordsInv, PlaceOK, AtState
    <3>3. Busy(st[cs])
      BY <3>1, <3>2, SameRecords
    <3>4. QED
      BY <1>1, <3>2, <3>3
  <2>4. PlaceOK
    BY DEF RecordsInv
  <2>5. PlaceOK'
    BY <1>3, <1>11, <2>2, <2>3, <2>4, Zenon DEF PlaceOK
  <2>6. QED
    BY <1>5, <1>8, <1>9, <2>1, <2>5 DEF RecordsInv
<1>12. QED
  BY <1>2, <1>10, <1>11

LEMMA WriteRecords ==
  ASSUME Separating \cap Faults = {}, ContractInv, ObjectInv, HeldInv, RecordsInv, WriteStep
  PROVE  RecordsInv'
<1>1. DataInv /\ "write" \notin Faults /\ "timeout" \notin Faults
  BY DEF ContractInv, Separating
<1>2. /\ ~createInitialBpfAppStateFails /\ ~waitForBpfAppStateSpecUpdateTimesOut
      /\ ~waitForBpfAppStateStatusUpdateTimesOut
  BY <1>1 DEF createInitialBpfAppStateFails, waitForBpfAppStateSpecUpdateTimesOut,
              waitForBpfAppStateStatusUpdateTimesOut, Fault
<1>3. ASSUME NEW s \in StateIds, waitForBpfAppStateStatusUpdate(s) PROVE RecordsInv'
  <2>1. UNCHANGED <<st, stCache, daemonVars>> /\ pc = "waitStatus" /\ pc' = "idle"
    BY <1>3 DEF waitForBpfAppStateStatusUpdate, Return, ReturnLocals
  <2>2. QED
    BY <1>1, <2>1, LeaveRecords DEF RecordsInv, PlaceOK
<1>4. CASE updateBpfAppStateStatusFails
  <2>1. /\ UNCHANGED <<st, stCache, daemonVars>> /\ pc = "write" /\ pc' = "idle"
        /\ st[cs] # orig \/ cur.cond = ""
    BY <1>1, <1>4 DEF updateBpfAppStateStatusFails, ReturnAndRequeue, ReturnLocals, Accepted, Fault
  <2>2. ASSUME Busy(cur) PROVE st[cs] # None /\ st[cs].progs = cur.progs
    <3>1. cur.cond # "" /\ (~list[ca].deleting \/ cur.progs = orig.progs)
      BY <2>1, <2>2 DEF RecordsInv, PlaceOK
    <3>2. Leaving(ca) \/ cur.cond = "Pending"
      BY <2>1, <3>1 DEF ObjectInv, VisitOK, AtState
    <3>3. ~list[ca].deleting => ~Leaving(ca)
      BY <1>1, <2>1 DEF Leaving, DataInv, ControlOK, AtState
    <3>4. cur.progs = orig.progs
      BY <2>1, <2>2, <3>1, <3>2, <3>3 DEF ContractInv, FirstStatusOK
    <3>5. Held(orig, cs) /\ orig # None /\ Busy(orig)
      BY <1>1, <2>1, <2>2, <3>4, SameRecords, VisitFacts, NoneAssumption DEF HeldInv, AtState
    <3>6. QED
      BY <2>1, <3>4, <3>5 DEF Held, ObjectInv, VisitOK, AtState
  <2>3. QED
    BY <1>1, <2>1, <2>2, LeaveRecords
<1>5. CASE removeFinalizerFails
  <2>1. UNCHANGED <<st, stCache, daemonVars>> /\ pc = "finalizer" /\ pc' = "idle"
    BY <1>5 DEF removeFinalizerFails, Return, ReturnLocals
  <2>2. QED
    BY <1>1, <2>1, LeaveRecords DEF RecordsInv, PlaceOK
<1>6. CASE removeFinalizer
  <2>1. /\ pc = "finalizer" /\ pc' = "idle" /\ st[cs] = orig /\ UNCHANGED <<stCache, daemonVars>>
        /\ st' = [st EXCEPT ![cs] = IF orig.deleting THEN None ELSE [orig EXCEPT !.finalizer = FALSE]]
    BY <1>6 DEF removeFinalizer, Return, ReturnLocals
  <2>2. cs \in StateIds /\ orig \in StateObj /\ orig # None /\ ~Busy(orig)
    BY <1>1, <2>1, VisitFacts, NoneAssumption DEF AtState, ContractInv, ReleaseOK
  <2> DEFINE o == [orig EXCEPT !.finalizer = FALSE]
  <2>3. o \in StateObj /\ o.progs = orig.progs
    BY <2>2 DEF StateObj
  <2>4. st' = [st EXCEPT ![cs] = IF orig.deleting THEN None ELSE o]
    BY <2>1
  <2> HIDE DEF o
  <2>5. PICK n \in StateObj \cup {None} : st' = [st EXCEPT ![cs] = n] /\ (n # None => n = o)
    BY <2>3, <2>4
  <2>6. QED
    BY <1>1, <2>1, <2>2, <2>3, <2>5, PutRecords
<1>7. CASE initBpfAppStateStatusFails
  <2>1. UNCHANGED <<st, stCache, daemonVars>> /\ pc = "waitSpec" /\ pc' = "idle"
    BY <1>7 DEF initBpfAppStateStatusFails, ReturnAndRequeue, ReturnLocals
  <2>2. QED
    BY <1>1, <2>1, LeaveRecords DEF AtState
<1>8. QED
  BY <1>1, <1>2, <1>3, <1>4, <1>5, <1>6, <1>7, CreateRecords, FirstStatusRecords, UpdateRecords DEF WriteStep

(***************************************************************************)
(* The cluster and the environment.                                        *)
(***************************************************************************)
LEMMA ClusterRecords ==
  ASSUME ContractInv, RecordsInv, ClusterStep
  PROVE  RecordsInv'
<1>1. DataInv
  BY DEF ContractInv
<1>2. ASSUME NEW s \in StateIds, SyncState(s) PROVE RecordsInv'
  <2>1. /\ UNCHANGED <<st, pc, list, ca, cs, orig, cur, listChanged, ptodo>> /\ UNCHANGED daemonVars
        /\ stCache'[s] = st[s] /\ \A t \in StateIds \ {s} : stCache'[t] = stCache[t]
    BY <1>1, <1>2 DEF SyncState, agentVars, loopVars, appVars, progVars, DataInv, StateTypeOK
  <2>2. UNCHANGED <<loaded, freeProgs, linkProg, freeLinks>>
    BY <2>1 DEF daemonVars
  <2>3. \A t \in StateIds : Copies(t)' \subseteq Copies(t)
    BY <2>1 DEF Copies
  <2>4. RecordsSound' /\ OneRecord' /\ LoadedTogether'
    BY <1>1, <2>1, <2>3, CopiesFollow, TogetherFollows DEF RecordsInv
  <2>5. NothingOrphaned' /\ DaemonOK'
    BY <2>1, <2>2 DEF RecordsInv, NothingOrphaned, Recorders, DaemonOK
  <2>6. NothingDropped'
    BY <2>1, <2>2 DEF RecordsInv, NothingDropped, Covers, RecordsProg, RecordsLink, Recorded
  <2>7. (Busy(cur)' <=> Busy(cur)) /\ (isLoaded(cur)' <=> isLoaded(cur)) /\ Recorded(cur)' = Recorded(cur)
    BY <2>1, <2>2 DEF Busy, isLoaded, Recorded
  <2>8. PlaceOK
    BY DEF RecordsInv
  <2>9. PlaceOK'
    BY <2>1, <2>7, <2>8, Zenon DEF PlaceOK
  <2>10. QED
    BY <2>4, <2>5, <2>6, <2>9 DEF RecordsInv
<1>3. ASSUME NEW s \in StateIds, GarbageCollect(s) PROVE RecordsInv'
  <2>1. /\ UNCHANGED <<stCache, daemonVars, agentVars>> /\ st[s] # None /\ st[s] \in StateObj
        /\ st' = [st EXCEPT ![s] = IF st[s].finalizer THEN [st[s] EXCEPT !.deleting = TRUE] ELSE None]
    BY <1>1, <1>3 DEF GarbageCollect, DataInv, StateTypeOK
  <2> DEFINE o == [st[s] EXCEPT !.deleting = TRUE]
  <2>2. o \in StateObj /\ o.progs = st[s].progs
    BY <2>1 DEF StateObj
  <2>3. st' = [st EXCEPT ![s] = IF st[s].finalizer THEN o ELSE None]
    BY <2>1
  <2> HIDE DEF o
  <2>4. Busy(st[s]) => st[s].finalizer
    BY <2>1 DEF ContractInv, CopiesOK, CopyOK
  <2>5. PICK n \in StateObj \cup {None} : /\ st' = [st EXCEPT ![s] = n] /\ (n # None => n = o)
                                          /\ n = None => ~Busy(st[s])
    BY <2>2, <2>3, <2>4, NoneAssumption
  <2>6. QED
    BY <1>1, <2>1, <2>2, <2>5, PutRecords
<1>4. ASSUME NEW a \in Apps, OperatorRelease(a) PROVE RecordsInv'
  BY <1>1, <1>4, QuietRecords DEF OperatorRelease
<1>5. QED
  BY <1>2, <1>3, <1>4 DEF ClusterStep

LEMMA EnvironmentRecords ==
  ASSUME Separating \cap Faults = {}, DataInv, RecordsInv, EnvironmentStep
  PROVE  RecordsInv'
<1>1. "crash" \notin Faults /\ "lost" \notin Faults
  BY DEF Separating
<1>2. ~Crash /\ \A i \in ProgIds : ~ProgramLost(i)
  BY <1>1 DEF Crash, ProgramLost, Fault
<1>3. UNCHANGED <<st, stCache, daemonVars, agentVars>>
  BY <1>2 DEF EnvironmentStep, Resync, UserCreate, Twice, Selectors, UserDelete, UserEdit, RelabelNode, PointChanges
<1>4. QED
  BY <1>3, QuietRecords

(***************************************************************************)
(* The steps of a visit.                                                   *)
(***************************************************************************)
\* What LoadedTogether says of the object visited.
Together(o, place, rest, progs) ==
  IF place = "unload" THEN Passed(o, rest, progs) ELSE AllOrNone(o, progs)

\* bpfman hands out ids, detaches links, and gives no link to another program.
LEMMA SoundStays ==
  ASSUME NEW o \in StateObj, Sound(o, freeProgs, freeLinks, linkProg),
         freeProgs' \subseteq freeProgs, freeLinks' \subseteq freeLinks,
         \A l \in LinkIds \ freeLinks : linkProg'[l] \in {None, linkProg[l]}
  PROVE  Sound(o, freeProgs', freeLinks', linkProg')
<1>1. SUFFICES ASSUME NEW p \in Recorded(o)
               PROVE  SoundEntry(o.progs[p], freeProgs', freeLinks', linkProg')
  BY DEF Sound
<1>2. SoundEntry(o.progs[p], freeProgs, freeLinks, linkProg)
  BY DEF Sound
<1>3. o.progs[p] \in ProgState
  BY DEF Recorded, StateObj
<1>4. ASSUME NEW x \in Points, o.progs[p].links[x] # None
      PROVE  LET l == o.progs[p].links[x].id
             IN  l \notin freeLinks' /\ (l # None /\ linkProg'[l] # None => linkProg'[l] = o.progs[p].id)
  <2>1. o.progs[p].links[x].id \in LinkIds \cup {None}
    BY <1>3, <1>4 DEF ProgState, LinkState
  <2>2. QED
    BY <1>2, <1>4, <2>1 DEF SoundEntry
<1>5. QED
  BY <1>2, <1>4 DEF SoundEntry

\* The common part: bpfman and the object at work change together.
LEMMA StepRecords ==
  ASSUME DataInv, VisitOK, RecordsInv, UNCHANGED <<st, stCache, cs, orig>>,
         pc \in AtState \ {"waitStatus"}, pc' \in AtState \ {"waitStatus"}, cur' \in StateObj,
         freeProgs' \subseteq freeProgs, freeLinks' \subseteq freeLinks,
         \A l \in LinkIds \ freeLinks : linkProg'[l] \in {None, linkProg[l]},
         loaded' \subseteq loaded \cup freeProgs, \A i \in loaded \ loaded' : RecordsProg(cur, i),
         DaemonOK', Sound(cur', freeProgs', freeLinks', linkProg'),
         \A i \in loaded' : RecordsProg(cur', i) => i \in freeProgs \/ RecordsProg(cur, i),
         Covers(cur', cur, loaded', linkProg'),
         \A i \in loaded' \ loaded : RecordsProg(cur', i),
         \A l \in LinkIds : linkProg[l] = None /\ linkProg'[l] # None => RecordsLink(cur', l),
         Together(cur', pc', ptodo', loaded'),
         \A o \in Copies(cs) : o.progs = orig.progs => Together(o, pc', ptodo', loaded'),
         PlaceOK'
  PROVE  RecordsInv'
<1>1. cs \in StateIds /\ cur \in StateObj /\ orig \in StateObj /\ cur # None /\ cur' # None
  BY VisitFacts, NoneAssumption
<1>2. cur \in Copies(cs)
  BY <1>1 DEF Copies
<1>3. ASSUME NEW t \in StateIds, NEW o \in Copies(t)'
      PROVE  /\ o \in Copies(t) \/ (t = cs /\ o = cur')
             /\ t = cs => o = cur' \/ o.progs = orig.progs
  BY <1>3 DEF Copies, VisitOK
<1>4. RecordsSound'
  <2>1. SUFFICES ASSUME NEW t \in StateIds, NEW o \in Copies(t)'
                 PROVE  Sound(o, freeProgs', freeLinks', linkProg')
    BY DEF RecordsSound
  <2>2. CASE o \in Copies(t)
    BY <2>2, CopyType, SoundStays DEF RecordsInv, RecordsSound
  <2>3. QED
    BY <1>3, <2>2
<1>5. ASSUME NEW t \in StateIds \ {cs}, NEW o \in Copies(t), NEW i, RecordsProg(o, i)
      PROVE  i \notin freeProgs /\ (i \in loaded <=> i \in loaded') /\ (i \in loaded => ~RecordsProg(cur, i))
  <2>1. i \notin freeProgs
    BY <1>5 DEF RecordsProg, RecordsInv, RecordsSound, Sound, SoundEntry
  <2>2. i \in loaded => ~RecordsProg(cur, i)
    BY <1>1, <1>2, <1>5 DEF RecordsInv, OneRecord
  <2>3. QED
    BY <2>1, <2>2
<1>6. OneRecord'
  <2>1. SUFFICES ASSUME NEW s \in StateIds, NEW t \in StateIds, s # t, NEW o \in Copies(s)', NEW u \in Copies(t)',
                        NEW i \in loaded', RecordsProg(o, i), RecordsProg(u, i)
                 PROVE  FALSE
    BY DEF OneRecord, RecordsProg, Recorded
  <2>2. CASE s # cs /\ t # cs
    <3>1. o \in Copies(s) /\ u \in Copies(t)
      BY <1>3, <2>2
    <3>2. QED
      BY <1>5, <2>1, <2>2, <3>1 DEF RecordsInv, OneRecord
  <2>3. ASSUME NEW r \in StateIds \ {cs}, NEW v \in Copies(r), RecordsProg(v, i),
               NEW w \in Copies(cs)', RecordsProg(w, i)
        PROVE  FALSE
    <3>1. i \in loaded /\ i \notin freeProgs /\ ~RecordsProg(cur, i)
      BY <1>5, <2>1, <2>3
    <3>2. CASE w \in Copies(cs)
      BY <1>1, <2>3, <3>1, <3>2 DEF RecordsInv, OneRecord
    <3>3. CASE w = cur'
      BY <2>1, <2>3, <3>1, <3>3
    <3>4. QED
      BY <1>1, <1>3, <2>3, <3>2, <3>3
  <2>4. CASE s = cs
    BY <1>3, <2>1, <2>3, <2>4
  <2>5. CASE t = cs
    BY <1>3, <2>1, <2>3, <2>5
  <2>6. QED
    BY <2>2, <2>4, <2>5
<1>7. LoadedTogether'
  <2>1. SUFFICES ASSUME NEW t \in StateIds, NEW o \in Copies(t)'
                 PROVE  IF pc' = "unload" /\ t = cs THEN Passed(o, ptodo', loaded') ELSE AllOrNone(o, loaded')
    BY DEF LoadedTogether, Passed, AllOrNone, Recorded
  <2>2. CASE t = cs
    <3>1. Together(o, pc', ptodo', loaded')
      BY <1>3, <2>2
    <3>2. QED
      BY <2>2, <3>1 DEF Together
  <2>3. CASE t # cs
    <3>1. o \in Copies(t)
      BY <1>3, <2>3
    <3>2. AllOrNone(o, loaded)
      BY <2>3, <3>1 DEF RecordsInv, LoadedTogether
    <3>3. \A p \in Recorded(o) : o.progs[p].id \in loaded <=> o.progs[p].id \in loaded'
      BY <1>5, <2>3, <3>1 DEF RecordsProg
    <3>4. QED
      BY <2>3, <3>2, <3>3 DEF AllOrNone
  <2>4. QED
    BY <2>2, <2>3
<1>8. NothingDropped'
  <2>1. Covers(cur, orig, loaded, linkProg)
    BY DEF RecordsInv, NothingDropped
  <2>2. Covers(cur', orig, loaded', linkProg')
    BY <2>1 DEF Covers
  <2>3. QED
    BY <2>2 DEF NothingDropped, Covers, RecordsProg, RecordsLink, Recorded
<1>9. NothingOrphaned'
  <2>1. cur' \in Recorders' /\ \A u \in Recorders : u = cur \/ u \in Recorders'
    BY DEF Recorders
  <2>2. ASSUME NEW i \in loaded' PROVE \E o \in Recorders' : o # None /\ RecordsProg(o, i)
    <3>1. CASE i \in loaded
      <4>1. PICK u \in Recorders : u # None /\ RecordsProg(u, i)
        BY <3>1 DEF RecordsInv, NothingOrphaned
      <4>2. QED
        BY <1>1, <2>1, <4>1 DEF Covers
    <3>2. QED
      BY <1>1, <2>1, <3>1
  <2>3. ASSUME NEW l \in LinkIds, linkProg'[l] # None PROVE \E o \in Recorders' : o # None /\ RecordsLink(o, l)
    <3>1. CASE linkProg[l] # None
      <4>1. PICK u \in Recorders : u # None /\ RecordsLink(u, l)
        BY <3>1 DEF RecordsInv, NothingOrphaned
      <4>2. QED
        BY <1>1, <2>1, <2>3, <4>1 DEF Covers
    <3>2. QED
      BY <1>1, <2>1, <2>3, <3>1
  <2>4. QED
    BY <2>2, <2>3 DEF NothingOrphaned, RecordsProg, RecordsLink, Recorded
<1>10. QED
  BY <1>4, <1>6, <1>7, <1>8, <1>9 DEF RecordsInv

\* A step that changes neither bpfman nor a program entry.
LEMMA SteadyRecords ==
  ASSUME DataInv, VisitOK, RecordsInv, UNCHANGED <<st, stCache, cs, orig, daemonVars>>,
         pc \in AtState \ {"waitStatus"}, pc' \in AtState \ {"waitStatus"}, cur' \in StateObj,
         cur'.progs = cur.progs, PlaceOK',
         \/ pc # "unload" /\ pc' # "unload"
         \/ pc = "load" /\ pc' = "unload" /\ ptodo' = Recorded(cur)
         \/ pc = "unload" /\ pc' # "unload" /\ ptodo = {}
  PROVE  RecordsInv'
<1>1. cs \in StateIds /\ cur \in StateObj /\ cur # None /\ cur \in Copies(cs)
  BY VisitFacts, NoneAssumption DEF Copies
<1>2. UNCHANGED <<loaded, freeProgs, linkProg, freeLinks>>
  BY DEF daemonVars
<1>3. DaemonOK'
  BY <1>2 DEF RecordsInv, DaemonOK
<1>4. Sound(cur', freeProgs, freeLinks, linkProg)
  BY <1>1, SameRecords DEF RecordsInv, RecordsSound
<1>5. /\ \A i \in loaded' : RecordsProg(cur', i) => RecordsProg(cur, i)
      /\ Covers(cur', cur, loaded, linkProg)
  BY SameRecords
<1>6. ASSUME NEW o \in Copies(cs), o.progs = orig.progs \/ o = cur PROVE Together(o, pc', ptodo', loaded)
  <2>1. IF pc = "unload" THEN Passed(o, ptodo, loaded) ELSE AllOrNone(o, loaded)
    BY <1>1 DEF RecordsInv, LoadedTogether
  <2>2. CASE pc # "unload" /\ pc' # "unload"
    BY <2>1, <2>2 DEF Together
  <2>3. CASE pc = "load" /\ pc' = "unload" /\ ptodo' = Recorded(cur)
    <3>1. o.progs = cur.progs
      BY <1>6, <2>3 DEF RecordsInv, PlaceOK
    <3>2. Recorded(o) = Recorded(cur)
      BY <3>1, SameRecords
    <3>3. QED
      BY <2>3, <3>2 DEF Together, Passed
  <2>4. CASE pc = "unload" /\ pc' # "unload" /\ ptodo = {}
    BY <2>1, <2>4 DEF Together, Passed, AllOrNone
  <2>5. QED
    BY <2>2, <2>3, <2>4
<1>7. Together(cur', pc', ptodo', loaded)
  BY <1>1, <1>6, SameRecords DEF Together
<1>8. QED
  BY <1>2, <1>3, <1>4, <1>5, <1>6, <1>7, StepRecords

\* The ends of reconcileLoad that bpfman has no part in.
LEMMA LoadEndsRecords ==
  ASSUME Separating \cap Faults = {}, ContractInv, ObjectInv, RecordsInv,
         BeginUnload \/ UnloadDone \/ NodeSelectorInvalid \/ ProgramListInvalid \/ AlreadyLoaded \/ loadFails
  PROVE  RecordsInv'
<1>1. DataInv /\ VisitOK /\ PlaceOK /\ "get" \notin Faults /\ "reply" \notin Faults
  BY DEF ContractInv, ObjectInv, RecordsInv, Separating
<1>2. CASE BeginUnload
  <2>1. /\ UNCHANGED <<st, stCache, cs, orig, cur, daemonVars>> /\ pc = "load" /\ pc' = "unload"
        /\ ptodo' = Recorded(cur) /\ cur = orig
    BY <1>1, <1>2 DEF BeginUnload, appVars, PlaceOK
  <2>2. PlaceOK'
    BY <2>1 DEF PlaceOK
  <2>3. QED
    BY <1>1, <2>1, <2>2, VisitFacts, SteadyRecords DEF AtState
<1>3. CASE UnloadDone
  <2>1. /\ UNCHANGED <<st, stCache, cs, orig, daemonVars>> /\ pc = "unload" /\ pc' = "programs" /\ ptodo = {}
        /\ cur' = [cur EXCEPT !.load = IF isNodeSelected THEN "UnloadSuccess" ELSE "NotSelected"]
    BY <1>3 DEF UnloadDone
  <2>2. cur \in StateObj /\ pc \in AtState
    BY <1>1, <2>1, VisitFacts DEF AtState
  <2>3. cur' \in StateObj /\ cur'.progs = cur.progs
    BY <2>1, <2>2 DEF StateObj, AppLoadStatus
  <2>4. ~Busy(cur)
    BY <2>1 DEF ContractInv, WorkOK, Busy
  <2>5. PlaceOK'
    <3>1. ~Busy(cur)'
      BY <2>3, <2>4, SameRecords DEF Busy, Recorded
    <3>2. QED
      BY <2>1, <3>1 DEF PlaceOK
  <2>6. QED
    BY <1>1, <2>1, <2>2, <2>3, <2>5, SteadyRecords DEF AtState
<1>4. CASE NodeSelectorInvalid \/ ProgramListInvalid \/ loadFails
  <2>1. /\ UNCHANGED <<st, stCache, cs, orig, ca, list>> /\ pc = "load" /\ pc' = "write" /\ cur = orig
        /\ UNCHANGED daemonVars
        /\ \E status \in AppLoadStatus \cup {cur.load} : cur' = [cur EXCEPT !.load = status, !.cond = "Error"]
    BY <1>1, <1>4 DEF ProgramListInvalid, NodeSelectorInvalid, loadFails, LoadError, MustLoad, loopVars,
                      daemonVars, Fault, AppLoadStatus, PlaceOK
  <2>2. cur \in StateObj /\ pc \in AtState
    BY <1>1, <2>1, VisitFacts DEF AtState
  <2>3. cur' \in StateObj /\ cur'.progs = orig'.progs /\ cur'.progs = cur.progs /\ cur'.cond = "Error"
    BY <2>1, <2>2 DEF StateObj, CondTypes
  <2>4. PlaceOK'
    BY <2>1, <2>3 DEF PlaceOK
  <2>5. QED
    BY <1>1, <2>1, <2>2, <2>3, <2>4, SteadyRecords DEF AtState
<1>5. CASE AlreadyLoaded
  <2>1. /\ UNCHANGED <<st, stCache, cs, orig, listChanged, daemonVars>> /\ pc = "load" /\ pc' = "programs"
        /\ cur' = [cur EXCEPT !.load = "LoadSuccess"]
        /\ isLoaded(cur) /\ ptodo' = Recorded(cur) /\ listChanged = FALSE
    BY <1>1, <1>5 DEF AlreadyLoaded, MustLoad, validateProgramList, PlaceOK
  <2>2. cur \in StateObj /\ pc \in AtState
    BY <1>1, <2>1, VisitFacts DEF AtState
  <2>3. cur' \in StateObj /\ cur'.progs = cur.progs
    BY <2>1, <2>2 DEF StateObj, AppLoadStatus
  <2>4. isLoaded(cur)' /\ Recorded(cur)' = Recorded(cur)
    BY <2>1, <2>3 DEF isLoaded, Recorded, daemonVars
  <2>5. PlaceOK'
    BY <2>1, <2>4 DEF PlaceOK
  <2>6. QED
    BY <1>1, <2>1, <2>2, <2>3, <2>5, SteadyRecords DEF AtState
<1>6. QED
  BY <1>2, <1>3, <1>4, <1>5

\* getProgState fails only in an object that records no program id.
LEMMA MissingRecords ==
  ASSUME ContractInv, ObjectInv, RecordsInv, NEW p \in Progs, ProgramStateMissing(p)
  PROVE  RecordsInv'
<1>1. DataInv /\ VisitOK /\ PlaceOK
  BY DEF ContractInv, ObjectInv, RecordsInv
<1>2. /\ UNCHANGED <<st, stCache, cs, orig, cur, daemonVars>> /\ pc = "programs" /\ pc' = "programs"
      /\ p \in ptodo /\ ~HasProgState(cur, list[ca], p) /\ pc \in AtState
  BY DEF ProgramStateMissing, AtState
<1>3. cs \in StateIds /\ cur \in StateObj /\ cur # None /\ ca \in Apps /\ list[ca] # None
  BY <1>1, <1>2, VisitFacts, NoneAssumption
<1>4. ASSUME Busy(cur) PROVE FALSE
  <2>1. cur.progs[p] # None /\ p \in Recorded(cur)
    BY <1>1, <1>2, <1>4 DEF PlaceOK, Recorded
  <2>2. cur.progs[p].fn = FALSE
    BY <1>2, <1>3, <2>1 DEF RecordsInv, RecordsSound, Copies, Sound, SoundEntry
  <2>3. list[ca].fn = {}
    BY <1>3 DEF ObjectInv, PlainApps
  <2>4. (p \in list[ca].fn) = FALSE
    BY <2>3
  <2>5. QED
    BY <1>2, <2>1, <2>2, <2>4, Zenon DEF HasProgState
<1>5. PlaceOK'
  <2>1. ~Busy(cur)'
    BY <1>2, <1>4 DEF Busy, Recorded
  <2>2. QED
    BY <1>2, <2>1 DEF PlaceOK
<1>6. QED
  BY <1>1, <1>2, <1>3, <1>5, SteadyRecords DEF AtState

LEMMA EndRecords ==
  ASSUME ContractInv, ObjectInv, RecordsInv, EndStep
  PROVE  RecordsInv'
<1>1. DataInv /\ VisitOK /\ PlaceOK
  BY DEF ContractInv, ObjectInv, RecordsInv
<1>2. pc = "programs" /\ pc \in AtState
  BY DEF EndStep, StatusChanged, StatusUnchanged, VisitOver, AtState
<1>3. cs \in StateIds /\ cur \in StateObj /\ cur # None /\ ca \in Apps /\ orig # None
  BY <1>1, <1>2, VisitFacts, NoneAssumption
<1>4. list[ca].deleting => ~Busy(cur)
  BY <1>2 DEF ContractInv, WorkOK
<1>5. FinalState \in StateObj /\ FinalState.progs = cur.progs
      /\ (listChanged = FALSE => FinalState.cond # "")
  <2>1. FinalState \in StateObj
    BY <1>3, FinalStateType
  <2>2. FinalState.progs = cur.progs
    BY <1>3 DEF FinalState, StateObj
  <2>3. FinalState.cond = Condition(IF listChanged THEN "ProgramListChangedError" ELSE checkProgramStatus(cur))
    BY <1>3 DEF FinalState, StateObj
  <2>4. Condition(checkProgramStatus(cur)) # ""
    BY DEF Condition, checkProgramStatus
  <2>5. QED
    BY <2>1, <2>2, <2>3, <2>4
<1>6. CASE StatusChanged
  <2>1. /\ UNCHANGED <<st, stCache, cs, orig, ca, list, daemonVars>> /\ pc' = "write" /\ cur' = FinalState
    BY <1>6 DEF StatusChanged, loopVars
  <2>2. Busy(cur') <=> Busy(cur)
    BY <1>5, <2>1, SameRecords
  <2>3. Busy(cur)' <=> Busy(cur')
    BY DEF Busy, Recorded
  <2>4. PlaceOK'
    BY <1>1, <1>2, <1>4, <1>5, <2>1, <2>2, <2>3 DEF PlaceOK
  <2>5. QED
    BY <1>1, <1>2, <1>5, <2>1, <2>4, SteadyRecords DEF AtState
<1>7. CASE StatusUnchanged /\ ReadyToRelease
  <2>1. /\ UNCHANGED <<st, stCache, cs, orig, cur, daemonVars>> /\ pc' = "finalizer" /\ list[ca].deleting
    BY <1>7 DEF StatusUnchanged, appVars, ReadyToRelease, isBeingDeleted
  <2>2. PlaceOK'
    <3>1. ~Busy(cur)'
      BY <1>4, <2>1 DEF Busy, Recorded
    <3>2. QED
      BY <2>1, <3>1 DEF PlaceOK
  <2>3. QED
    BY <1>1, <1>2, <1>3, <2>1, <2>2, SteadyRecords DEF AtState
<1>8. CASE StatusUnchanged /\ ~ReadyToRelease
  <2>1. UNCHANGED <<st, stCache, daemonVars>> /\ pc' = "next" /\ FinalState = orig
    BY <1>8 DEF StatusUnchanged
  <2>2. ~Busy(cur) \/ (st[cs] # None /\ st[cs].progs = cur.progs)
    <3>1. CASE Leaving(ca)
      BY <1>1, <1>2, <1>4, <3>1 DEF Leaving, DataInv, ControlOK
    <3>2. CASE st[cs] = orig
      BY <1>3, <1>5, <2>1, <3>2
    <3>3. QED
      BY <1>1, <1>2, <3>1, <3>2 DEF VisitOK, AtState
  <2>3. QED
    BY <1>1, <1>2, <2>1, <2>2, LeaveRecords
<1>9. QED
  BY <1>6, <1>7, <1>8 DEF EndStep

\* One entry of an object is replaced.
LEMMA EntryRecords ==
  ASSUME NEW o \in StateObj, NEW p \in Progs, o.progs[p] # None, NEW ps \in ProgState,
         NEW u, u.progs = [o.progs EXCEPT ![p] = ps]
  PROVE  /\ u.progs[p] = ps /\ \A q \in Progs \ {p} : u.progs[q] = o.progs[q]
         /\ Recorded(u) = Recorded(o) /\ p \in Recorded(o)
<1>1. u.progs[p] = ps /\ \A q \in Progs \ {p} : u.progs[q] = o.progs[q]
  BY DEF StateObj
<1>2. QED
  BY <1>1, NoneAssumption DEF Recorded

\* unload() takes one program out of bpfman and out of the object.
LEMMA UnloadEffect ==
  ASSUME DataInv, DaemonOK, "unload" \notin Faults, NEW p \in Progs, unload(p)
  PROVE  /\ cur' \in StateObj /\ Recorded(cur') = Recorded(cur) /\ p \in Recorded(cur)
         /\ \A q \in Progs \ {p} : cur'.progs[q] = cur.progs[q]
         /\ cur'.progs[p].id = None /\ cur'.progs[p].fn = cur.progs[p].fn
         /\ cur'.progs[p].links = IF cur.progs[p].id = None THEN cur.progs[p].links ELSE NoLinks
         /\ loaded' = loaded \ {cur.progs[p].id}
         /\ \A l \in LinkIds : linkProg'[l] = IF linkProg[l] = cur.progs[p].id THEN None ELSE linkProg[l]
<1> DEFINE id == cur.progs[p].id
           ps == UnloadedProg(cur.progs[p])
<1>1. pc = "unload" /\ p \in ptodo /\ pc \in AtState
  BY DEF unload, AtState
<1>2. cur \in StateObj /\ cur.progs[p] # None /\ cur.progs[p] \in ProgState
  BY <1>1, VisitFacts DEF DataInv, ControlOK, StateObj
<1>3. /\ ps \in ProgState /\ ps.id = None /\ ps.fn = cur.progs[p].fn
      /\ ps.links = IF id = None THEN cur.progs[p].links ELSE NoLinks
  <2>1. ps \in ProgState
    BY <1>2, UnloadedProgType
  <2>2. QED
    BY <1>2, <2>1 DEF UnloadedProg, ProgState
<1>4. cur' = [cur EXCEPT !.progs[p] = ps]
  BY <1>2 DEF unload, StateObj
<1>5. /\ loaded' = loaded \ {id}
      /\ \A l \in LinkIds : linkProg'[l] = IF linkProg[l] = id THEN None ELSE linkProg[l]
  <2>1. CASE id \in loaded /\ BpfmanUnload(id)
    BY <2>1 DEF BpfmanUnload
  <2>2. CASE id \notin loaded /\ UNCHANGED <<loaded, linkProg>>
    BY <2>2 DEF DaemonOK
  <2>3. QED
    BY <2>1, <2>2 DEF unload, Fault
<1> HIDE DEF ps
<1>6. cur' \in StateObj /\ cur'.progs = [cur.progs EXCEPT ![p] = ps]
  BY <1>2, <1>3, <1>4, SetProgType
<1>7. /\ cur'.progs[p] = ps /\ \A q \in Progs \ {p} : cur'.progs[q] = cur.progs[q]
      /\ Recorded(cur') = Recorded(cur) /\ p \in Recorded(cur)
  BY <1>2, <1>3, <1>6, EntryRecords
<1>8. QED
  BY <1>3, <1>5, <1>6, <1>7

LEMMA UnloadRecords ==
  ASSUME Separating \cap Faults = {}, ContractInv, ObjectInv, RecordsInv, NEW p \in Progs, unload(p)
  PROVE  RecordsInv'
<1> DEFINE id == cur.progs[p].id
           ps == cur'.progs[p]
<1>1. DataInv /\ VisitOK /\ PlaceOK /\ DaemonOK /\ "unload" \notin Faults
  BY DEF ContractInv, ObjectInv, RecordsInv, Separating
<1>2. /\ UNCHANGED <<st, stCache, cs, orig, freeProgs, freeLinks>> /\ pc = "unload" /\ pc' = "unload"
      /\ p \in ptodo /\ ptodo' = ptodo \ {p} /\ pc \in AtState
  BY DEF unload, AtState
<1>3. cs \in StateIds /\ cur \in StateObj /\ cur # None /\ cur \in Copies(cs)
  BY <1>1, <1>2, VisitFacts, NoneAssumption DEF Copies
<1>4. /\ ps.id = None /\ ps.fn = cur.progs[p].fn
      /\ id # None => ps.links = NoLinks
      /\ id = None => ps.links = cur.progs[p].links
  BY <1>1, UnloadEffect
<1>6. None \notin loaded /\ None \notin freeProgs /\ None \notin LinkIds
  BY <1>1, BpfAgentAssumption DEF DataInv, DaemonTypeOK
<1>7. /\ loaded' = loaded \ {id}
      /\ \A l \in LinkIds : linkProg'[l] = IF linkProg[l] = id THEN None ELSE linkProg[l]
  BY <1>1, UnloadEffect
<1>8. cur' \in StateObj
  BY <1>1, UnloadEffect
<1>9. /\ cur'.progs[p] = ps /\ \A q \in Progs \ {p} : cur'.progs[q] = cur.progs[q]
      /\ Recorded(cur') = Recorded(cur) /\ p \in Recorded(cur)
  BY <1>1, UnloadEffect
<1> HIDE DEF ps, id
<1>10. Recorded(cur) \subseteq Progs /\ Sound(cur, freeProgs, freeLinks, linkProg)
       /\ Sound(cur, freeProgs, freeLinks, linkProg')
  <2>1. Sound(cur, freeProgs, freeLinks, linkProg)
    BY <1>3 DEF RecordsInv, RecordsSound
  <2>2. \A l \in LinkIds \ freeLinks : linkProg'[l] \in {None, linkProg[l]}
    BY <1>7
  <2>3. QED
    BY <1>2, <1>3, <2>1, <2>2, SoundStays DEF Recorded
<1>11. DaemonOK'
  BY <1>1, <1>2, <1>7 DEF DaemonOK
<1>12. Sound(cur', freeProgs, freeLinks, linkProg')
  <2>1. SUFFICES ASSUME NEW q \in Recorded(cur)
                 PROVE  SoundEntry(cur'.progs[q], freeProgs, freeLinks, linkProg')
    BY <1>9 DEF Sound
  <2>2. SoundEntry(cur.progs[q], freeProgs, freeLinks, linkProg')
    BY <1>10 DEF Sound
  <2>3. CASE q # p
    BY <1>9, <1>10, <2>2, <2>3
  <2>4. CASE q = p /\ id # None
    BY <1>4, <1>6, <1>9, <2>2, <2>4 DEF SoundEntry, NoLinks
  <2>5. CASE q = p /\ id = None
    BY <1>4, <1>9, <2>2, <2>5 DEF SoundEntry, id
  <2>6. QED
    BY <2>3, <2>4, <2>5
<1>13. \A i \in loaded' : RecordsProg(cur', i) => RecordsProg(cur, i)
  BY <1>4, <1>6, <1>7, <1>9, <1>10 DEF RecordsProg
<1>14. Covers(cur', cur, loaded', linkProg')
  <2>1. ASSUME NEW i \in loaded', RecordsProg(cur, i) PROVE RecordsProg(cur', i)
    BY <1>7, <1>9, <1>10, <2>1 DEF RecordsProg, id
  <2>2. ASSUME NEW l \in LinkIds, linkProg'[l] # None, RecordsLink(cur, l) PROVE RecordsLink(cur', l)
    <3>1. PICK q \in Recorded(cur), x \in Points : cur.progs[q].links[x] # None /\ cur.progs[q].links[x].id = l
      BY <2>2 DEF RecordsLink
    <3>2. linkProg[l] # None /\ linkProg[l] # id
      BY <1>7, <2>2
    <3>3. linkProg[l] = cur.progs[q].id
      BY <1>6, <1>10, <3>1, <3>2 DEF Sound, SoundEntry
    <3>4. q # p
      BY <3>2, <3>3 DEF id
    <3>5. QED
      BY <1>9, <1>10, <3>1, <3>4 DEF RecordsLink
  <2>3. QED
    BY <2>1, <2>2 DEF Covers
<1>15. Passed(cur, ptodo, loaded) /\ \A o \in Copies(cs) : Passed(o, ptodo, loaded)
  BY <1>2, <1>3 DEF RecordsInv, LoadedTogether
<1>16. Together(cur', pc', ptodo', loaded')
  BY <1>2, <1>4, <1>6, <1>7, <1>9, <1>10, <1>15 DEF Together, Passed
<1>17. ASSUME NEW o \in Copies(cs), o.progs = orig.progs PROVE Together(o, pc', ptodo', loaded')
  <2>1. o.progs[p].id = id
    BY <1>1, <1>2, <1>17 DEF PlaceOK, id
  <2>2. QED
    BY <1>2, <1>7, <1>15, <1>17, <2>1 DEF Together, Passed
<1>18. PlaceOK'
  BY <1>1, <1>2, <1>9, <1>3 DEF PlaceOK, DataInv, LocalTypeOK
<1>19. \A i \in loaded \ loaded' : RecordsProg(cur, i)
  BY <1>7, <1>9 DEF RecordsProg, id
<1>20. \A l \in LinkIds : /\ linkProg'[l] \in {None, linkProg[l]}
                         /\ ~(linkProg[l] = None /\ linkProg'[l] # None)
  BY <1>7
<1>21. QED
  BY <1>1, <1>2, <1>7, <1>8, <1>11, <1>12, <1>13, <1>14, <1>16, <1>17, <1>18, <1>19, <1>20, StepRecords
     DEF AtState

\* load() finds none of the recorded programs in bpfman and gets new ones.
LEMMA LoadEffect ==
  ASSUME DataInv, PlaceOK, "get" \notin Faults, load
  PROVE  \E f \in [Recorded(cur) -> freeProgs] :
           /\ cur' \in StateObj /\ Recorded(cur') = Recorded(cur) /\ cur'.load = "LoadSuccess"
           /\ \A p \in Recorded(cur) : /\ cur'.progs[p].id = f[p] /\ cur'.progs[p].fn = cur.progs[p].fn
                                       /\ cur'.progs[p].links = cur.progs[p].links
           /\ loaded' = loaded \cup {f[p] : p \in Recorded(cur)} /\ ~isLoaded(cur)
           /\ freeProgs' = freeProgs \ {f[p] : p \in Recorded(cur)} /\ ptodo' = Recorded(cur)
<1>1. pc = "load" /\ ~isLoaded(cur) /\ ptodo' = Recorded(cur)
  BY DEF load, MustLoad, validateProgramList, Fault
<1>2. PICK f \in FreshIds(Recorded(cur)) : BpfmanLoad(f) /\ cur' = WithIds(cur, f)
  BY DEF load
<1>3. /\ f \in [Recorded(cur) -> freeProgs]
      /\ loaded' = loaded \cup {f[p] : p \in Recorded(cur)} /\ freeProgs' = freeProgs \ {f[p] : p \in Recorded(cur)}
  BY <1>2 DEF FreshIds, BpfmanLoad
<1>4. cur \in StateObj /\ Recorded(cur) \subseteq Progs
  BY <1>1, VisitFacts DEF AtState, Recorded
<1>5. cur' \in StateObj
  <2>1. f \in [Recorded(cur) -> ProgIds]
    BY <1>3 DEF DataInv, DaemonTypeOK
  <2>2. QED
    BY <1>2, <1>4, <2>1, LoadedIdsType
<1>6. /\ cur'.load = "LoadSuccess"
      /\ cur'.progs = [p \in Progs |-> IF p \in Recorded(cur) THEN [cur.progs[p] EXCEPT !.id = f[p]] ELSE None]
  BY <1>2, <1>4 DEF WithIds, StateObj
<1>7. ASSUME NEW p \in Recorded(cur)
      PROVE  /\ cur'.progs[p] = [cur.progs[p] EXCEPT !.id = f[p]] /\ cur'.progs[p] \in ProgState
             /\ cur.progs[p] \in ProgState
  <2>1. p \in Progs /\ cur.progs[p] \in ProgState /\ f[p] \in ProgIds
    BY <1>3, <1>4 DEF Recorded, StateObj, DataInv, DaemonTypeOK
  <2>2. [cur.progs[p] EXCEPT !.id = f[p]] \in ProgState
    BY <2>1 DEF ProgState
  <2>3. QED
    BY <1>6, <2>1, <2>2
<1>8. Recorded(cur') = Recorded(cur)
  BY <1>4, <1>6, <1>7, NoneAssumption DEF Recorded
<1>9. ASSUME NEW p \in Recorded(cur)
      PROVE  /\ cur'.progs[p].id = f[p] /\ cur'.progs[p].fn = cur.progs[p].fn
             /\ cur'.progs[p].links = cur.progs[p].links
  BY <1>7 DEF ProgState
<1>10. QED
  BY <1>1, <1>3, <1>5, <1>6, <1>8, <1>9

LEMMA NewProgramsRecords ==
  ASSUME Separating \cap Faults = {}, ContractInv, ObjectInv, RecordsInv, load
  PROVE  RecordsInv'
<1>1. DataInv /\ VisitOK /\ PlaceOK /\ DaemonOK /\ "get" \notin Faults
  BY DEF ContractInv, ObjectInv, RecordsInv, Separating
<1>2. /\ UNCHANGED <<st, stCache, cs, orig, linkProg, freeLinks, listChanged>> /\ pc = "load" /\ pc' = "programs"
      /\ ~isLoaded(cur) /\ ptodo' = Recorded(cur) /\ pc \in AtState
  BY <1>1 DEF load, MustLoad, validateProgramList, Fault, AtState
<1>3. PICK f \in [Recorded(cur) -> freeProgs] :
        /\ cur' \in StateObj /\ Recorded(cur') = Recorded(cur) /\ cur'.load = "LoadSuccess"
        /\ \A p \in Recorded(cur) : /\ cur'.progs[p].id = f[p] /\ cur'.progs[p].fn = cur.progs[p].fn
                                    /\ cur'.progs[p].links = cur.progs[p].links
        /\ loaded' = loaded \cup {f[p] : p \in Recorded(cur)} /\ ~isLoaded(cur)
        /\ freeProgs' = freeProgs \ {f[p] : p \in Recorded(cur)} /\ ptodo' = Recorded(cur)
  BY <1>1, LoadEffect
<1>4. /\ f \in [Recorded(cur) -> freeProgs]
      /\ loaded' = loaded \cup {f[p] : p \in Recorded(cur)} /\ freeProgs' = freeProgs \ {f[p] : p \in Recorded(cur)}
  BY <1>3
<1>5. /\ cs \in StateIds /\ cur \in StateObj /\ cur # None /\ cur = orig /\ listChanged = FALSE
      /\ cur \in Copies(cs) /\ Recorded(cur) \subseteq Progs
  BY <1>1, <1>2, VisitFacts, NoneAssumption DEF Copies, PlaceOK, Recorded
<1>6. Sound(cur, freeProgs, freeLinks, linkProg)
  BY <1>5 DEF RecordsInv, RecordsSound
<1>7. \A p \in Recorded(cur) : cur.progs[p].id \notin loaded /\ cur.progs[p].id \notin loaded'
  <2>1. AllOrNone(cur, loaded)
    BY <1>2, <1>5 DEF RecordsInv, LoadedTogether
  <2>2. \A p \in Recorded(cur) : cur.progs[p].id \notin loaded
    BY <1>2, <2>1 DEF AllOrNone, isLoaded
  <2>3. \A p \in Recorded(cur) : cur.progs[p].id \notin freeProgs
    BY <1>6 DEF Sound, SoundEntry
  <2>4. QED
    BY <1>4, <2>2, <2>3
<1>8. cur' \in StateObj
  BY <1>3
<1>9. /\ Recorded(cur') = Recorded(cur)
      /\ \A p \in Recorded(cur) : /\ cur'.progs[p].id = f[p] /\ cur'.progs[p].fn = cur.progs[p].fn
                                  /\ cur'.progs[p].links = cur.progs[p].links
  BY <1>3
<1>10. \A p \in Recorded(cur) : f[p] \in freeProgs /\ f[p] \in loaded' /\ f[p] \notin freeProgs'
  BY <1>4
<1>11. \A p \in Recorded(cur), x \in Points :
         cur.progs[p].links[x] # None /\ cur.progs[p].links[x].id # None => linkProg[cur.progs[p].links[x].id] = None
  <2>1. SUFFICES ASSUME NEW p \in Recorded(cur), NEW x \in Points, cur.progs[p].links[x] # None,
                        cur.progs[p].links[x].id # None, linkProg[cur.progs[p].links[x].id] # None
                 PROVE  FALSE
    OBVIOUS
  <2>2. cur.progs[p].links[x].id \in LinkIds
    BY <1>5, <2>1 DEF StateObj, ProgState, LinkState, Recorded
  <2>3. linkProg[cur.progs[p].links[x].id] = cur.progs[p].id
    BY <1>6, <2>1 DEF Sound, SoundEntry
  <2>4. QED
    BY <1>1, <1>7, <2>1, <2>2, <2>3 DEF DaemonOK
<1>12. Sound(cur', freeProgs', freeLinks, linkProg)
  <2>1. SUFFICES ASSUME NEW p \in Recorded(cur) PROVE SoundEntry(cur'.progs[p], freeProgs', freeLinks, linkProg)
    BY <1>9 DEF Sound
  <2>2. SoundEntry(cur.progs[p], freeProgs, freeLinks, linkProg)
    BY <1>6 DEF Sound
  <2>3. QED
    BY <1>9, <1>10, <1>11, <2>2 DEF SoundEntry
<1>13. DaemonOK'
  BY <1>1, <1>2, <1>4 DEF DaemonOK
<1>14. \A i \in loaded' : RecordsProg(cur', i) => i \in freeProgs
  BY <1>9, <1>10 DEF RecordsProg
<1>15. Covers(cur', cur, loaded', linkProg)
  <2>1. \A i \in loaded' : ~RecordsProg(cur, i)
    BY <1>7 DEF RecordsProg
  <2>2. \A l \in LinkIds : RecordsLink(cur, l) => RecordsLink(cur', l)
    BY <1>9 DEF RecordsLink
  <2>3. QED
    BY <2>1, <2>2 DEF Covers
<1>16. \A i \in loaded' \ loaded : RecordsProg(cur', i)
  BY <1>4, <1>9 DEF RecordsProg
<1>17. Together(cur', pc', ptodo', loaded')
  BY <1>2, <1>9, <1>10 DEF Together, AllOrNone
<1>18. ASSUME NEW o \in Copies(cs), o.progs = orig.progs PROVE Together(o, pc', ptodo', loaded')
  BY <1>2, <1>5, <1>7, <1>18, SameRecords DEF Together, AllOrNone
<1>19. PlaceOK'
  <2>1. isLoaded(cur)' /\ Recorded(cur)' = Recorded(cur)
    BY <1>9, <1>10 DEF isLoaded, Recorded
  <2>2. QED
    BY <1>2, <1>5, <2>1 DEF PlaceOK
<1>20. QED
  BY <1>1, <1>2, <1>4, <1>8, <1>12, <1>13, <1>14, <1>15, <1>16, <1>17, <1>18, <1>19, StepRecords DEF AtState

\* Step of the walk over the links of program p: every entry keeps its link id,
\* has none, or has one just handed out, and no live link loses its entry.
LEMMA WalkRecords ==
  ASSUME DataInv, VisitOK, RecordsInv, UNCHANGED <<st, stCache, cs, orig, loaded, freeProgs, listChanged>>,
         pc \in {"programs", "links"}, pc' \in {"programs", "links"}, ptodo' \subseteq ptodo,
         NEW p \in Progs, cur.progs[p] # None, NEW ps \in ProgState,
         cur' \in StateObj, cur'.progs = [cur.progs EXCEPT ![p] = ps],
         ps.id = cur.progs[p].id, ps.fn = cur.progs[p].fn,
         freeLinks' \subseteq freeLinks, DaemonOK',
         \A l \in LinkIds \ freeLinks : linkProg'[l] \in {None, linkProg[l]},
         \A x \in Points : ps.links[x] # None =>
           \/ cur.progs[p].links[x] # None /\ ps.links[x].id = cur.progs[p].links[x].id
           \/ ps.links[x].id = None
           \/ ps.links[x].id \in freeLinks \ freeLinks' /\ linkProg'[ps.links[x].id] = ps.id,
         \A x \in Points : cur.progs[p].links[x] # None =>
           \/ ps.links[x] # None /\ ps.links[x].id = cur.progs[p].links[x].id
           \/ cur.progs[p].links[x].id = None
           \/ linkProg'[cur.progs[p].links[x].id] = None,
         \A l \in LinkIds : linkProg[l] = None /\ linkProg'[l] # None =>
           \E x \in Points : ps.links[x] # None /\ ps.links[x].id = l
  PROVE  RecordsInv'
<1>1. /\ cs \in StateIds /\ cur \in StateObj /\ cur # None /\ cur \in Copies(cs) /\ pc \in AtState
      /\ None \notin LinkIds /\ freeLinks \subseteq LinkIds
  BY VisitFacts, NoneAssumption, BpfAgentAssumption DEF AtState, Copies, DataInv, DaemonTypeOK
<1>2. /\ cur'.progs[p] = ps /\ \A q \in Progs \ {p} : cur'.progs[q] = cur.progs[q]
      /\ Recorded(cur') = Recorded(cur) /\ p \in Recorded(cur) /\ Recorded(cur) \subseteq Progs
  <2>1. Recorded(cur) \subseteq Progs
    BY DEF Recorded
  <2>2. cur.progs \in [Progs -> ProgState \cup {None}]
    BY <1>1 DEF StateObj
  <2>3. cur'.progs[p] = ps /\ \A q \in Progs \ {p} : cur'.progs[q] = cur.progs[q]
    BY <2>2
  <2>4. Recorded(cur') = Recorded(cur) /\ p \in Recorded(cur)
    BY <2>3, NoneAssumption DEF Recorded
  <2>5. QED
    BY <2>1, <2>3, <2>4
<1>3. \A q \in Recorded(cur) : cur'.progs[q].id = cur.progs[q].id
  BY <1>2
<1>4. Sound(cur, freeProgs, freeLinks, linkProg) /\ Sound(cur, freeProgs', freeLinks', linkProg')
  BY <1>1, SoundStays DEF RecordsInv, RecordsSound
<1>5. Sound(cur', freeProgs', freeLinks', linkProg')
  <2>1. SUFFICES ASSUME NEW q \in Recorded(cur)
                 PROVE  SoundEntry(cur'.progs[q], freeProgs', freeLinks', linkProg')
    BY <1>2 DEF Sound
  <2>2. SoundEntry(cur.progs[q], freeProgs', freeLinks', linkProg')
    BY <1>4 DEF Sound
  <2>3. CASE q # p
    BY <1>2, <2>2, <2>3
  <2>4. CASE q = p
    <3>1. ASSUME NEW x \in Points, ps.links[x] # None
          PROVE  LET l == ps.links[x].id
                 IN  l \notin freeLinks' /\ (l # None /\ linkProg'[l] # None => linkProg'[l] = ps.id)
      BY <1>1, <2>2, <2>4, <3>1 DEF SoundEntry
    <3>2. QED
      BY <1>2, <2>2, <2>4, <3>1 DEF SoundEntry
  <2>5. QED
    BY <2>3, <2>4
<1>6. \A i : RecordsProg(cur', i) <=> RecordsProg(cur, i)
  BY <1>2, <1>3 DEF RecordsProg
<1>7. Covers(cur', cur, loaded', linkProg')
  <2>1. ASSUME NEW l \in LinkIds, linkProg'[l] # None, RecordsLink(cur, l) PROVE RecordsLink(cur', l)
    <3>1. PICK q \in Recorded(cur), x \in Points : cur.progs[q].links[x] # None /\ cur.progs[q].links[x].id = l
      BY <2>1 DEF RecordsLink
    <3>2. CASE q # p
      BY <1>2, <3>1, <3>2 DEF RecordsLink
    <3>3. CASE q = p
      <4>1. ps.links[x] # None /\ ps.links[x].id = l
        BY <1>1, <2>1, <3>1, <3>3
      <4>2. QED
        BY <1>2, <4>1 DEF RecordsLink
    <3>4. QED
      BY <3>2, <3>3
  <2>2. QED
    BY <1>6, <2>1 DEF Covers
<1>8. \A l \in LinkIds : linkProg[l] = None /\ linkProg'[l] # None => RecordsLink(cur', l)
  BY <1>2 DEF RecordsLink
<1>9. \A o \in Copies(cs) : AllOrNone(o, loaded)
  BY <1>1 DEF RecordsInv, LoadedTogether
<1>10. Together(cur', pc', ptodo', loaded') /\ \A o \in Copies(cs) : Together(o, pc', ptodo', loaded')
  BY <1>1, <1>2, <1>3, <1>9 DEF Together, AllOrNone
<1>11. PlaceOK'
  <2>1. ~Busy(cur) \/ (isLoaded(cur) /\ listChanged = FALSE /\ ptodo \subseteq Recorded(cur))
    BY DEF RecordsInv, PlaceOK
  <2>2. (Busy(cur)' <=> Busy(cur)) /\ (isLoaded(cur)' <=> isLoaded(cur)) /\ Recorded(cur)' = Recorded(cur)
    <3>1. Recorded(cur)' = Recorded(cur)
      BY <1>2 DEF Recorded
    <3>2. QED
      BY <1>3, <3>1 DEF Busy, isLoaded
  <2>3. QED
    BY <2>1, <2>2 DEF PlaceOK
<1>12. QED
  BY <1>1, <1>5, <1>6, <1>7, <1>8, <1>10, <1>11, StepRecords DEF AtState

\* updateLinks changes the marks of entries and adds entries without an id.
LEMMA UpdateLinksEffect ==
  ASSUME DataInv, NEW p \in Progs, updateLinks(p) \/ updateLinksFails(p)
  PROVE  \E ps \in ProgState :
           /\ cur' \in StateObj /\ cur'.progs = [cur.progs EXCEPT ![p] = ps] /\ cur'.load = cur.load
           /\ ps.id = cur.progs[p].id /\ ps.fn = cur.progs[p].fn
           /\ pc' = "programs" => ps.attach = "UpdateAttachInfoError"
           /\ \A x \in Points :
                /\ ps.links[x] # None => \/ cur.progs[p].links[x] # None /\ ps.links[x].id = cur.progs[p].links[x].id
                                         \/ ps.links[x].id = None
                /\ cur.progs[p].links[x] # None => ps.links[x] # None /\ ps.links[x].id = cur.progs[p].links[x].id
<1>1. pc = "programs" /\ pc \in AtState /\ cur.progs[p] # None
  BY DEF updateLinks, updateLinksFails, HasProgState, AtState
<1>2. cur \in StateObj /\ cur.progs[p] \in ProgState
  BY <1>1, VisitFacts DEF StateObj
<1> DEFINE Entry(got) == [cur.progs[p] EXCEPT !.links = LinksWith(cur.progs[p].links, got)]
           ErrorEntry(got) == [cur.progs[p] EXCEPT !.links = LinksWith(cur.progs[p].links, got),
                                                   !.attach = "UpdateAttachInfoError"]
<1>3. PICK got \in SUBSET Points : \/ cur' = [cur EXCEPT !.progs[p] = Entry(got)] /\ pc' = "links"
                                  \/ cur' = [cur EXCEPT !.progs[p] = ErrorEntry(got)]
  <2>1. \A got \in SUBSET getExpectedLinks(p) : got \in SUBSET Points
    BY DEF getExpectedLinks, DataInv, ObjTypeOK
  <2>2. CASE updateLinks(p)
    <3>1. PICK got \in SUBSET getExpectedLinks(p) : cur' = [cur EXCEPT !.progs[p].links = LinksWith(@, got)]
      BY <2>2 DEF updateLinks
    <3>2. cur' = [cur EXCEPT !.progs[p] = [cur.progs[p] EXCEPT !.links = LinksWith(cur.progs[p].links, got)]]
      BY <1>2, <3>1 DEF StateObj, ProgState
    <3>3. pc' = "links"
      BY <2>2 DEF updateLinks
    <3>4. QED
      BY <2>1, <3>2, <3>3
  <2>3. CASE updateLinksFails(p)
    <3>1. PICK got \in SUBSET getExpectedLinks(p) :
            cur' = [cur EXCEPT !.progs[p].links = LinksWith(@, got), !.progs[p].attach = "UpdateAttachInfoError"]
      BY <2>3 DEF updateLinksFails
    <3>2. cur' = [cur EXCEPT !.progs[p] = [cur.progs[p] EXCEPT !.links = LinksWith(cur.progs[p].links, got),
                                                               !.attach = "UpdateAttachInfoError"]]
      BY <1>2, <3>1 DEF StateObj, ProgState
    <3>3. QED
      BY <2>1, <3>2
  <2>4. QED
    BY <2>2, <2>3
<1>4. PICK ps : /\ ps \in {Entry(got), ErrorEntry(got)} /\ cur' = [cur EXCEPT !.progs[p] = ps]
                /\ pc' = "programs" => ps = ErrorEntry(got)
  BY <1>3
<1> DEFINE links == LinksWith(cur.progs[p].links, got)
<1>5. links \in [Points -> LinkState \cup {None}]
  BY <1>2, LinksWithType DEF ProgState
<1>6. ASSUME NEW x \in Points
      PROVE  /\ links[x] # None => \/ cur.progs[p].links[x] # None /\ links[x].id = cur.progs[p].links[x].id
                                   \/ links[x].id = None
             /\ cur.progs[p].links[x] # None => links[x] # None /\ links[x].id = cur.progs[p].links[x].id
  <2> DEFINE b == x \in got
  <2>1. links[x] = IF cur.progs[p].links[x] # None THEN [cur.progs[p].links[x] EXCEPT !.should = b]
                   ELSE IF b THEN NewLink ELSE None
    BY DEF LinksWith
  <2>2. cur.progs[p].links[x] # None => cur.progs[p].links[x] \in LinkState
    BY <1>2 DEF ProgState
  <2>3. b \in BOOLEAN
    OBVIOUS
  <2> HIDE DEF b, links
  <2>4. CASE cur.progs[p].links[x] # None
    <3>1. [cur.progs[p].links[x] EXCEPT !.should = b] \in LinkState
          /\ [cur.progs[p].links[x] EXCEPT !.should = b].id = cur.progs[p].links[x].id
      BY <2>2, <2>3, <2>4 DEF LinkState
    <3>2. QED
      BY <2>1, <2>4, <3>1, NoneAssumption
  <2>5. CASE cur.progs[p].links[x] = None
    BY <2>1, <2>5 DEF NewLink
  <2>6. QED
    BY <2>4, <2>5
<1>7. /\ ps \in ProgState /\ ps.id = cur.progs[p].id /\ ps.fn = cur.progs[p].fn /\ ps.links = links
      /\ pc' = "programs" => ps.attach = "UpdateAttachInfoError"
  <2> HIDE DEF links
  <2>1. \A status \in ProgramLinkStatus :
          LET r == [cur.progs[p] EXCEPT !.links = links, !.attach = status]
          IN  r \in ProgState /\ r.id = cur.progs[p].id /\ r.fn = cur.progs[p].fn /\ r.links = links /\ r.attach = status
    BY <1>2, <1>5 DEF ProgState
  <2>2. LET r == [cur.progs[p] EXCEPT !.links = links]
        IN  r \in ProgState /\ r.id = cur.progs[p].id /\ r.fn = cur.progs[p].fn /\ r.links = links
    BY <1>2, <1>5 DEF ProgState
  <2>3. "UpdateAttachInfoError" \in ProgramLinkStatus
    BY DEF ProgramLinkStatus
  <2>4. QED
    BY <1>4, <2>1, <2>2, <2>3 DEF links
<1>8. cur' \in StateObj /\ cur'.progs = [cur.progs EXCEPT ![p] = ps]
  BY <1>2, <1>4, <1>7, SetProgType
<1>9. cur'.load = cur.load
  BY <1>2, <1>4 DEF StateObj
<1> HIDE DEF links
<1>10. QED
  BY <1>6, <1>7, <1>8, <1>9

LEMMA UpdateLinksRecords ==
  ASSUME ContractInv, ObjectInv, RecordsInv, NEW p \in Progs, updateLinks(p) \/ updateLinksFails(p)
  PROVE  RecordsInv'
<1>1. DataInv /\ VisitOK
  BY DEF ContractInv, ObjectInv
<1>2. /\ UNCHANGED <<st, stCache, cs, orig, daemonVars, listChanged>> /\ pc = "programs"
      /\ pc' \in {"programs", "links"} /\ ptodo' \subseteq ptodo /\ cur.progs[p] # None
  BY DEF updateLinks, updateLinksFails, HasProgState
<1>3. PICK ps \in ProgState :
        /\ cur' \in StateObj /\ cur'.progs = [cur.progs EXCEPT ![p] = ps]
        /\ ps.id = cur.progs[p].id /\ ps.fn = cur.progs[p].fn
        /\ \A x \in Points :
             /\ ps.links[x] # None => \/ cur.progs[p].links[x] # None /\ ps.links[x].id = cur.progs[p].links[x].id
                                      \/ ps.links[x].id = None
             /\ cur.progs[p].links[x] # None => ps.links[x] # None /\ ps.links[x].id = cur.progs[p].links[x].id
  BY <1>1, UpdateLinksEffect
<1>4. UNCHANGED <<loaded, freeProgs, linkProg, freeLinks>> /\ DaemonOK'
  BY <1>2 DEF daemonVars, RecordsInv, DaemonOK
<1>5. QED
  BY <1>1, <1>2, <1>3, <1>4, WalkRecords

\* reconcileBpfLink: an attached link is recorded, a link that is there keeps
\* its entry, and an entry goes only with its link.
LEMMA LinkEffect ==
  ASSUME Separating \cap Faults = {}, DataInv, DaemonOK, RecordsSound, NEW x \in Points,
         \/ LinkInPlace(x) \/ LinkAttach(x) \/ LinkAttachFails(x)
         \/ LinkDetach(x) \/ LinkDetachFails(x) \/ LinkDrop(x)
  PROVE  \E ps \in ProgState :
           /\ cur' \in StateObj /\ cur'.progs = [cur.progs EXCEPT ![cp] = ps] /\ cur'.load = cur.load
           /\ ps.id = cur.progs[cp].id /\ ps.fn = cur.progs[cp].fn
           /\ \A y \in Points \ {x} : ps.links[y] = cur.progs[cp].links[y]
           /\ ps.links[x] # None => \/ ps.links[x].id = cur.progs[cp].links[x].id
                                    \/ ps.links[x].id \in freeLinks \ freeLinks' /\ linkProg'[ps.links[x].id] = ps.id
           /\ \/ ps.links[x] # None /\ ps.links[x].id = cur.progs[cp].links[x].id
              \/ cur.progs[cp].links[x].id = None
              \/ linkProg'[cur.progs[cp].links[x].id] = None
           /\ ps.links[x] # None /\ isAttachSuccess(ps.links[x]) =>
                ps.links[x].id # None /\ linkProg'[ps.links[x].id] = ps.id
           /\ \A l \in LinkIds : \/ linkProg'[l] = linkProg[l]
                                 \/ l \in freeLinks /\ ps.links[x] # None /\ ps.links[x].id = l
                                 \/ /\ linkProg[l] = ps.id /\ linkProg'[l] = None
                                    /\ l = cur.progs[cp].links[x].id /\ ps.links[x] = None
           /\ freeLinks' \subseteq freeLinks /\ DaemonOK'
<1>1. "get" \notin Faults /\ "reply" \notin Faults
  BY DEF Separating
<1>2. AtLink(x) /\ pc = "links" /\ pc \in AtState /\ x \in ltodo
  BY DEF LinkInPlace, LinkAttach, LinkAttachFails, LinkDetach, BpfmanDetach, LinkDetachFails, LinkDrop, AtLink, AtState
<1>3. /\ cs \in StateIds /\ cur \in StateObj /\ cur # None /\ cp \in Progs /\ cur.progs[cp] # None
      /\ cur.progs[cp] \in ProgState /\ cur.progs[cp].links[x] \in LinkState /\ cur.progs[cp].links[x] # None
      /\ None \notin LinkIds /\ None \notin ProgIds /\ cur \in Copies(cs) /\ freeLinks \subseteq LinkIds
  BY <1>1, <1>2, VisitFacts, LinkEntryType, NoneAssumption, BpfAgentAssumption
     DEF DataInv, ControlOK, DaemonTypeOK, Copies
<1> DEFINE id  == cur.progs[cp].id
           old == cur.progs[cp].links[x].id
<1>4. SoundEntry(cur.progs[cp], freeProgs, freeLinks, linkProg) /\ old \in LinkIds \cup {None}
  <2>1. cp \in Recorded(cur)
    BY <1>3 DEF Recorded
  <2>2. QED
    BY <1>3, <2>1 DEF RecordsSound, Sound, LinkState
<1>5. old # None => old \notin freeLinks /\ linkProg[old] \in {None, id}
  BY <1>3, <1>4 DEF SoundEntry
<1>6. \A status \in LinkStatus : /\ WithStatus(x, status) \in LinkState /\ WithStatus(x, status) # None
                                 /\ WithStatus(x, status).id = old /\ WithStatus(x, status).status = status
  BY <1>2, <1>3, LinkEntryType, NoneAssumption DEF WithStatus, LinkState
<1>7. PICK new \in LinkState \cup {None} :
        /\ VisitLink(x, new) /\ freeLinks' \subseteq freeLinks /\ DaemonOK'
        /\ new # None => new.id = old \/ (new.id \in freeLinks \ freeLinks' /\ linkProg'[new.id] = id)
        /\ (new # None /\ new.id = old) \/ old = None \/ linkProg'[old] = None
        /\ new # None /\ isAttachSuccess(new) => new.id # None /\ linkProg'[new.id] = id
        /\ \A l \in LinkIds : \/ linkProg'[l] = linkProg[l]
                              \/ l \in freeLinks /\ new # None /\ new.id = l
                              \/ linkProg[l] = id /\ linkProg'[l] = None /\ l = old /\ new = None
  <2>1. {"Attached", "AttachError", "DetachError"} \subseteq LinkStatus
    BY DEF LinkStatus
  <2>2. CASE LinkInPlace(x)
    <3>1. /\ VisitLink(x, WithStatus(x, "Attached")) /\ UNCHANGED <<linkProg, freeLinks, loaded, freeProgs>>
          /\ old # None /\ linkProg[old] = id
      BY <2>2 DEF LinkInPlace, VisitLink, isAttached
    <3>2. DaemonOK'
      BY <3>1 DEF DaemonOK
    <3>3. QED
      BY <1>6, <2>1, <3>1, <3>2
  <2>3. CASE LinkAttachFails(x) \/ LinkDetachFails(x)
    <3>1. PICK status \in {"AttachError", "DetachError"} : VisitLink(x, WithStatus(x, status))
      BY <2>3 DEF LinkAttachFails, LinkDetachFails
    <3>2. UNCHANGED <<linkProg, freeLinks, loaded, freeProgs>>
      BY <1>1, <2>3, <3>1 DEF LinkAttachFails, LinkDetachFails, Fault, VisitLink
    <3>3. DaemonOK'
      BY <3>2 DEF DaemonOK
    <3>4. ~isAttachSuccess(WithStatus(x, status))
      BY <1>6, <2>1 DEF isAttachSuccess
    <3>5. QED
      BY <1>6, <2>1, <3>1, <3>2, <3>3, <3>4
  <2>4. CASE LinkAttach(x)
    <3>1. id \in loaded /\ ~isAttached(x)
      BY <1>1, <2>4 DEF LinkAttach, Fault
    <3>2. PICK l \in freeLinks : BpfmanAttach(l, id) /\ VisitLink(x, [WithStatus(x, "Attached") EXCEPT !.id = l])
      BY <2>4 DEF LinkAttach
    <3> DEFINE ls == [WithStatus(x, "Attached") EXCEPT !.id = l]
    <3>3. ls \in LinkState /\ ls # None /\ ls.id = l
      <4>1. WithStatus(x, "Attached") \in LinkState /\ l \in LinkIds
        BY <1>3, <1>6, <2>1
      <4>2. QED
        BY <4>1, NoneAssumption DEF LinkState
    <3>4. VisitLink(x, ls)
      BY <3>2
    <3> HIDE DEF ls
    <3>5. /\ linkProg'[l] = id /\ \A m \in LinkIds \ {l} : linkProg'[m] = linkProg[m]
          /\ freeLinks' = freeLinks \ {l} /\ UNCHANGED <<loaded, freeProgs>> /\ l \in LinkIds
      BY <1>3, <3>2, <3>4 DEF BpfmanAttach, VisitLink, DataInv, DaemonTypeOK
    <3>6. DaemonOK'
      BY <3>1, <3>5 DEF DaemonOK
    <3>7. old = None \/ linkProg'[old] = None
      BY <1>4, <1>5, <3>1, <3>5 DEF isAttached
    <3>8. QED
      BY <1>3, <3>3, <3>4, <3>5, <3>6, <3>7
  <2>5. CASE LinkDetach(x)
    <3>1. /\ VisitLink(x, None) /\ linkProg' = [linkProg EXCEPT ![old] = None] /\ UNCHANGED freeLinks
          /\ old # None /\ linkProg[old] = id
      BY <2>5 DEF LinkDetach, BpfmanDetach, isAttached
    <3>2. /\ linkProg'[old] = None /\ \A m \in LinkIds \ {old} : linkProg'[m] = linkProg[m]
          /\ UNCHANGED <<loaded, freeProgs>>
      BY <1>4, <3>1 DEF VisitLink, DataInv, DaemonTypeOK
    <3>3. DaemonOK'
      BY <3>1, <3>2 DEF DaemonOK
    <3>4. QED
      BY <3>1, <3>2, <3>3
  <2>6. CASE LinkDrop(x)
    <3>1. VisitLink(x, None) /\ UNCHANGED <<linkProg, freeLinks>> /\ ~isAttached(x)
      BY <1>1, <2>6 DEF LinkDrop, Fault
    <3>2. old = None \/ linkProg[old] = None
      BY <1>4, <1>5, <3>1 DEF isAttached, DaemonOK
    <3>3. UNCHANGED <<loaded, freeProgs>>
      BY <3>1 DEF VisitLink
    <3>4. DaemonOK'
      BY <3>1, <3>3 DEF DaemonOK
    <3>5. QED
      BY <3>1, <3>2, <3>4
  <2>7. QED
    BY <2>2, <2>3, <2>4, <2>5, <2>6
<1> DEFINE ps == [cur.progs[cp] EXCEPT !.links[x] = new]
<1>8. /\ ps \in ProgState /\ ps.id = id /\ ps.fn = cur.progs[cp].fn
      /\ ps.links[x] = new /\ \A y \in Points \ {x} : ps.links[y] = cur.progs[cp].links[y]
  BY <1>3 DEF ProgState
<1>9. cur' = [cur EXCEPT !.progs[cp] = ps]
  BY <1>3, <1>7 DEF VisitLink, StateObj, ProgState
<1> HIDE DEF ps
<1>10. cur' \in StateObj /\ cur'.progs = [cur.progs EXCEPT ![cp] = ps]
  BY <1>3, <1>8, <1>9, SetProgType
<1>11. cur'.load = cur.load
  BY <1>3, <1>9 DEF StateObj
<1>12. QED
  BY <1>7, <1>8, <1>10, <1>11

LEMMA LinkRecords ==
  ASSUME Separating \cap Faults = {}, ContractInv, ObjectInv, RecordsInv, NEW x \in Points,
         \/ LinkInPlace(x) \/ LinkAttach(x) \/ LinkAttachFails(x)
         \/ LinkDetach(x) \/ LinkDetachFails(x) \/ LinkDrop(x)
  PROVE  RecordsInv'
<1>1. DataInv /\ VisitOK /\ DaemonOK /\ RecordsSound
  BY DEF ContractInv, ObjectInv, RecordsInv
<1>2. AtLink(x) /\ pc = "links" /\ x \in ltodo
  BY DEF LinkInPlace, LinkAttach, LinkAttachFails, LinkDetach, BpfmanDetach, LinkDetachFails, LinkDrop, AtLink
<1>3. cp \in Progs /\ cur.progs[cp] # None /\ cur.progs[cp].links[x] # None
  BY <1>1, <1>2 DEF DataInv, ControlOK
<1>4. UNCHANGED <<st, stCache, cs, orig, loaded, freeProgs, listChanged, pc, ptodo>>
  BY DEF LinkInPlace, LinkAttach, LinkAttachFails, LinkDetach, BpfmanDetach, LinkDetachFails, LinkDrop, VisitLink
<1>5. PICK ps \in ProgState :
        /\ cur' \in StateObj /\ cur'.progs = [cur.progs EXCEPT ![cp] = ps] /\ cur'.load = cur.load
        /\ ps.id = cur.progs[cp].id /\ ps.fn = cur.progs[cp].fn
        /\ \A y \in Points \ {x} : ps.links[y] = cur.progs[cp].links[y]
        /\ ps.links[x] # None => \/ ps.links[x].id = cur.progs[cp].links[x].id
                                 \/ ps.links[x].id \in freeLinks \ freeLinks' /\ linkProg'[ps.links[x].id] = ps.id
        /\ \/ ps.links[x] # None /\ ps.links[x].id = cur.progs[cp].links[x].id
           \/ cur.progs[cp].links[x].id = None
           \/ linkProg'[cur.progs[cp].links[x].id] = None
        /\ ps.links[x] # None /\ isAttachSuccess(ps.links[x]) =>
             ps.links[x].id # None /\ linkProg'[ps.links[x].id] = ps.id
        /\ \A l \in LinkIds : \/ linkProg'[l] = linkProg[l]
                              \/ l \in freeLinks /\ ps.links[x] # None /\ ps.links[x].id = l
                              \/ /\ linkProg[l] = ps.id /\ linkProg'[l] = None
                                 /\ l = cur.progs[cp].links[x].id /\ ps.links[x] = None
        /\ freeLinks' \subseteq freeLinks /\ DaemonOK'
  BY <1>1, LinkEffect, Zenon
<1>6. \A y \in Points : ps.links[y] # None =>
         \/ cur.progs[cp].links[y] # None /\ ps.links[y].id = cur.progs[cp].links[y].id
         \/ ps.links[y].id = None
         \/ ps.links[y].id \in freeLinks \ freeLinks' /\ linkProg'[ps.links[y].id] = ps.id
  BY <1>3, <1>5
<1>7. \A y \in Points : cur.progs[cp].links[y] # None =>
         \/ ps.links[y] # None /\ ps.links[y].id = cur.progs[cp].links[y].id
         \/ cur.progs[cp].links[y].id = None
         \/ linkProg'[cur.progs[cp].links[y].id] = None
  BY <1>5
<1>8. \A l \in LinkIds : linkProg[l] = None /\ linkProg'[l] # None =>
         \E y \in Points : ps.links[y] # None /\ ps.links[y].id = l
  BY <1>5
<1>9. \A l \in LinkIds \ freeLinks : linkProg'[l] \in {None, linkProg[l]}
  BY <1>5
<1>10. QED
  BY <1>1, <1>2, <1>3, <1>4, <1>5, <1>6, <1>7, <1>8, <1>9, WalkRecords

\* The other steps of the walk: the status of the program, and the panic over a
\* program without an id.
LEMMA WalkEndsRecords ==
  ASSUME ContractInv, ObjectInv, RecordsInv, LinksDone \/ \E x \in Points : LinkPanic(x)
  PROVE  RecordsInv'
<1>1. DataInv /\ VisitOK /\ PlaceOK /\ DaemonOK
  BY DEF ContractInv, ObjectInv, RecordsInv
<1>2. pc = "links" /\ pc \in AtState
  BY DEF LinksDone, LinkPanic, AtLink, AtState
<1>3. cur \in StateObj /\ cp \in Progs /\ cur.progs[cp] # None /\ cur.progs[cp] \in ProgState
  BY <1>1, <1>2, VisitFacts DEF DataInv, ControlOK, StateObj
<1>4. CASE LinksDone
  <2> DEFINE status == updateProgramAttachStatus(cur.progs[cp])
             ps == [cur.progs[cp] EXCEPT !.attach = status]
  <2>1. status \in ProgramLinkStatus
    BY DEF updateProgramAttachStatus, ProgramLinkStatus
  <2>2. cur' = [cur EXCEPT !.progs[cp].attach = status]
    BY <1>4 DEF LinksDone
  <2> HIDE DEF status
  <2>3. /\ ps \in ProgState /\ ps.id = cur.progs[cp].id /\ ps.fn = cur.progs[cp].fn
        /\ ps.links = cur.progs[cp].links
    BY <1>3, <2>1 DEF ProgState
  <2>4. cur' = [cur EXCEPT !.progs[cp] = ps]
    BY <1>3, <2>2 DEF StateObj, ProgState
  <2> HIDE DEF ps
  <2>5. cur' \in StateObj /\ cur'.progs = [cur.progs EXCEPT ![cp] = ps]
    BY <1>3, <2>3, <2>4, SetProgType
  <2>6. /\ UNCHANGED <<st, stCache, cs, orig, listChanged, ptodo>> /\ pc' = "programs"
        /\ UNCHANGED <<loaded, freeProgs, linkProg, freeLinks>>
    BY <1>4 DEF LinksDone, daemonVars
  <2>7. DaemonOK'
    BY <1>1, <2>6 DEF DaemonOK
  <2>8. QED
    BY <1>1, <1>2, <1>3, <2>3, <2>5, <2>6, <2>7, WalkRecords
<1>5. ASSUME NEW x \in Points, LinkPanic(x) PROVE RecordsInv'
  <2>1. UNCHANGED <<st, stCache, daemonVars>> /\ pc' = "idle" /\ cur.progs[cp].id = None
    BY <1>5 DEF LinkPanic, ReturnAndRequeue, ReturnLocals
  <2>2. None \notin loaded
    BY <1>1, BpfAgentAssumption DEF DataInv, DaemonTypeOK
  <2>3. ~isLoaded(cur)
    BY <1>3, <2>1, <2>2 DEF isLoaded, Recorded
  <2>4. ~Busy(cur)
    BY <1>1, <1>2, <2>3 DEF PlaceOK
  <2>5. QED
    BY <1>1, <1>2, <2>1, <2>4, LeaveRecords
<1>6. QED
  BY <1>4, <1>5

(***************************************************************************)
(* The theorems.                                                           *)
(***************************************************************************)
LEMMA InitRecords == Init => RecordsInv
<1>1. SUFFICES ASSUME Init PROVE RecordsInv
  OBVIOUS
<1>2. \A s \in StateIds : Copies(s) = {}
  BY <1>1 DEF Init, Copies, AtState
<1>3. DaemonOK /\ NothingOrphaned
  BY <1>1 DEF Init, DaemonOK, NothingOrphaned
<1>4. RecordsSound /\ OneRecord /\ LoadedTogether
  BY <1>2 DEF RecordsSound, OneRecord, LoadedTogether
<1>5. NothingDropped /\ PlaceOK
  BY <1>1 DEF Init, NothingDropped, PlaceOK, AtState
<1>6. QED
  BY <1>3, <1>4, <1>5 DEF RecordsInv

LEMMA RecordsInductive ==
  ASSUME Separating \cap Faults = {}, ContractInv, ObjectInv, HeldInv, RecordsInv, [Next]_vars
  PROVE  RecordsInv'
<1>1. DataInv
  BY DEF ContractInv
<1>2. CASE UNCHANGED vars
  BY <1>1, <1>2, QuietRecords DEF vars, agentVars
<1>3. CASE LoadStep
  BY <1>3, LoadEndsRecords, NewProgramsRecords, UnloadRecords DEF LoadStep
<1>4. CASE LinkStep
  BY <1>4, MissingRecords, UpdateLinksRecords, LinkRecords, WalkEndsRecords DEF LinkStep
<1>5. QED
  BY <1>1, <1>2, <1>3, <1>4, NextKinds, LoopRecords, WriteRecords, EndRecords, ClusterRecords, EnvironmentRecords

LEMMA RecordsHold ==
  ASSUME Separating \cap Faults = {}
  PROVE  Spec => [](ContractInv /\ ObjectInv /\ RecordsInv)
<1>1. Init => ContractInv /\ ObjectInv /\ HeldInv /\ RecordsInv
  <2>1. Init => HeldInv
    BY DEF Init, HeldInv, Held, AtState
  <2>2. QED
    BY <2>1, InitContract, InitObject, InitRecords
<1>2. ContractInv /\ ObjectInv /\ HeldInv /\ RecordsInv /\ [Next]_vars
        => (ContractInv /\ ObjectInv /\ HeldInv /\ RecordsInv)'
  <2>1. SUFFICES ASSUME ContractInv, ObjectInv, HeldInv, RecordsInv, [Next]_vars
                 PROVE  ContractInv' /\ ObjectInv' /\ HeldInv' /\ RecordsInv'
    OBVIOUS
  <2>2. "recreate" \notin Faults
    BY DEF Separating
  <2>3. QED
    BY <2>1, <2>2, ContractInductive, ObjectInductive, HeldInductive, RecordsInductive
<1>3. QED
  BY <1>1, <1>2, PTL DEF Spec

\* For any number of applications, programs and points: while none of the
\* separating failures happens, every program bpfman has loaded is recorded in a
\* state object or in the hands of the reconcile (load, unload,
\* updateBpfAppStateStatus, removeFinalizer).
THEOREM NoProgramOrphaned ==
  ASSUME Separating \cap Faults = {}
  PROVE  Spec => []NoOrphanProgram
<1>1. ContractInv /\ RecordsInv => NoOrphanProgram
  <2>1. SUFFICES ASSUME ContractInv, RecordsInv, NEW i \in loaded
                 PROVE  \/ \E s \in StateIds : st[s] # None /\ RecordsProg(st[s], i)
                        \/ cur # None /\ RecordsProg(cur, i)
    BY DEF NoOrphanProgram
  <2>2. PICK o \in Recorders : o # None /\ RecordsProg(o, i)
    BY <2>1 DEF RecordsInv, NothingOrphaned
  <2>3. QED
    BY <2>2 DEF Recorders
<1>2. QED
  BY <1>1, RecordsHold, PTL

\* The same for every link bpfman has attached (reconcileBpfLink, unload).
THEOREM NoLinkOrphaned ==
  ASSUME Separating \cap Faults = {}
  PROVE  Spec => []NoOrphanLink
<1>1. ContractInv /\ RecordsInv => NoOrphanLink
  <2>1. SUFFICES ASSUME ContractInv, RecordsInv, NEW l \in LinkIds, linkProg[l] # None
                 PROVE  \/ \E s \in StateIds : st[s] # None /\ RecordsLink(st[s], l)
                        \/ cur # None /\ RecordsLink(cur, l)
    BY DEF NoOrphanLink
  <2>2. PICK o \in Recorders : o # None /\ RecordsLink(o, l)
    BY <2>1 DEF RecordsInv, NothingOrphaned
  <2>3. QED
    BY <2>2 DEF Recorders
<1>2. QED
  BY <1>1, RecordsHold, PTL

=============================================================================

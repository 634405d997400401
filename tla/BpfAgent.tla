------------------------------ MODULE BpfAgent ------------------------------
(***************************************************************************)
(* The bpfman-agent on one node: the reconciler of ClusterBpfApplication   *)
(* objects (controllers/bpfman-agent/cl_application_program.go together    *)
(* with common.go and the per-type program reconcilers), stepping through  *)
(* Reconcile() between the Kubernetes API server, the agent's informer     *)
(* cache and the bpfman daemon.                                            *)
(*                                                                         *)
(* One step of the model is one call that leaves the process (an API       *)
(* write, a bpfman RPC, a poll of the cache) together with the local       *)
(* computation around it, so a crash, a failure or another actor's step    *)
(* may fall between any two of them.                                       *)
(***************************************************************************)
EXTENDS Naturals, FiniteSets

CONSTANTS
  Apps,        \* names of ClusterBpfApplication objects
  Progs,       \* names of BPF functions an application may list
  Points,      \* attach points (interface in a netns, container pid, ...)
  Silent,      \* points whose appearance raises no Kubernetes event
  StateIds,    \* names of ClusterBpfApplicationState objects of this node
  ProgIds,     \* kernel program ids, handed out in increasing order
  LinkIds,     \* link ids, handed out in increasing order
  None,        \* absent object, nil pointer
  Faults,      \* the kinds of failure and of user behaviour a run allows
  MaxFaults,   \* bound: failures in a behaviour
  MaxCreates,  \* bound: incarnations of one application
  MaxEdits,    \* bound: spec, label and pod changes in a behaviour
  MaxUpdates   \* bound: status writes of one state object

FaultKinds ==
  { "crash",     \* the agent process dies between two steps
    "timeout",   \* a wait for the cache gives up, or an API reply is lost
    "write",     \* the API server refuses or does not answer a write
    "load", "attach", "detach", "unload",  \* bpfman refuses an RPC
    "reply",     \* bpfman does the work but the RPC returns an error
    "get",       \* bpfman's Get fails: a program or a link looks absent
    "lost",      \* a program disappears behind the agent's back
    "links",     \* getExpectedLinks fails part-way
    "netns",     \* findLink cannot stat a network namespace and skips it
    "recreate",  \* an application is re-created while its old state is there
    "select",    \* node labels change
    "points",    \* pods and interfaces come and go
    "proglist",  \* the user adds or removes programs of an application
    "retype",    \* the user changes a program's type, or its fentry/fexit function
    "duplicate", \* the user lists a function twice
    "selector" } \* the user writes a nodeSelector that cannot be parsed

ASSUME BpfAgentAssumption ==
  /\ None \notin Apps \cup Progs \cup Points \cup StateIds \cup ProgIds \cup LinkIds
  /\ ProgIds \subseteq Nat /\ LinkIds \subseteq Nat
  /\ Silent \subseteq Points
  /\ Faults \subseteq FaultKinds
  /\ MaxFaults \in Nat /\ MaxCreates \in Nat /\ MaxEdits \in Nat /\ MaxUpdates \in Nat

(***************************************************************************)
(* The objects.                                                            *)
(***************************************************************************)
LinkStatus == {"NotAttached", "Attached", "AttachError", "DetachError"}
ProgramLinkStatus == {"Pending", "Success", "Error", "UpdateAttachInfoError"}
AppLoadStatus == {"", "NotLoaded", "LoadSuccess", "LoadError", "UnloadSuccess",
                  "NotSelected", "ProgramListChangedError"}

\* "NoCond" is an empty conditions list; "" is a condition with an empty type.
CondTypes == {"NoCond", "", "Pending", "Success", "Error", "UnloadError", "Unloaded"}

\* One entry of Status.Programs[i].<type>.Links.
LinkState == [id : LinkIds \cup {None}, should : BOOLEAN, status : LinkStatus]

\* One entry of Status.Programs; fn tells the two types, or the two functions
\* of an fentry/fexit program, apart that a program may have.
ProgState == [id     : ProgIds \cup {None},
              fn     : BOOLEAN,
              attach : ProgramLinkStatus,
              links  : [Points -> LinkState \cup {None}]]

\* ClusterBpfApplicationState: uid is the owner reference.
StateObj == [app       : Apps,
             uid       : Nat,
             finalizer : BOOLEAN,
             deleting  : BOOLEAN,
             count     : Nat,
             load      : AppLoadStatus,
             progs     : [Progs -> ProgState \cup {None}],
             cond      : CondTypes]

\* ClusterBpfApplication: the programs it lists, those of them listed twice,
\* those whose type or function is the second of two, the attach points it asks
\* for, and whether its nodeSelector can be parsed.
AppObj == [uid      : Nat,
           deleting : BOOLEAN,
           progs    : SUBSET Progs,
           twice    : SUBSET Progs,
           fn       : SUBSET Progs,
           want     : SUBSET (Progs \X Points),
           selector : {"valid", "malformed"}]

\* nil is not an object.
ASSUME NoneAssumption == None \notin LinkState \cup ProgState \cup StateObj \cup AppObj

PCs == {"idle", "next", "create", "waitSpec", "load", "unload", "programs",
        "links", "write", "waitStatus", "finalizer"}

VARIABLES
  app,        \* the application objects, as the agent's informer shows them
  selected,   \* the applications whose nodeSelector matches the node's labels
  avail,      \* attach points that exist on the node now
  st,         \* the state objects in the API server
  stCache,    \* the agent's informer cache of them
  loaded,     \* bpfman: ids of loaded programs
  freeProgs,  \* program ids not yet handed out
  linkProg,   \* bpfman: the program a link belongs to, None if not attached
  freeLinks,  \* link ids not yet handed out
  queued,     \* the controller's work queue is not empty
  pc,         \* where Reconcile() stands
  list,       \* appPrograms.Items: the snapshot taken when Reconcile() began
  node,       \* ourNode: the applications selecting the node in that snapshot
  todo,       \* applications of the list not yet visited
  ca,         \* r.currentApp
  cs,         \* name of r.currentAppState
  orig,       \* bpfAppStateOriginal: the state object as it was read
  cur,        \* r.currentAppState
  ptodo,      \* programs not yet visited by the loop at hand
  cp,         \* the program whose links are being processed
  ltodo,      \* links of it not yet visited
  listChanged,\* bpfApplicationStatus has become ProgramListChangedError
  created,    \* incarnations of every application so far
  edits,      \* changes by users and by the node's environment so far
  faults      \* failures so far

objVars    == <<app, selected, avail, created, edits>>
daemonVars == <<loaded, freeProgs, linkProg, freeLinks>>
loopVars   == <<list, node, todo>>
appVars    == <<ca, cs, orig, cur, listChanged>>
progVars   == <<ptodo, cp, ltodo>>
vars == <<objVars, st, stCache, daemonVars, queued, pc, loopVars, appVars, progVars, faults>>

NoLinks == [x \in Points |-> None]
NoProgs == [p \in Progs |-> None]
NoApps  == [a \in Apps |-> None]

Init ==
  /\ app = NoApps /\ selected = Apps /\ avail = Points
  /\ st = [s \in StateIds |-> None] /\ stCache = st
  /\ loaded = {} /\ freeProgs = ProgIds
  /\ linkProg = [l \in LinkIds |-> None] /\ freeLinks = LinkIds
  /\ queued = FALSE /\ pc = "idle"
  /\ list = NoApps /\ node = {} /\ todo = {}
  /\ ca = None /\ cs = None /\ orig = None /\ cur = None /\ listChanged = FALSE
  /\ ptodo = {} /\ cp = None /\ ltodo = {}
  /\ created = [a \in Apps |-> 0] /\ edits = 0 /\ faults = 0

\* A failure of kind k happens in this step.
Fault(k) == k \in Faults /\ faults < MaxFaults /\ faults' = faults + 1

\* Reconcile() returns: its locals are gone.
ReturnLocals ==
  /\ pc' = "idle"
  /\ list' = NoApps /\ node' = {} /\ todo' = {}
  /\ ca' = None /\ cs' = None /\ orig' = None /\ cur' = None /\ listChanged' = FALSE
  /\ ptodo' = {} /\ cp' = None /\ ltodo' = {}

\* return ctrl.Result{}, nil: only an event starts the next reconcile.
Return == ReturnLocals /\ UNCHANGED queued

\* RequeueAfter, an error or a recovered panic: the queue holds a retry.
ReturnAndRequeue == ReturnLocals /\ queued' = TRUE

(***************************************************************************)
(* Reconcile(): the list, the loop over applications.                      *)
(***************************************************************************)
\* getBpfAppState: the cached state objects labelled with the application's
\* name and this node.
getBpfAppState(a) == {s \in StateIds : stCache[s] # None /\ stCache[s].app = a}

ReconcileStart ==
  /\ pc = "idle" /\ queued
  /\ pc' = "next" /\ queued' = FALSE
  /\ list' = app /\ node' = selected
  /\ todo' = {a \in Apps : app[a] # None}
  /\ UNCHANGED <<objVars, st, stCache, daemonVars, appVars, progVars, faults>>

\* No state object and the application is being deleted: nothing to do.
SkipDeletedApp(a) ==
  /\ pc = "next" /\ a \in todo
  /\ getBpfAppState(a) = {} /\ list[a].deleting
  /\ todo' = todo \ {a}
  /\ UNCHANGED <<objVars, st, stCache, daemonVars, queued, pc, list, node, appVars, progVars, faults>>

\* More than one state object: getBpfAppState fails and so does Reconcile().
DuplicateState(a) ==
  /\ pc = "next" /\ a \in todo
  /\ \E s, t \in getBpfAppState(a) : s # t
  /\ ReturnAndRequeue
  /\ UNCHANGED <<objVars, st, stCache, daemonVars, faults>>

\* No state object: go and create one.
NeedState(a) ==
  /\ pc = "next" /\ a \in todo
  /\ getBpfAppState(a) = {} /\ ~list[a].deleting
  /\ pc' = "create" /\ ca' = a
  /\ UNCHANGED <<objVars, st, stCache, daemonVars, queued, loopVars, cs, orig, cur,
                 listChanged, progVars, faults>>

\* The state object is there: work on a copy of the cached one.
BeginApp(a, s) ==
  /\ pc = "next" /\ a \in todo
  /\ getBpfAppState(a) = {s}
  /\ pc' = "load" /\ ca' = a /\ cs' = s
  /\ orig' = stCache[s] /\ cur' = stCache[s] /\ listChanged' = FALSE
  /\ UNCHANGED <<objVars, st, stCache, daemonVars, queued, loopVars, progVars, faults>>

ReconcileDone ==
  /\ pc = "next" /\ todo = {}
  /\ Return
  /\ UNCHANGED <<objVars, st, stCache, daemonVars, faults>>

(***************************************************************************)
(* createBpfAppState: create the object, wait until the cache shows it,    *)
(* initialise its status and write that.                                   *)
(***************************************************************************)
\* Slip: the owner reference is not set.
initBpfAppStateNoOwner(a) ==
  [app |-> a, uid |-> None, finalizer |-> TRUE, deleting |-> FALSE, count |-> 0,
   load |-> "", progs |-> NoProgs, cond |-> "NoCond"]

initBpfAppState(a) ==
  [app |-> a, uid |-> list[a].uid, finalizer |-> TRUE, deleting |-> FALSE, count |-> 0,
   load |-> "", progs |-> NoProgs, cond |-> "NoCond"]

\* Slip: Reconcile() returns after the create without waiting for the cache.
createInitialBpfAppStateNoWait ==
  /\ pc = "create"
  /\ \E s \in StateIds :
       /\ st[s] = None /\ stCache[s] = None
       /\ st' = [st EXCEPT ![s] = initBpfAppState(ca)]
  /\ ReturnAndRequeue
  /\ UNCHANGED <<objVars, stCache, daemonVars, faults>>

createInitialBpfAppState ==
  /\ pc = "create"
  /\ \E s \in StateIds :
       /\ st[s] = None /\ stCache[s] = None
       /\ st' = [st EXCEPT ![s] = initBpfAppState(ca)]
  /\ pc' = "waitSpec"
  /\ UNCHANGED <<objVars, stCache, daemonVars, queued, loopVars, appVars, progVars, faults>>

\* The API server refuses the create: RequeueAfter.
createInitialBpfAppStateFails ==
  /\ pc = "create" /\ Fault("write")
  /\ ReturnAndRequeue
  /\ UNCHANGED <<objVars, st, stCache, daemonVars>>

\* Slip: the list of the new state stays empty.
initializeNodeProgramListEmpty(ap) == [p \in Progs |-> None]

\* initializeNodeProgramList: one entry for every program the spec lists.  A
\* function listed twice is an error, see initBpfAppStateStatusFails.
initializeNodeProgramList(ap) ==
  [p \in Progs |-> IF p \in ap.progs
                   THEN [id |-> None, fn |-> p \in ap.fn, attach |-> "Pending", links |-> NoLinks]
                   ELSE None]

initBpfAppStateStatus(obj, ap) ==
  [obj EXCEPT !.count = 0, !.load = "NotLoaded", !.cond = "Pending",
              !.progs = initializeNodeProgramList(ap)]

\* The wait is over when the cache shows exactly one object.
waitForBpfAppStateSpecUpdate(s) ==
  /\ pc = "waitSpec" /\ getBpfAppState(ca) = {s} /\ list[ca].twice = {}
  /\ cs' = s /\ orig' = stCache[s]
  /\ cur' = initBpfAppStateStatus(stCache[s], list[ca])
  /\ pc' = "write"
  /\ UNCHANGED <<objVars, st, stCache, daemonVars, queued, loopVars, ca, listChanged, progVars, faults>>

\* "duplicate bpf function detected": the object stays as it was created.
initBpfAppStateStatusFails ==
  /\ pc = "waitSpec" /\ (\E s \in StateIds : getBpfAppState(ca) = {s}) /\ list[ca].twice # {}
  /\ ReturnAndRequeue
  /\ UNCHANGED <<objVars, st, stCache, daemonVars, faults>>

\* Two minutes without success, or the reply to the create was lost.
waitForBpfAppStateSpecUpdateTimesOut ==
  /\ pc = "waitSpec" /\ Fault("timeout")
  /\ ReturnAndRequeue
  /\ UNCHANGED <<objVars, st, stCache, daemonVars>>

(***************************************************************************)
(* updateBpfAppStateStatus: count, write, wait until the cache has caught  *)
(* up.  Reconcile() returns after every write.                             *)
(***************************************************************************)
\* Optimistic concurrency and schema validation of the API server: the write
\* must be based on the current object and carry a condition with a type.
Accepted(s, base, new) == st[s] = base /\ new.cond # ""

updateBpfAppStateStatus ==
  /\ pc = "write" /\ cur.count < MaxUpdates
  /\ Accepted(cs, orig, cur)
  /\ cur' = [cur EXCEPT !.count = @ + 1]
  /\ st' = [st EXCEPT ![cs] = cur']
  /\ pc' = "waitStatus"
  /\ UNCHANGED <<objVars, stCache, daemonVars, queued, loopVars, ca, cs, orig, listChanged, progVars, faults>>

updateBpfAppStateStatusFails ==
  /\ pc = "write"
  /\ \/ ~Accepted(cs, orig, cur) /\ UNCHANGED faults
     \/ Fault("write")
  /\ ReturnAndRequeue
  /\ UNCHANGED <<objVars, st, stCache, daemonVars>>

\* Slip: any cached copy ends the wait.
AnyCopySeen(s) == getBpfAppState(ca) = {s}

\* Slip: the wait asks for a larger count.
LaterCopySeen(s) == getBpfAppState(ca) = {s} /\ stCache[s].count > cur.count

\* The cached object carries an update count at least as large as the written one.
StatusSeen(s) == getBpfAppState(ca) = {s} /\ stCache[s].count >= cur.count

waitForBpfAppStateStatusUpdate(s) ==
  /\ pc = "waitStatus" /\ StatusSeen(s)
  /\ Return
  /\ UNCHANGED <<objVars, st, stCache, daemonVars, faults>>

waitForBpfAppStateStatusUpdateTimesOut ==
  /\ pc = "waitStatus" /\ Fault("timeout")
  /\ ReturnAndRequeue
  /\ UNCHANGED <<objVars, st, stCache, daemonVars>>

(***************************************************************************)
(* reconcileLoad: unload when the node is not selected or the application  *)
(* is being deleted, otherwise validate the program list and load.         *)
(***************************************************************************)
isBeingDeleted == list[ca].deleting
isNodeSelected == ca \in node

\* isNodeSelected returns an error instead.
isNodeSelectedFails == list[ca].selector = "malformed"

\* Names of the programs in the state.
Recorded(obj) == {p \in Progs : obj.progs[p] # None}

\* validateProgramList: no program added and none removed, by name; the second
\* occurrence of a name counts as added.
validateProgramList(obj, ap) == Recorded(obj) = ap.progs /\ ap.twice = {}

\* Slip: any program of bpfman's will do.
isLoadedAny(obj) == loaded # {}

\* isLoaded: bpfman knows every recorded program (vacuously when none is).
isLoaded(obj) == \A p \in Recorded(obj) : obj.progs[p].id \in loaded

\* getProgState: the entry of program p, if its type and function match.
HasProgState(obj, ap, p) == obj.progs[p] # None /\ obj.progs[p].fn = (p \in ap.fn)

\* Slip: unload() is not called when the application is deleted.
BeginUnloadForgets ==
  /\ pc = "load" /\ ~isNodeSelectedFails /\ (~isNodeSelected \/ isBeingDeleted)
  /\ pc' = "unload" /\ ptodo' = IF isBeingDeleted THEN {} ELSE Recorded(cur)
  /\ UNCHANGED <<objVars, st, stCache, daemonVars, queued, loopVars, appVars, cp, ltodo, faults>>

BeginUnload ==
  /\ pc = "load" /\ ~isNodeSelectedFails /\ (~isNodeSelected \/ isBeingDeleted)
  /\ pc' = "unload" /\ ptodo' = Recorded(cur)
  /\ UNCHANGED <<objVars, st, stCache, daemonVars, queued, loopVars, appVars, cp, ltodo, faults>>

\* Slip: the id of an unloaded program stays in the state.
UnloadedProgKeepsId(ps) == [ps EXCEPT !.attach = "Success", !.links = NoLinks]

\* The entry of a program after unload(): its links are dropped with its id.
UnloadedProg(ps) ==
  IF ps.id = None THEN [ps EXCEPT !.attach = "Success"]
                  ELSE [ps EXCEPT !.id = None, !.attach = "Success", !.links = NoLinks]

\* bpfman unloads program i and detaches its links.
BpfmanUnload(i) ==
  /\ loaded' = loaded \ {i}
  /\ linkProg' = [l \in LinkIds |-> IF linkProg[l] = i THEN None ELSE linkProg[l]]

\* unload, one program: an error of the RPC is logged and otherwise ignored.
unload(p) ==
  /\ pc = "unload" /\ p \in ptodo
  /\ ptodo' = ptodo \ {p}
  /\ cur' = [cur EXCEPT !.progs[p] = UnloadedProg(@)]
  /\ LET id == cur.progs[p].id
     IN  \/ id \in loaded /\ BpfmanUnload(id) /\ UNCHANGED faults
         \/ id \notin loaded /\ UNCHANGED <<loaded, linkProg, faults>>
         \/ id \in loaded /\ Fault("unload") /\ UNCHANGED <<loaded, linkProg>>
  /\ UNCHANGED <<objVars, st, stCache, freeProgs, freeLinks, queued, pc, loopVars, ca, cs, orig,
                 listChanged, cp, ltodo>>

\* The loop over programs follows unless the application is being deleted.
UnloadDone ==
  /\ pc = "unload" /\ ptodo = {}
  /\ cur' = [cur EXCEPT !.load = IF isNodeSelected THEN "UnloadSuccess" ELSE "NotSelected"]
  /\ ptodo' = IF isBeingDeleted THEN {} ELSE list[ca].progs
  /\ pc' = "programs"
  /\ UNCHANGED <<objVars, st, stCache, daemonVars, queued, loopVars, ca, cs, orig, listChanged,
                 cp, ltodo, faults>>

\* reconcileLoad returned an error: condition Error, and a write in any case
\* (updateBpfAppStateStatus is called with a nil original).
LoadError(status) ==
  /\ cur' = [cur EXCEPT !.load = status, !.cond = "Error"]
  /\ pc' = "write"
  /\ UNCHANGED <<objVars, st, stCache, queued, loopVars, ca, cs, orig, listChanged, progVars>>

\* The load status stays as it is, and a deleted application is not unloaded.
NodeSelectorInvalid ==
  /\ pc = "load" /\ isNodeSelectedFails
  /\ LoadError(cur.load)
  /\ UNCHANGED <<daemonVars, faults>>

MustLoad == pc = "load" /\ ~isNodeSelectedFails /\ isNodeSelected /\ ~isBeingDeleted

ProgramListInvalid ==
  /\ MustLoad /\ ~validateProgramList(cur, list[ca])
  /\ LoadError("ProgramListChangedError")
  /\ UNCHANGED <<daemonVars, faults>>

AlreadyLoaded ==
  /\ MustLoad /\ validateProgramList(cur, list[ca]) /\ isLoaded(cur)
  /\ cur' = [cur EXCEPT !.load = "LoadSuccess"]
  /\ pc' = "programs" /\ ptodo' = list[ca].progs
  /\ UNCHANGED <<objVars, st, stCache, daemonVars, queued, loopVars, ca, cs, orig, listChanged,
                 cp, ltodo, faults>>

\* bpfman loads all the programs of a request or none: the next distinct ids.
FreshIds(P) ==
  {f \in [P -> freeProgs] : /\ \A p, q \in P : f[p] = f[q] => p = q
                            /\ \A i \in freeProgs : (\E p \in P : i < f[p]) => \E q \in P : f[q] = i}

BpfmanLoad(f) ==
  LET ids == {f[p] : p \in DOMAIN f}
  IN  loaded' = loaded \cup ids /\ freeProgs' = freeProgs \ ids

\* getLoadRequest needs a program state for every program of the spec.
CanRequestLoad == \A p \in list[ca].progs : HasProgState(cur, list[ca], p)

\* Slip: the id is looked up by name among all programs of bpfman's, not among
\* those of the reply.
WithIdsOfAny(obj, f) ==
  [obj EXCEPT !.load = "LoadSuccess",
              !.progs = [p \in Progs |->
                 IF p \in Recorded(obj)
                 THEN [obj.progs[p] EXCEPT !.id = CHOOSE i \in loaded \cup {f[p]} :
                                                    \A j \in loaded \cup {f[p]} : i <= j]
                 ELSE None]]

\* The state object once bpfman answered with the ids f.
WithIds(obj, f) ==
  [obj EXCEPT !.load = "LoadSuccess",
              !.progs = [p \in Progs |-> IF p \in Recorded(obj)
                                         THEN [obj.progs[p] EXCEPT !.id = f[p]]
                                         ELSE None]]

\* load() runs when a program is missing, and when isLoaded() could not ask.
load ==
  /\ MustLoad /\ validateProgramList(cur, list[ca]) /\ CanRequestLoad
  /\ \/ ~isLoaded(cur) /\ UNCHANGED faults
     \/ isLoaded(cur) /\ Fault("get")
  /\ \E f \in FreshIds(Recorded(cur)) :
       /\ BpfmanLoad(f)
       /\ cur' = WithIds(cur, f)
  /\ pc' = "programs" /\ ptodo' = list[ca].progs
  /\ UNCHANGED <<objVars, st, stCache, linkProg, freeLinks, queued, loopVars, ca, cs, orig,
                 listChanged, cp, ltodo>>

\* The request cannot be built, bpfman refuses it, does not answer at all, or
\* loads but fails to answer.
loadFails ==
  /\ MustLoad /\ validateProgramList(cur, list[ca])
  /\ LoadError("LoadError")
  /\ \/ ~isLoaded(cur) /\ ~CanRequestLoad /\ UNCHANGED <<daemonVars, faults>>
     \/ ~isLoaded(cur) /\ Fault("load") /\ UNCHANGED daemonVars
     \/ isLoaded(cur) /\ Fault("get") /\ UNCHANGED daemonVars
     \/ /\ ~isLoaded(cur) /\ CanRequestLoad /\ Fault("reply")
        /\ \E f \in FreshIds(Recorded(cur)) : BpfmanLoad(f)
        /\ UNCHANGED <<linkProg, freeLinks>>

(***************************************************************************)
(* reconcileProgram: updateLinks decides which links should be attached,   *)
(* processLinks (reconcileBpfLink for each) makes it so.                   *)
(***************************************************************************)
\* The points getExpectedLinks yields for program p now.
getExpectedLinks(p) == {x \in avail : <<p, x>> \in list[ca].want}

\* createLinkEntry: a link of the spec that the state does not have yet.
NewLink == [id |-> None, should |-> TRUE, status |-> "NotAttached"]

\* Slip: links that are no longer expected are dropped at once.
LinksWithDrops(links, got) ==
  [x \in Points |-> IF x \notin got THEN None ELSE IF links[x] # None THEN links[x] ELSE NewLink]

\* The links after ShouldAttach was cleared on all and set on the points in got.
LinksWith(links, got) ==
  [x \in Points |-> IF links[x] # None THEN [links[x] EXCEPT !.should = x \in got]
                    ELSE IF x \in got  THEN NewLink
                                       ELSE None]

\* getProgState finds no entry for program p.
ProgramStateMissing(p) ==
  /\ pc = "programs" /\ p \in ptodo /\ ~HasProgState(cur, list[ca], p)
  /\ listChanged' = TRUE /\ ptodo' = ptodo \ {p}
  /\ UNCHANGED <<objVars, st, stCache, daemonVars, queued, pc, loopVars, ca, cs, orig, cur,
                 cp, ltodo, faults>>

\* updateLinks succeeds and processLinks starts.  findLink may have skipped
\* points whose network namespace it could not stat.
updateLinks(p) ==
  /\ pc = "programs" /\ p \in ptodo /\ HasProgState(cur, list[ca], p)
  /\ \E got \in SUBSET getExpectedLinks(p) :
       /\ \/ got = getExpectedLinks(p) /\ UNCHANGED faults
          \/ got # getExpectedLinks(p) /\ Fault("netns")
       /\ cur' = [cur EXCEPT !.progs[p].links = LinksWith(@, got)]
  /\ ptodo' = ptodo \ {p} /\ cp' = p
  /\ ltodo' = {x \in Points : cur'.progs[p].links[x] # None}
  /\ pc' = "links"
  /\ UNCHANGED <<objVars, st, stCache, daemonVars, queued, loopVars, ca, cs, orig, listChanged>>

\* Slip: reconcileProgram goes on to processLinks after the error.
updateLinksFailsAndGoesOn(p) ==
  /\ pc = "programs" /\ p \in ptodo /\ HasProgState(cur, list[ca], p)
  /\ Fault("links")
  /\ \E got \in SUBSET getExpectedLinks(p) :
       cur' = [cur EXCEPT !.progs[p].links = LinksWith(@, got)]
  /\ ptodo' = ptodo \ {p} /\ cp' = p
  /\ ltodo' = {x \in Points : cur'.progs[p].links[x] # None}
  /\ pc' = "links"
  /\ UNCHANGED <<objVars, st, stCache, daemonVars, queued, loopVars, ca, cs, orig, listChanged>>

\* updateLinks fails after some points: reconcileProgram records the error and
\* processes no link of this program.
updateLinksFails(p) ==
  /\ pc = "programs" /\ p \in ptodo /\ HasProgState(cur, list[ca], p)
  /\ Fault("links")
  /\ \E got \in SUBSET getExpectedLinks(p) :
       cur' = [cur EXCEPT !.progs[p].links = LinksWith(@, got),
                          !.progs[p].attach = "UpdateAttachInfoError"]
  /\ ptodo' = ptodo \ {p}
  /\ UNCHANGED <<objVars, st, stCache, daemonVars, queued, pc, loopVars, ca, cs, orig, listChanged,
                 cp, ltodo>>

\* Slip: bpfman is not asked whether the recorded link still exists.
isAttachedByRecord(x) == cur.progs[cp].links[x].id # None

\* isAttached and doesLinkExist for point x of the current program.
isAttached(x) ==
  LET id == cur.progs[cp].id
      l  == cur.progs[cp].links[x].id
  IN  id \in loaded /\ l # None /\ linkProg[l] = id

shouldAttach(x) == cur.progs[cp].links[x].should

\* What every branch of reconcileBpfLink has in common: point x is visited
\* and its entry becomes new (None when the link is to be removed).
VisitLink(x, new) ==
  /\ cur' = [cur EXCEPT !.progs[cp].links[x] = new]
  /\ ltodo' = ltodo \ {x}
  /\ UNCHANGED <<objVars, st, stCache, freeProgs, loaded, queued, pc, loopVars, ca, cs, orig,
                 listChanged, ptodo, cp>>

WithStatus(x, status) == [cur.progs[cp].links[x] EXCEPT !.status = status]

AtLink(x) == pc = "links" /\ x \in ltodo

LinkInPlace(x) ==
  /\ AtLink(x) /\ shouldAttach(x) /\ isAttached(x)
  /\ VisitLink(x, WithStatus(x, "Attached"))
  /\ UNCHANGED <<linkProg, freeLinks, faults>>

\* bpfman attaches program i under the next link id.
BpfmanAttach(l, i) ==
  /\ \A m \in freeLinks : l <= m
  /\ linkProg' = [linkProg EXCEPT ![l] = i] /\ freeLinks' = freeLinks \ {l}

LinkAttach(x) ==
  /\ AtLink(x) /\ shouldAttach(x) /\ cur.progs[cp].id \in loaded
  /\ \/ ~isAttached(x) /\ UNCHANGED faults
     \/ isAttached(x) /\ Fault("get")
  /\ \E l \in freeLinks :
       /\ BpfmanAttach(l, cur.progs[cp].id)
       /\ VisitLink(x, [WithStatus(x, "Attached") EXCEPT !.id = l])

\* bpfman does not know the program, refuses, does not answer at all, or
\* attaches but fails to answer.
LinkAttachFails(x) ==
  /\ AtLink(x) /\ shouldAttach(x) /\ cur.progs[cp].id # None
  /\ VisitLink(x, WithStatus(x, "AttachError"))
  /\ \/ cur.progs[cp].id \notin loaded /\ UNCHANGED <<linkProg, freeLinks, faults>>
     \/ ~isAttached(x) /\ Fault("attach") /\ UNCHANGED <<linkProg, freeLinks>>
     \/ isAttached(x) /\ Fault("get") /\ UNCHANGED <<linkProg, freeLinks>>
     \/ /\ ~isAttached(x) /\ cur.progs[cp].id \in loaded /\ Fault("reply")
        /\ \E l \in freeLinks : BpfmanAttach(l, cur.progs[cp].id)

\* getAttachRequest dereferences the nil ProgramId: controller-runtime recovers
\* the panic and retries.
LinkPanic(x) ==
  /\ AtLink(x) /\ shouldAttach(x) /\ cur.progs[cp].id = None
  /\ ReturnAndRequeue
  /\ UNCHANGED <<objVars, st, stCache, daemonVars, faults>>

\* bpfman detaches the link that the entry of point x names.
BpfmanDetach(x) == linkProg' = [linkProg EXCEPT ![cur.progs[cp].links[x].id] = None]

LinkDetach(x) ==
  /\ AtLink(x) /\ ~shouldAttach(x) /\ isAttached(x)
  /\ BpfmanDetach(x)
  /\ VisitLink(x, None)
  /\ UNCHANGED <<freeLinks, faults>>

\* Slip: the entry goes although the detach failed.
LinkDetachFailsForgets(x) ==
  /\ AtLink(x) /\ ~shouldAttach(x) /\ isAttached(x) /\ Fault("detach")
  /\ VisitLink(x, None)
  /\ UNCHANGED <<linkProg, freeLinks>>

\* bpfman refuses, or detaches but fails to answer.
LinkDetachFails(x) ==
  /\ AtLink(x) /\ ~shouldAttach(x) /\ isAttached(x)
  /\ VisitLink(x, WithStatus(x, "DetachError"))
  /\ \/ Fault("detach") /\ UNCHANGED linkProg
     \/ Fault("reply") /\ BpfmanDetach(x)
  /\ UNCHANGED freeLinks

\* Neither wanted nor, as far as bpfman could be asked, attached: the entry is
\* removed.
LinkDrop(x) ==
  /\ AtLink(x) /\ ~shouldAttach(x)
  /\ \/ ~isAttached(x) /\ UNCHANGED faults
     \/ isAttached(x) /\ Fault("get")
  /\ VisitLink(x, None)
  /\ UNCHANGED <<linkProg, freeLinks>>

isAttachSuccess(ls) == ls.status = IF ls.should THEN "Attached" ELSE "NotAttached"

\* Slip: one good link is enough.
AnyLinkAttached(ps) ==
  IF (\A x \in Points : ps.links[x] = None)
     \/ (\E x \in Points : ps.links[x] # None /\ isAttachSuccess(ps.links[x]))
  THEN "Success" ELSE "Error"

updateProgramAttachStatus(ps) ==
  IF \A x \in Points : ps.links[x] # None => isAttachSuccess(ps.links[x])
  THEN "Success" ELSE "Error"

LinksDone ==
  /\ pc = "links" /\ ltodo = {}
  /\ cur' = [cur EXCEPT !.progs[cp].attach = updateProgramAttachStatus(cur.progs[cp])]
  /\ cp' = None /\ pc' = "programs"
  /\ UNCHANGED <<objVars, st, stCache, daemonVars, queued, loopVars, ca, cs, orig, listChanged,
                 ptodo, ltodo, faults>>

(***************************************************************************)
(* The end of the visit to one application: condition, write, finalizer.   *)
(***************************************************************************)
\* Slip: the two results of unloading are swapped.
checkProgramStatusSwapped(obj) ==
  CASE obj.load = "LoadError"     -> "Unloaded"
    [] obj.load = "UnloadSuccess" -> "UnloadError"
    [] OTHER -> IF \A p \in Recorded(obj) : obj.progs[p].attach = "Success"
                THEN "Success" ELSE "Error"

checkProgramStatus(obj) ==
  CASE obj.load = "LoadError"     -> "UnloadError"
    [] obj.load = "UnloadSuccess" -> "Unloaded"
    [] OTHER -> IF \A p \in Recorded(obj) : obj.progs[p].attach = "Success"
                THEN "Success" ELSE "Error"

\* Condition(): the type of the condition it builds; it has no case for
\* ProgramListChangedError and returns the empty condition.
Condition(type) == IF type = "ProgramListChangedError" THEN "" ELSE type

IsBpfAppStateConditionFailure(cond) ==
  cond \in {"NoCond", "Error", "ProgramListChangedError", "UnloadError"}

\* currentAppState with the condition this visit ends with.
FinalState ==
  [cur EXCEPT !.cond = Condition(IF listChanged THEN "ProgramListChangedError"
                                                ELSE checkProgramStatus(cur))]

VisitOver == pc = "programs" /\ ptodo = {}

StatusChanged ==
  /\ VisitOver /\ FinalState # orig
  /\ cur' = FinalState /\ pc' = "write"
  /\ UNCHANGED <<objVars, st, stCache, daemonVars, queued, loopVars, ca, cs, orig, listChanged,
                 progVars, faults>>

\* Deleted, nothing left to write, no failure, finalizer still there.
ReadyToRelease ==
  /\ isBeingDeleted /\ ~IsBpfAppStateConditionFailure(orig.cond)
  /\ orig.finalizer

StatusUnchanged ==
  /\ VisitOver /\ FinalState = orig
  /\ IF ReadyToRelease
     THEN /\ pc' = "finalizer"
          /\ UNCHANGED <<todo, appVars>>
     ELSE /\ pc' = "next" /\ todo' = todo \ {ca}
          /\ ca' = None /\ cs' = None /\ orig' = None /\ cur' = None /\ listChanged' = FALSE
  /\ UNCHANGED <<objVars, st, stCache, daemonVars, queued, list, node, progVars, faults>>

\* The API server drops an object that is being deleted with its last finalizer.
removeFinalizer ==
  /\ pc = "finalizer" /\ st[cs] = orig
  /\ st' = [st EXCEPT ![cs] = IF orig.deleting THEN None ELSE [orig EXCEPT !.finalizer = FALSE]]
  /\ Return
  /\ UNCHANGED <<objVars, stCache, daemonVars, faults>>

\* A failed update is logged; Reconcile() returns without asking for a retry.
removeFinalizerFails ==
  /\ pc = "finalizer"
  /\ \/ st[cs] # orig /\ UNCHANGED faults
     \/ Fault("write")
  /\ Return
  /\ UNCHANGED <<objVars, st, stCache, daemonVars>>

(***************************************************************************)
(* The agent's surroundings: informer, restart, resync, garbage collector, *)
(* operator, users, node, bpfman.                                          *)
(***************************************************************************)
agentVars == <<pc, loopVars, appVars, progVars>>

\* The watch delivers the newest version of state s; its event is enqueued.
SyncState(s) ==
  /\ stCache[s] # st[s]
  /\ stCache' = [stCache EXCEPT ![s] = st[s]]
  /\ queued' = TRUE
  /\ UNCHANGED <<objVars, st, daemonVars, agentVars, faults>>

\* The agent dies and comes back with a freshly listed cache.
Crash ==
  /\ Fault("crash")
  /\ ReturnAndRequeue
  /\ stCache' = st
  /\ UNCHANGED <<objVars, st, daemonVars>>

\* The informer's periodic resync: an update event for every cached state.
Resync ==
  /\ ~queued /\ \E s \in StateIds : stCache[s] # None
  /\ queued' = TRUE
  /\ UNCHANGED <<objVars, st, stCache, daemonVars, agentVars, faults>>

OwnerAlive(s) == app[st[s].app] # None /\ app[st[s].app].uid = st[s].uid

\* The garbage collector deletes a state whose owner is gone; a finalizer holds it.
GarbageCollect(s) ==
  /\ st[s] # None /\ ~OwnerAlive(s)
  /\ st[s].finalizer => ~st[s].deleting
  /\ st' = [st EXCEPT ![s] = IF @.finalizer THEN [@ EXCEPT !.deleting = TRUE] ELSE None]
  /\ UNCHANGED <<objVars, stCache, daemonVars, queued, agentVars, faults>>

\* The operator drops its finalizer once no state object carries the agent's.
OperatorRelease(a) ==
  /\ app[a] # None /\ app[a].deleting
  /\ \A s \in StateIds : st[s] # None /\ st[s].app = a => ~st[s].finalizer
  /\ app' = [app EXCEPT ![a] = None]
  /\ queued' = TRUE
  /\ UNCHANGED <<selected, avail, created, edits, st, stCache, daemonVars, agentVars, faults>>

\* The repetitions and the selectors users write.
Twice == IF "duplicate" \in Faults THEN SUBSET Progs ELSE {{}}
Selectors == IF "selector" \in Faults THEN {"valid", "malformed"} ELSE {"valid"}

\* Without "recreate" a name is taken again only when nothing of the old
\* application is left: no state object, no cached copy of one, no reconcile.
UserCreate(a) ==
  /\ app[a] = None /\ created[a] < MaxCreates
  /\ \/ "recreate" \in Faults
     \/ /\ list[a] = None /\ getBpfAppState(a) = {}
        /\ \A s \in StateIds : st[s] # None => st[s].app # a
  /\ \E P \in (SUBSET Progs) \ {{}}, W \in SUBSET (Progs \X Points), D \in Twice, sel \in Selectors :
       /\ D \subseteq P /\ \A w \in W : w[1] \in P
       /\ app' = [app EXCEPT ![a] = [uid |-> created[a] + 1, deleting |-> FALSE, progs |-> P,
                                     twice |-> D, fn |-> {}, want |-> W, selector |-> sel]]
  /\ created' = [created EXCEPT ![a] = @ + 1]
  /\ queued' = TRUE
  /\ UNCHANGED <<selected, avail, edits, st, stCache, daemonVars, agentVars, faults>>

UserDelete(a) ==
  /\ app[a] # None /\ ~app[a].deleting
  /\ app' = [app EXCEPT ![a].deleting = TRUE]
  /\ queued' = TRUE
  /\ UNCHANGED <<selected, avail, created, edits, st, stCache, daemonVars, agentVars, faults>>

Edit == edits < MaxEdits /\ edits' = edits + 1

\* The user changes the links, the program list, the type or function of a
\* program, or the nodeSelector.  A deleted application can still be edited.
UserEdit(a) ==
  /\ app[a] # None /\ Edit
  /\ \/ \E W \in SUBSET (app[a].progs \X Points) :
          app' = [app EXCEPT ![a].want = W]
     \/ /\ "proglist" \in Faults
        /\ \E P \in (SUBSET Progs) \ {{}}, D \in Twice :
             D \subseteq P /\ app' = [app EXCEPT ![a].progs = P, ![a].twice = D]
     \/ /\ "selector" \in Faults
        /\ \E sel \in Selectors : app' = [app EXCEPT ![a].selector = sel]
     \/ /\ "retype" \in Faults
        /\ \E p \in app[a].progs : app' = [app EXCEPT ![a].fn = IF p \in @ THEN @ \ {p} ELSE @ \cup {p}]
  /\ queued' = TRUE
  /\ UNCHANGED <<selected, avail, created, st, stCache, daemonVars, agentVars, faults>>

\* The node's labels change: one application starts or stops selecting it.
RelabelNode(a) ==
  /\ "select" \in Faults /\ Edit
  /\ selected' = IF a \in selected THEN selected \ {a} ELSE selected \cup {a}
  /\ queued' = TRUE
  /\ UNCHANGED <<app, avail, created, st, stCache, daemonVars, agentVars, faults>>

\* A container or an interface comes or goes.  Pods raise an event, a newly
\* discovered interface does not.
PointChanges(x) ==
  /\ "points" \in Faults /\ Edit
  /\ avail' = IF x \in avail THEN avail \ {x} ELSE avail \cup {x}
  /\ queued' = (queued \/ x \notin Silent)
  /\ UNCHANGED <<app, selected, created, st, stCache, daemonVars, agentVars, faults>>

\* Somebody unloads a program with the bpfman command line.
ProgramLost(i) ==
  /\ i \in loaded /\ Fault("lost")
  /\ BpfmanUnload(i)
  /\ UNCHANGED <<objVars, st, stCache, freeProgs, freeLinks, queued, agentVars>>

(***************************************************************************)
(* The specification.                                                      *)
(***************************************************************************)
\* Every step Reconcile() can take, failed calls included.
ReconcileStep ==
  \/ ReconcileStart \/ ReconcileDone
  \/ \E a \in Apps : SkipDeletedApp(a) \/ DuplicateState(a) \/ NeedState(a)
  \/ \E a \in Apps, s \in StateIds : BeginApp(a, s)
  \/ createInitialBpfAppState \/ createInitialBpfAppStateFails
  \/ \E s \in StateIds : waitForBpfAppStateSpecUpdate(s) \/ waitForBpfAppStateStatusUpdate(s)
  \/ initBpfAppStateStatusFails
  \/ waitForBpfAppStateSpecUpdateTimesOut \/ waitForBpfAppStateStatusUpdateTimesOut
  \/ updateBpfAppStateStatus \/ updateBpfAppStateStatusFails
  \/ NodeSelectorInvalid \/ BeginUnload \/ UnloadDone
  \/ ProgramListInvalid \/ AlreadyLoaded \/ load \/ loadFails
  \/ \E p \in Progs : \/ unload(p) \/ ProgramStateMissing(p)
                      \/ updateLinks(p) \/ updateLinksFails(p)
  \/ \E x \in Points : \/ LinkInPlace(x) \/ LinkAttach(x) \/ LinkAttachFails(x) \/ LinkPanic(x)
                       \/ LinkDetach(x) \/ LinkDetachFails(x) \/ LinkDrop(x)
  \/ LinksDone \/ StatusChanged \/ StatusUnchanged
  \/ removeFinalizer \/ removeFinalizerFails

\* Steps of the cluster around the agent that always come eventually.
ClusterStep ==
  \/ \E s \in StateIds : SyncState(s) \/ GarbageCollect(s)
  \/ \E a \in Apps : OperatorRelease(a)

\* Steps nobody is obliged to take.
EnvironmentStep ==
  \/ Crash \/ Resync
  \/ \E a \in Apps : UserCreate(a) \/ UserDelete(a) \/ UserEdit(a) \/ RelabelNode(a)
  \/ \E x \in Points : PointChanges(x)
  \/ \E i \in ProgIds : ProgramLost(i)

Next == ReconcileStep \/ ClusterStep \/ EnvironmentStep

Spec == Init /\ [][Next]_vars

\* The controller's worker keeps running, the watch keeps delivering, the
\* garbage collector and the operator keep working.
Fairness ==
  /\ WF_vars(ReconcileStep)
  /\ \A s \in StateIds : WF_vars(SyncState(s)) /\ WF_vars(GarbageCollect(s))
  /\ \A a \in Apps : WF_vars(OperatorRelease(a))

FairSpec == Spec /\ Fairness

\* The ten-hour resync of the informers comes again and again.
ResyncSpec == FairSpec /\ WF_vars(Resync)

(***************************************************************************)
(* Properties.                                                             *)
(***************************************************************************)
ObjTypeOK ==
  /\ app \in [Apps -> AppObj \cup {None}] /\ selected \in SUBSET Apps /\ avail \in SUBSET Points
  /\ created \in [Apps -> Nat] /\ edits \in Nat /\ faults \in Nat

StateTypeOK ==
  /\ st \in [StateIds -> StateObj \cup {None}] /\ stCache \in [StateIds -> StateObj \cup {None}]

DaemonTypeOK ==
  /\ loaded \in SUBSET ProgIds /\ freeProgs \in SUBSET ProgIds
  /\ linkProg \in [LinkIds -> ProgIds \cup {None}] /\ freeLinks \in SUBSET LinkIds

LocalTypeOK ==
  /\ pc \in PCs
  /\ list \in [Apps -> AppObj \cup {None}] /\ node \in SUBSET Apps /\ todo \in SUBSET Apps
  /\ ca \in Apps \cup {None} /\ cs \in StateIds \cup {None}
  /\ orig \in StateObj \cup {None} /\ cur \in StateObj \cup {None}
  /\ ptodo \in SUBSET Progs /\ cp \in Progs \cup {None} /\ ltodo \in SUBSET Points

FlagTypeOK == queued \in BOOLEAN /\ listChanged \in BOOLEAN

\* Every variable holds a value of its kind.
TypeOK == ObjTypeOK /\ StateTypeOK /\ DaemonTypeOK /\ LocalTypeOK /\ FlagTypeOK

\* The API server never holds two state objects for one application and node:
\* the wait after the create keeps a second reconcile from creating again.
AtMostOneState ==
  \A s, t \in StateIds :
    st[s] # None /\ st[t] # None /\ st[s].app = st[t].app => s = t

RecordsProg(obj, i) == \E p \in Recorded(obj) : obj.progs[p].id = i
RecordsLink(obj, l) ==
  \E p \in Recorded(obj) : \E x \in Points : obj.progs[p].links[x] # None
                                             /\ obj.progs[p].links[x].id = l

\* No program runs on the node that neither a state object nor the reconcile
\* at work records: nobody would ever unload it.
NoOrphanProgram ==
  \A i \in loaded : \/ \E s \in StateIds : st[s] # None /\ RecordsProg(st[s], i)
                    \/ cur # None /\ RecordsProg(cur, i)

\* The same for links.
NoOrphanLink ==
  \A l \in LinkIds : linkProg[l] # None =>
    \/ \E s \in StateIds : st[s] # None /\ RecordsLink(st[s], l)
    \/ cur # None /\ RecordsLink(cur, l)

\* A state object that records a program still loaded carries the agent's
\* finalizer, so the operator cannot let the application go.
FinalizerGuardsPrograms ==
  \A s \in StateIds : st[s] # None /\ (\E i \in loaded : RecordsProg(st[s], i)) => st[s].finalizer

\* Between reconciles, a state that reports Success for a loaded application
\* tells the truth: its programs are loaded and its links attached.
SuccessIsTrue ==
  \A s \in StateIds :
    pc = "idle" /\ st[s] # None /\ st[s].cond = "Success" /\ st[s].load = "LoadSuccess" =>
      \A p \in Recorded(st[s]) :
        /\ st[s].progs[p].id \in loaded
        /\ \A x \in Points : st[s].progs[p].links[x] # None =>
             /\ st[s].progs[p].links[x].id # None
             /\ linkProg[st[s].progs[p].links[x].id] = st[s].progs[p].id

\* A link of a program that stays loaded is taken down only at a point the
\* application does not ask for.
OnlyUnwantedDetached ==
  [][\A l \in LinkIds :
       linkProg[l] # None /\ linkProg'[l] = None /\ linkProg[l] \in loaded' =>
         \E x \in Points : /\ cur.progs[cp].links[x] # None /\ cur.progs[cp].links[x].id = l
                           /\ <<cp, x>> \notin list[ca].want]_vars

\* Every link application a asks for on this node is attached and recorded.
Settled(a) ==
  \E s \in StateIds :
    /\ st[s] # None /\ st[s].app = a /\ st[s].load = "LoadSuccess" /\ st[s].cond = "Success"
    /\ \A p \in app[a].progs : st[s].progs[p] # None /\ st[s].progs[p].id \in loaded
    /\ \A p \in app[a].progs, x \in avail :
         <<p, x>> \in app[a].want =>
           /\ st[s].progs[p].links[x] # None
           /\ st[s].progs[p].links[x].id # None
           /\ linkProg[st[s].progs[p].links[x].id] = st[s].progs[p].id

\* reconcileLoad can do nothing for application a: its selector cannot be parsed
\* or its list never validates.  Every reconcile that meets it writes its status
\* again and returns, so that the other applications wait as well.
Hopeless(a) == app[a] # None /\ (app[a].selector = "malformed" \/ app[a].twice # {})
NoneHopeless == \A a \in Apps : ~Hopeless(a)

\* Once users and failures come to rest, every live application that selects
\* the node is loaded, attached and reported as such for good, unless there is
\* an application that reconcileLoad can do nothing for.
Converges ==
  \A a \in Apps :
    <>[](app[a] # None /\ ~app[a].deleting /\ a \in selected /\ NoneHopeless => Settled(a))

\* A deleted application goes away, unless an application blocks the agent: it
\* unloads, gives its finalizer back and the operator follows.
DeletedGoes ==
  \A a \in Apps : app[a] # None /\ app[a].deleting /\ NoneHopeless ~> app[a] = None \/ ~NoneHopeless

(***************************************************************************)
(* What the operator may rely on.                                          *)
(***************************************************************************)
\* What AgentContract speaks of in the state object o.
Promise(o) ==
  IF o = None THEN None
  ELSE [cond |-> o.cond, finalizer |-> o.finalizer, deleting |-> o.deleting,
        busy |-> \E p \in Recorded(o) : o.progs[p].id # None]

Contract == INSTANCE AgentContract
              WITH Names <- StateIds, None <- None, obj <- [s \in StateIds |-> Promise(st[s])]

\* nil is no promise either.
ASSUME PromiseAssumption == None \notin Contract!Obj

\* Whatever fails, a state object begins with its finalizer and an empty status,
\* records a program only under that finalizer, and loses the finalizer only
\* after a write that records no program any more.
ImplementsContract == Contract!Spec

\* ProgListChangedError, "The program list has changed which is not allowed": it
\* is reported for an application that a user changed, that lists a function
\* twice, or whose program list was never initialised because something failed
\* between the create and the first status write (initializeNodeProgramList,
\* validateProgramList).
ProgramListErrorIsTrue ==
  \A s \in StateIds :
    st[s] # None /\ st[s].load = "ProgramListChangedError" /\ app[st[s].app] # None =>
      \/ edits > 0
      \/ app[st[s].app].twice # {}
      \/ faults > 0 /\ Recorded(st[s]) = {}

(***************************************************************************)
(* A statement of the API's comments that the code does not keep.          *)
(***************************************************************************)
\* NotSelected, "The app is not selected to run on the node": a node that
\* stays deselected comes to report it.
DeselectionReported ==
  \A a \in Apps : a \notin selected /\ app[a] # None ~>
    \/ a \in selected \/ app[a] = None \/ app[a].deleting
    \/ \E s \in StateIds : st[s] # None /\ st[s].app = a /\ st[s].load = "NotSelected"

=============================================================================

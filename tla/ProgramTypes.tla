---------------------------- MODULE ProgramTypes ----------------------------
(***************************************************************************)
(* The program types of bpfman-operator: what the API server admits and    *)
(* fills in for each of them (apis/v1alpha1), which reconciler of the      *)
(* agent is responsible, and the load and attach requests it sends to      *)
(* bpfman (controllers/bpfman-agent/*_program.go).                         *)
(*                                                                         *)
(* A program is [type, scope, function, links]; links is a sequence of     *)
(* attachInfos [ifs, sel, attrs].  A field the user left out is None.      *)
(***************************************************************************)
EXTENDS Integers, Sequences, FiniteSets, SequencesExt

CONSTANTS
  None,   \* nil, or a field that is not given
  Host    \* the node's own network namespace

NetTypes == {"xdp", "tc", "tcx"}
HostPath == <<"host", Host>>

(***************************************************************************)
(* Admission.  The rules are the kubebuilder markers of the types.         *)
(***************************************************************************)
XdpProceedOnValue == {"Aborted", "Drop", "Pass", "TX", "ReDirect", "DispatcherReturn"}
TcProceedOnValue ==
  {"UnSpec", "OK", "ReClassify", "Shot", "Pipe", "Stolen", "Queued", "Repeat", "ReDirect",
   "Trap", "DispatcherReturn"}
TCDirectionType == {"Ingress", "Egress"}

Optional(x, S) == x = None \/ x \in S
Given(r) == {f \in DOMAIN r : r[f] # None}

\* InterfaceSelector: exactly one of discovery, names and primary.
InterfaceSelector(ifs) == Cardinality(Given(ifs)) = 1

PriorityRange == 0..1000

xdpMarkers(a) ==
  /\ Optional(a.priority, PriorityRange)
  /\ a.proceedOn # None => Range(a.proceedOn) \subseteq XdpProceedOnValue
tcMarkers(a) ==
  /\ Optional(a.priority, PriorityRange) /\ a.direction \in TCDirectionType
  /\ a.proceedOn # None => Range(a.proceedOn) \subseteq TcProceedOnValue
tcxMarkers(a) == Optional(a.priority, PriorityRange) /\ a.direction \in TCDirectionType

ClXdpAttachInfo(ai)        == InterfaceSelector(ai.ifs) /\ xdpMarkers(ai.attrs)
ClTcAttachInfo(ai)         == InterfaceSelector(ai.ifs) /\ tcMarkers(ai.attrs)
ClTcxAttachInfo(ai)        == InterfaceSelector(ai.ifs) /\ tcxMarkers(ai.attrs)
ClUprobeAttachInfo(ai)     == ai.attrs.target # None
ClKprobeAttachInfo(ai)     == ai.attrs.function # None
ClKretprobeAttachInfo(ai)  == ai.attrs.function # None
ClTracepointAttachInfo(ai) == ai.attrs.name # None
ClFentryAttachInfo(ai)     == ai.attrs.mode = "Attach"
ClFexitAttachInfo(ai)      == ai.attrs.mode = "Attach"

\* Namespaced programs have to select pods.
XdpAttachInfo(ai)    == ClXdpAttachInfo(ai) /\ ai.sel # None
TcAttachInfo(ai)     == ClTcAttachInfo(ai) /\ ai.sel # None
TcxAttachInfo(ai)    == ClTcxAttachInfo(ai) /\ ai.sel # None
UprobeAttachInfo(ai) == ClUprobeAttachInfo(ai) /\ ai.sel # None

AllLinks(s, Valid(_)) == \A j \in DOMAIN s.links : Valid(s.links[j])

\* FEntry and FExit name their function and have at most one link.
ClFentryProgramInfo(s) == s.function # None /\ Len(s.links) <= 1 /\ AllLinks(s, ClFentryAttachInfo)
ClFexitProgramInfo(s)  == s.function # None /\ Len(s.links) <= 1 /\ AllLinks(s, ClFexitAttachInfo)

\* The programs of a ClusterBpfApplication: the field named by type is given.
ClBpfApplicationProgram(s) ==
  CASE s.type = "xdp"        -> AllLinks(s, ClXdpAttachInfo)
    [] s.type = "tc"         -> AllLinks(s, ClTcAttachInfo)
    [] s.type = "tcx"        -> AllLinks(s, ClTcxAttachInfo)
    [] s.type \in {"uprobe", "uretprobe"} -> AllLinks(s, ClUprobeAttachInfo)
    [] s.type = "kprobe"     -> AllLinks(s, ClKprobeAttachInfo)
    [] s.type = "kretprobe"  -> AllLinks(s, ClKretprobeAttachInfo)
    [] s.type = "tracepoint" -> AllLinks(s, ClTracepointAttachInfo)
    [] s.type = "fentry"     -> ClFentryProgramInfo(s)
    [] s.type = "fexit"      -> ClFexitProgramInfo(s)
    [] OTHER                 -> FALSE

\* Those of a BpfApplication.
BpfApplicationProgram(s) ==
  CASE s.type = "xdp" -> AllLinks(s, XdpAttachInfo)
    [] s.type = "tc"  -> AllLinks(s, TcAttachInfo)
    [] s.type = "tcx" -> AllLinks(s, TcxAttachInfo)
    [] s.type \in {"uprobe", "uretprobe"} -> AllLinks(s, UprobeAttachInfo)
    [] OTHER          -> FALSE

Admitted(s) ==
  IF s.scope = "cluster" THEN ClBpfApplicationProgram(s) ELSE BpfApplicationProgram(s)

(***************************************************************************)
(* Admission of the entries the agent writes to the state objects.         *)
(***************************************************************************)
AttachInfoStateCommon(l) ==
  l.should \in BOOLEAN /\ l.status \in {"NotAttached", "Attached", "AttachError", "DetachError"}

ClXdpAttachInfoState(l)        == l.iface # None /\ l.attrs.priority # None /\ xdpMarkers(l.attrs)
ClTcAttachInfoState(l)         == l.iface # None /\ l.attrs.priority # None /\ tcMarkers(l.attrs)
ClTcxAttachInfoState(l)        == l.iface # None /\ l.attrs.priority # None /\ tcxMarkers(l.attrs)
ClUprobeAttachInfoState(l)     == l.attrs.target # None
ClKprobeAttachInfoState(l)     == l.attrs.function # None
ClKretprobeAttachInfoState(l)  == l.attrs.function # None
ClTracepointAttachInfoState(l) == l.attrs.name # None
ClFentryProgramInfoState(ls)   == Len(ls) <= 1
ClFexitProgramInfoState(ls)    == Len(ls) <= 1
XdpAttachInfoState(l)          == ClXdpAttachInfoState(l) /\ l.path # HostPath
TcAttachInfoState(l)           == ClTcAttachInfoState(l) /\ l.path # HostPath
TcxAttachInfoState(l)          == ClTcxAttachInfoState(l) /\ l.path # HostPath
UprobeAttachInfoState(l)       == ClUprobeAttachInfoState(l) /\ l.containerPid # None

AllEntries(ls, Valid(_)) == \A j \in DOMAIN ls : AttachInfoStateCommon(ls[j]) /\ Valid(ls[j])

\* The list of a program of a ClusterBpfApplicationState.
ClBpfApplicationProgramState(type, ls) ==
  CASE type = "xdp"        -> AllEntries(ls, ClXdpAttachInfoState)
    [] type = "tc"         -> AllEntries(ls, ClTcAttachInfoState)
    [] type = "tcx"        -> AllEntries(ls, ClTcxAttachInfoState)
    [] type \in {"uprobe", "uretprobe"} -> AllEntries(ls, ClUprobeAttachInfoState)
    [] type = "kprobe"     -> AllEntries(ls, ClKprobeAttachInfoState)
    [] type = "kretprobe"  -> AllEntries(ls, ClKretprobeAttachInfoState)
    [] type = "tracepoint" -> AllEntries(ls, ClTracepointAttachInfoState)
    [] type = "fentry"     -> ClFentryProgramInfoState(ls) /\ AllEntries(ls, AttachInfoStateCommon)
    [] type = "fexit"      -> ClFexitProgramInfoState(ls) /\ AllEntries(ls, AttachInfoStateCommon)

\* That of a BpfApplicationState.
BpfApplicationProgramState(type, ls) ==
  CASE type = "xdp" -> AllEntries(ls, XdpAttachInfoState)
    [] type = "tc"  -> AllEntries(ls, TcAttachInfoState)
    [] type = "tcx" -> AllEntries(ls, TcxAttachInfoState)
    [] type \in {"uprobe", "uretprobe"} -> AllEntries(ls, UprobeAttachInfoState)

StateAdmitted(s, ls) ==
  IF s.scope = "cluster" THEN ClBpfApplicationProgramState(s.type, ls)
                         ELSE BpfApplicationProgramState(s.type, ls)

(***************************************************************************)
(* Defaults the API server fills in.                                       *)
(***************************************************************************)
OrElse(x, default) == IF x = None THEN default ELSE x

InterfaceDiscovery(d) ==
  IF d = None THEN None
  ELSE [auto |-> OrElse(d.auto, FALSE), exclude |-> OrElse(d.exclude, {"lo"}),
        allowed |-> OrElse(d.allowed, <<>>)]

xdpDefaults(a)   == [a EXCEPT !.proceedOn = OrElse(@, <<"Pass", "DispatcherReturn">>)]
tcDefaults(a)    == [a EXCEPT !.proceedOn = OrElse(@, <<"Pipe", "DispatcherReturn">>)]
probeDefaults(a) == [a EXCEPT !.offset = OrElse(@, 0)]

InterfaceDefaults(ifs) == [ifs EXCEPT !.discovery = InterfaceDiscovery(@)]

AttachInfoDefaults(type, ai) ==
  [ai EXCEPT
    !.ifs = IF type \in NetTypes THEN InterfaceDefaults(@) ELSE @,
    !.attrs = CASE type = "xdp" -> xdpDefaults(@)
                [] type = "tc"  -> tcDefaults(@)
                [] type \in {"kprobe", "uprobe", "uretprobe"} -> probeDefaults(@)
                [] OTHER        -> @]

WithDefaults(s) ==
  [s EXCEPT !.links = [j \in DOMAIN s.links |-> AttachInfoDefaults(s.type, s.links[j])]]

(***************************************************************************)
(* The reconcilers: the types each is chosen for, and the type it tells    *)
(* bpfman.                                                                 *)
(***************************************************************************)
Reconciler(scope, types, bpfman) == [scope |-> scope, types |-> types, bpfman |-> bpfman]

ClXdpProgramReconciler        == Reconciler("cluster", {"xdp"}, "XDP")
ClTcProgramReconciler         == Reconciler("cluster", {"tc"}, "TC")
ClTcxProgramReconciler        == Reconciler("cluster", {"tcx"}, "TCX")
ClUprobeProgramReconciler     == Reconciler("cluster", {"uprobe", "uretprobe"}, "UPROBE")
ClKprobeProgramReconciler     == Reconciler("cluster", {"kprobe"}, "KPROBE")
ClKretprobeProgramReconciler  == Reconciler("cluster", {"kretprobe"}, "KPROBE")
ClTracepointProgramReconciler == Reconciler("cluster", {"tracepoint"}, "TRACEPOINT")
ClFentryProgramReconciler     == Reconciler("cluster", {"fentry"}, "FENTRY")
ClFexitProgramReconciler      == Reconciler("cluster", {"fexit"}, "FEXIT")
NsXdpProgramReconciler        == Reconciler("namespace", {"xdp"}, "XDP")
NsTcProgramReconciler         == Reconciler("namespace", {"tc"}, "TC")
NsTcxProgramReconciler        == Reconciler("namespace", {"tcx"}, "TCX")
NsUprobeProgramReconciler     == Reconciler("namespace", {"uprobe", "uretprobe"}, "UPROBE")

ClReconcilers ==
  {ClXdpProgramReconciler, ClTcProgramReconciler, ClTcxProgramReconciler,
   ClUprobeProgramReconciler, ClKprobeProgramReconciler, ClKretprobeProgramReconciler,
   ClTracepointProgramReconciler, ClFentryProgramReconciler, ClFexitProgramReconciler}
NsReconcilers ==
  {NsXdpProgramReconciler, NsTcProgramReconciler, NsTcxProgramReconciler,
   NsUprobeProgramReconciler}

getProgramReconciler(s) ==
  CHOOSE r \in ClReconcilers \cup NsReconcilers : r.scope = s.scope /\ s.type \in r.types

\* getProgramLoadInfo: only fentry and fexit tell bpfman their function.
getProgramLoadInfo(s) ==
  [type |-> getProgramReconciler(s).bpfman,
   function |-> IF s.type \in {"fentry", "fexit"} THEN s.function ELSE None]

(***************************************************************************)
(* getAttachRequest of each reconciler, from an entry of the link list.    *)
(***************************************************************************)
\* The entries of list ls with the indices in kept, in their order.
Keep(ls, kept) ==
  [j \in 1..Cardinality(kept) |->
     ls[CHOOSE h \in kept : Cardinality({x \in kept : x <= h}) = j]]

\* A conversion by a switch: names without a case are dropped.
Convert(names, code) ==
  LET known == Keep(names, {j \in DOMAIN names : names[j] \in DOMAIN code})
  IN  [j \in DOMAIN known |-> code[known[j]]]

xdpCodes == [Aborted |-> 0, Drop |-> 1, Pass |-> 2, TX |-> 3, ReDirect |-> 4,
             DispatcherReturn |-> 31]
xdpProceedOnToInt(proceedOn) == Convert(proceedOn, xdpCodes)

tcCodes == [Unspec |-> -1, OK |-> 0, ReClassify |-> 1, Shot |-> 2, Pipe |-> 3, Stolen |-> 4,
            Queued |-> 5, Repeat |-> 6, ReDirect |-> 7, Trap |-> 8, DispatcherReturn |-> 30]
tcProceedOnToInt(proceedOn) == Convert(proceedOn, tcCodes)

directionToStr(direction) ==
  CASE direction = "Ingress" -> "ingress"
    [] direction = "Egress"  -> "egress"
    [] OTHER                 -> ""

\* Cluster scope leaves the namespace of the host out of the request.
netnsOrNil(l) == IF l.path = HostPath THEN None ELSE l.path

xdpInfo(l, netns) ==
  [info |-> "Xdp", priority |-> l.attrs.priority, iface |-> l.iface,
   proceedOn |-> xdpProceedOnToInt(l.attrs.proceedOn), netns |-> netns]
tcInfo(l, netns) ==
  [info |-> "Tc", priority |-> l.attrs.priority, iface |-> l.iface,
   direction |-> directionToStr(l.attrs.direction),
   proceedOn |-> tcProceedOnToInt(l.attrs.proceedOn), netns |-> netns]
tcxInfo(l, netns) ==
  [info |-> "Tcx", priority |-> l.attrs.priority, iface |-> l.iface,
   direction |-> directionToStr(l.attrs.direction), netns |-> netns]
uprobeInfo(l) ==
  [info |-> "Uprobe", function |-> l.attrs.function, offset |-> l.attrs.offset,
   target |-> l.attrs.target, pid |-> l.attrs.pid, containerPid |-> l.containerPid]

clXdpAttachRequest(l)        == xdpInfo(l, netnsOrNil(l))
clTcAttachRequest(l)         == tcInfo(l, netnsOrNil(l))
clTcxAttachRequest(l)        == tcxInfo(l, netnsOrNil(l))
clUprobeAttachRequest(l)     == uprobeInfo(l)
clKprobeAttachRequest(l)     == [info |-> "Kprobe", function |-> l.attrs.function,
                                 offset |-> l.attrs.offset]
clKretprobeAttachRequest(l)  == [info |-> "Kprobe", function |-> l.attrs.function, offset |-> 0]
clTracepointAttachRequest(l) == [info |-> "Tracepoint", tracepoint |-> l.attrs.name]
clFentryAttachRequest(l)     == [info |-> "Fentry"]
clFexitAttachRequest(l)      == [info |-> "Fexit"]
nsXdpAttachRequest(l)        == xdpInfo(l, l.path)
nsTcAttachRequest(l)         == tcInfo(l, l.path)
nsTcxAttachRequest(l)        == tcxInfo(l, l.path)
nsUprobeAttachRequest(l)     == uprobeInfo(l)

getAttachRequest(s, l) ==
  LET cluster == s.scope = "cluster" IN
  CASE s.type = "xdp" -> IF cluster THEN clXdpAttachRequest(l) ELSE nsXdpAttachRequest(l)
    [] s.type = "tc"  -> IF cluster THEN clTcAttachRequest(l) ELSE nsTcAttachRequest(l)
    [] s.type = "tcx" -> IF cluster THEN clTcxAttachRequest(l) ELSE nsTcxAttachRequest(l)
    [] s.type \in {"uprobe", "uretprobe"} ->
         IF cluster THEN clUprobeAttachRequest(l) ELSE nsUprobeAttachRequest(l)
    [] s.type = "kprobe"     -> clKprobeAttachRequest(l)
    [] s.type = "kretprobe"  -> clKretprobeAttachRequest(l)
    [] s.type = "tracepoint" -> clTracepointAttachRequest(l)
    [] s.type = "fentry"     -> clFentryAttachRequest(l)
    [] s.type = "fexit"      -> clFexitAttachRequest(l)

=============================================================================

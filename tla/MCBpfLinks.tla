----------------------------- MODULE MCBpfLinks -----------------------------
(* Instances of BpfLinks: pods, interfaces and programs for TLC.           *)
EXTENDS BpfLinks

CONSTANTS p1, p2, p3, nsA, nsB, web, db, eth0, eth1

\* Parts of attachInfos.
NoIfs == [discovery |-> None, names |-> None, primary |-> None]
Listed(names) == [NoIfs EXCEPT !.names = names]
Primary == [NoIfs EXCEPT !.primary = TRUE]
Discover(exclude, allowed) ==
  [NoIfs EXCEPT !.discovery = [auto |-> TRUE, exclude |-> exclude, allowed |-> allowed]]
Name(x) == [matches |-> {x}, bad |-> FALSE]
Bad == [matches |-> {}, bad |-> TRUE]
Sel(ns, pods, names) == [ns |-> ns, pods |-> pods, names |-> names]

Net(ifs, sel, prio) ==
  [ifs |-> ifs, sel |-> sel,
   attrs |-> [priority |-> prio, proceedOn |-> None, direction |-> "Ingress"]]
Egress(ai) == [ai EXCEPT !.attrs.direction = "Egress"]
On(ai, proceedOn) == [ai EXCEPT !.attrs.proceedOn = proceedOn]
Probe(fn, sel) ==
  [ifs |-> None, sel |-> sel,
   attrs |-> [function |-> fn, offset |-> None, target |-> "libc", pid |-> None, name |-> fn]]
AttachMode == [ifs |-> None, sel |-> None, attrs |-> [mode |-> "Attach"]]

Program(type, scope, infos) ==
  [type |-> type, scope |-> scope, links |-> infos,
   function |-> IF type \in {"fentry", "fexit"} THEN "open" ELSE None]
AllPods(ns) == Sel(ns, Pods, {})

\* A pod with its own network, one in the node's network and the successor of
\* the first under the same name.
PassPods == {p1, p2, p3}
PassNs   == [p \in PassPods |-> nsA]
PassName == p1 :> web @@ p2 :> db @@ p3 :> web

PassSpecs ==
  { \* one selector, and two that overlap through an explicit default priority
    Program("xdp", "cluster", <<Net(Listed({eth0}), AllPods(nsA), None)>>),
    Program("xdp", "cluster", <<Net(Listed({eth0}), AllPods(None), None),
                                Net(Primary, Sel(nsA, {p1, p3}, {}), 1000)>>),
    \* the node itself next to a pod in its network
    Program("tc", "cluster", <<Net(Primary, None, 5), Net(Listed({eth0}), AllPods(None), 5)>>),
    Program("tc", "cluster", <<On(Net(Primary, None, 5), <<"Shot", "Pipe">>),
                               Egress(Net(Primary, None, 5))>>),
    \* discovered interfaces
    Program("tcx", "cluster", <<Net(Discover({eth1}, <<>>), None, 1),
                                Net(Listed({eth0}), AllPods(None), 1)>>),
    Program("tcx", "cluster", <<Net(Discover({}, <<Name(eth1), Bad, Name(eth0)>>), None, 1)>>),
    \* discovery that is not switched on
    Program("tcx", "cluster", <<Net([NoIfs EXCEPT !.discovery =
                                  [auto |-> None, exclude |-> None, allowed |-> None]], None, 1)>>),
    \* namespaced programs, and one without interfaces
    Program("xdp", "namespace", <<On(Net(Primary, AllPods(None), 7), <<"Drop", "Pass">>)>>),
    Program("xdp", "namespace", <<Net(Listed({}), AllPods(None), 7)>>),
    Program("tc", "namespace", <<Egress(Net(Listed({eth0, eth1}), Sel(None, {p1, p3}, {}), None))>>),
    Program("tcx", "namespace", <<Net(Primary, AllPods(None), 7)>>),
    \* probes
    Program("uprobe", "cluster", <<Probe("malloc", AllPods(None)), Probe("malloc", Sel(nsA, {p1, p3}, {"app"}))>>),
    Program("uretprobe", "cluster", <<Probe("malloc", None)>>),
    Program("uprobe", "namespace", <<Probe("free", Sel(None, {p1, p3}, {"app"}))>>),
    Program("kprobe", "cluster", <<Probe("open", None), Probe("close", None)>>),
    Program("kprobe", "cluster", <<Probe("close", None)>>),
    Program("kretprobe", "cluster", <<Probe("open", None), Probe("open", None)>>),
    Program("tracepoint", "cluster", <<Probe("sched", None)>>),
    Program("tracepoint", "cluster", <<>>),
    Program("fentry", "cluster", <<AttachMode>>),
    Program("fentry", "cluster", <<>>),
    Program("fexit", "cluster", <<AttachMode>>),
    \* documents the API server refuses
    Program("xdp", "cluster", <<Net([Primary EXCEPT !.names = {eth1}], None, None)>>),
    Program("tc", "cluster", <<Net(Primary, None, 1001)>>),
    Program("xdp", "namespace", <<Net(Primary, None, 7)>>),
    Program("fentry", "cluster", <<AttachMode, AttachMode>>),
    Program("kprobe", "namespace", <<Probe("open", None)>>) }

\* Programs that select pods start next to running pods; those of one network
\* type and the container probes also next to the remains of a pod; the others
\* start on an empty node.
Selecting == {s \in PassSpecs : Admitted(s) /\ \E j \in DOMAIN s.links : s.links[j].sel # None}
PassStarts == {[specs |-> Selecting, run |-> {p1, p2}, gone |-> {}],
               [specs |-> {s \in Selecting : s.type \in {"xdp", "uprobe"}},
                run |-> {p3}, gone |-> {p1}],
               [specs |-> PassSpecs \ Selecting, run |-> {}, gone |-> {}]}

PassIfaces == {[name |-> eth0, netns |-> p1, index |-> 2],
               [name |-> eth1, netns |-> Host, index |-> 3]}

\* Two pods of one name in two namespaces.
TwinPods == {p1, p2}
TwinNs   == p1 :> nsA @@ p2 :> nsB
TwinName == [p \in TwinPods |-> web]
TwinSpecs == {Program("xdp", "namespace", <<Net(Primary, AllPods(None), 7)>>)}
TwinStarts == {[specs |-> TwinSpecs, run |-> TwinPods, gone |-> {}]}

\* What the proofs ask of the submitted programs, and of the pods of MCLinks.
ASSUME DistinctProceedOn /\ NoUnSpec /\ MeantInterfaces
ASSUME Pods = PassPods => NamesTellNamespaces
=============================================================================

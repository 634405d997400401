---------------------------- MODULE AgentProcess ----------------------------
(***************************************************************************)
(* The agent's pod on one node (cmd/bpfman-agent/main.go): the init        *)
(* container that mounts bpffs, the start-up of the agent, the life and    *)
(* the shutdown of its three components, and the Unix socket over which    *)
(* the metrics proxy (cmd/metrics-proxy/main.go), a pod of its own,        *)
(* reaches it.  The socket lives in a directory of the host and outlasts   *)
(* the process that made it.                                               *)
(*                                                                         *)
(* What the controllers inside the manager do is the subject of BpfNode.   *)
(* A pod is replaced only when its agent is gone, as the DaemonSet does.   *)
(***************************************************************************)
EXTENDS Integers

CONSTANTS
  None,        \* no value
  Discovery,   \* --enable-interfaces-discovery
  Faults,      \* the kinds of failure a run allows
  MaxFaults    \* bound: failures and signals in a behaviour

FaultKinds ==
  { "mountinfo",  \* the list of mounts cannot be read
    "mount",      \* mount or unmount refused by the kernel
    "race",       \* somebody else mounts bpffs at the same place
    "setup",      \* a step of the start-up fails
    "component",  \* a component fails while it runs, or does not stop in time
    "signal",     \* SIGTERM: the pod is to go
    "kill" }      \* SIGKILL: out of memory, or the grace period is over

Components == {"manager", "metrics"} \cup (IF Discovery THEN {"discovery"} ELSE {})

\* The two kinds of requests the proxy sends through the socket: its own
\* readiness check, and what somebody asks of /agent-metrics.
Calls == {"probe", "scrape"}

ASSUME AgentProcessAssumption ==
  /\ Discovery \in BOOLEAN /\ Faults \subseteq FaultKinds /\ MaxFaults \in Nat
  /\ None \notin Components

VARIABLES
  remount,   \* --mount-bpffs-remount
  bpffs,     \* how many bpffs are mounted on top of each other
  initPc,    \* where the init container stands
  pc,        \* where the agent's main() stands
  exit,      \* how the last agent process ended
  signals,   \* SIGTERMs this pod has received
  ctx,       \* the context is cancelled: by the first signal or the first error
  comp,      \* the goroutines of the errgroup
  firstErr,  \* the error Wait() will return
  serve,     \* the goroutine in Serve()
  listener,  \* the listener of this process is open
  socket,    \* what the path leads to: nothing, a dead process, this listener
  call,      \* the proxy's requests: none, waiting to be accepted, being answered
  answer,    \* the last answer to each
  faults     \* failures so far

initVars == <<remount, bpffs, initPc>>
procVars == <<pc, exit, signals, ctx, comp, firstErr>>
sockVars == <<serve, listener, socket>>
callVars == <<call, answer>>
vars     == <<initVars, procVars, sockVars, callVars, faults>>

Fault(k) == k \in Faults /\ faults < MaxFaults /\ faults' = faults + 1

Off == [c \in Components |-> "off"]

\* Nothing runs; the host may have been used before, with bpffs mounted or a
\* socket left behind.
Init ==
  /\ remount \in BOOLEAN /\ bpffs \in {0, 1} /\ initPc = "check"
  /\ pc = "waiting" /\ exit = None /\ signals = 0 /\ ctx = FALSE
  /\ comp = Off /\ firstErr = None
  /\ serve = "off" /\ listener = FALSE /\ socket \in {"none", "stale"}
  /\ call = [k \in Calls |-> "none"] /\ answer = [k \in Calls |-> None]
  /\ faults = 0

(***************************************************************************)
(* The init container: handleMountBPFFS().                                 *)
(***************************************************************************)
InitStep == UNCHANGED <<remount, procVars, sockVars, callVars>>

\* Slip: remount mode unmounts without a look.
IsMountedIgnored ==
  /\ initPc = "check"
  /\ initPc' = IF remount THEN "unmount" ELSE IF bpffs = 0 THEN "mount" ELSE "ok"
  /\ InitStep /\ UNCHANGED <<bpffs, faults>>

\* "bpffs already mounted", or the way to Mount(), in remount mode over Unmount().
IsMounted ==
  /\ initPc = "check"
  /\ initPc' = IF bpffs = 0 THEN "mount" ELSE IF remount THEN "unmount" ELSE "ok"
  /\ InitStep /\ UNCHANGED <<bpffs, faults>>

IsMountedFails ==
  /\ initPc = "check" /\ Fault("mountinfo")
  /\ initPc' = "failed"
  /\ InitStep /\ UNCHANGED bpffs

Unmount ==
  /\ initPc = "unmount" /\ bpffs' = bpffs - 1 /\ initPc' = "mount"
  /\ InitStep /\ UNCHANGED faults

UnmountFails ==
  /\ initPc = "unmount" /\ Fault("mount") /\ initPc' = "failed"
  /\ InitStep /\ UNCHANGED bpffs

Mount ==
  /\ initPc = "mount" /\ bpffs' = bpffs + 1 /\ initPc' = "ok"
  /\ InitStep /\ UNCHANGED faults

\* The kernel may refuse a mount point that another process has just used.
MountFails ==
  /\ initPc = "mount"
  /\ \/ bpffs > 0 /\ UNCHANGED faults
     \/ Fault("mount")
  /\ initPc' = "recheck"
  /\ InitStep /\ UNCHANGED bpffs

\* Slip: whoever is refused takes it for granted that another process was first.
RecheckTrusting ==
  /\ initPc = "recheck"
  /\ initPc' = "ok" /\ UNCHANGED faults
  /\ InitStep /\ UNCHANGED bpffs

\* Slip: the lost race is an error.
RecheckNever ==
  /\ initPc = "recheck"
  /\ initPc' = "failed" /\ UNCHANGED faults
  /\ InitStep /\ UNCHANGED bpffs

\* "Handle race: another process may have mounted between our check and mount
\* attempt."
Recheck ==
  /\ initPc = "recheck"
  /\ \/ initPc' = (IF bpffs > 0 THEN "ok" ELSE "failed") /\ UNCHANGED faults
     \/ initPc' = "failed" /\ Fault("mountinfo")
  /\ InitStep /\ UNCHANGED bpffs

\* Another process mounts bpffs at the same place.
OtherMounts ==
  /\ Fault("race") /\ bpffs' = bpffs + 1
  /\ UNCHANGED <<remount, initPc, procVars, sockVars, callVars>>

\* The kubelet runs a failed init container again.
RestartInit ==
  /\ initPc = "failed" /\ initPc' = "check"
  /\ InitStep /\ UNCHANGED <<bpffs, faults>>

handleMountBPFFS ==
  IsMounted \/ IsMountedFails \/ Unmount \/ UnmountFails \/ Mount \/ MountFails \/ Recheck

(***************************************************************************)
(* The end of a process.  The kernel closes the listener, whose file stays *)
(* where it is, and resets the connections: the proxy answers 500 or is    *)
(* not ready.                                                              *)
(***************************************************************************)
Reset(K) ==
  /\ answer' = [k \in Calls |-> IF k \in K THEN 500 ELSE answer[k]]
  /\ call' = [k \in Calls |-> IF k \in K THEN "none" ELSE call[k]]

Waiting == {k \in Calls : call[k] = "queued"}
Open == {k \in Calls : call[k] # "none"}

Exit(how) ==
  /\ pc' = "exited" /\ exit' = how
  /\ listener' = FALSE /\ serve' = "off" /\ socket' = IF socket = "bound" THEN "stale" ELSE socket
  /\ Reset(Open)
  /\ UNCHANGED <<initVars, signals>>

\* os.Exit(1) of the start-up.
SetupExit == Exit("setup") /\ UNCHANGED <<ctx, comp, firstErr>>

(***************************************************************************)
(* main(): the start-up.                                                   *)
(***************************************************************************)
SetupStep(from, to) ==
  /\ pc = from /\ pc' = to
  /\ UNCHANGED <<initVars, exit, signals, ctx, firstErr, callVars, faults>>

\* The agent's container starts when the init container has succeeded, and
\* again whenever it has ended and the pod is not to go.
StartAgent ==
  /\ initPc = "ok" /\ pc \in {"waiting", "exited"} /\ signals = 0
  /\ pc' = "setup" /\ ctx' = FALSE /\ comp' = Off /\ firstErr' = None
  /\ UNCHANGED <<initVars, exit, signals, sockVars, callVars, faults>>

\* The manager, the connection to bpfman, the name of the node, the container
\* runtime, the two controllers and the health checks.
SetUp == SetupStep("setup", "remove") /\ UNCHANGED <<comp, sockVars>>

RemoveSocket ==
  /\ SetupStep("remove", "listen") /\ socket' = "none"
  /\ UNCHANGED <<comp, serve, listener>>

\* net.Listen() fails on a path that exists.
Listen ==
  /\ socket = "none" /\ SetupStep("listen", "chmod")
  /\ socket' = "bound" /\ listener' = TRUE
  /\ UNCHANGED <<comp, serve>>

ListenFails ==
  /\ pc = "listen"
  /\ \/ socket # "none" /\ UNCHANGED faults
     \/ Fault("setup")
  /\ SetupExit

Chmod == SetupStep("chmod", "signals") /\ UNCHANGED <<comp, sockVars>>

\* The failed server closes its listener, and with it removes the socket.
ChmodFails ==
  /\ pc = "chmod" /\ Fault("setup")
  /\ pc' = "exited" /\ exit' = "setup"
  /\ listener' = FALSE /\ socket' = "none"
  /\ Reset(Open)
  /\ UNCHANGED <<initVars, signals, ctx, comp, firstErr, serve>>

\* Slip: the socket of an earlier process is not removed.
newAgentMetricsServerKeepsSocket ==
  \/ SetupStep("remove", "listen") /\ UNCHANGED <<comp, sockVars>>
  \/ Listen \/ Chmod \/ ListenFails \/ ChmodFails

\* Slip: the socket is removed after it was made.
newAgentMetricsServerRemovesLate ==
  \/ SetupStep("remove", "listen") /\ socket' = "none" /\ UNCHANGED <<comp, serve, listener>>
  \/ Listen
  \/ SetupStep("chmod", "signals") /\ socket' = "none" /\ UNCHANGED <<comp, serve, listener>>
  \/ ListenFails \/ ChmodFails

newAgentMetricsServer == RemoveSocket \/ Listen \/ Chmod \/ ListenFails \/ ChmodFails

SetupSignalHandler == SetupStep("signals", "discovery") /\ UNCHANGED <<comp, sockVars>>

\* newInterfaceDiscovery() has succeeded or is not wanted; runAgent() starts
\* the goroutines.
StartComponents ==
  /\ SetupStep("discovery", "run")
  /\ comp' = [c \in Components |-> "running"]
  /\ UNCHANGED sockVars

\* A step of the start-up fails; the socket stays if it is there.
SetupFails ==
  /\ pc \in {"setup", "remove"} \cup (IF Discovery THEN {"discovery"} ELSE {})
  /\ Fault("setup") /\ SetupExit

main == SetUp \/ newAgentMetricsServer \/ SetupSignalHandler \/ SetupFails

(***************************************************************************)
(* runAgent(): the errgroup and its goroutines.                            *)
(***************************************************************************)
\* A goroutine takes steps only in a process that is alive.
At(c, where) == pc = "run" /\ comp[c] = where

\* Component c returns; an error cancels the context of all, and the first
\* one is kept.
Returns(c, failed) ==
  /\ comp' = [comp EXCEPT ![c] = "done"]
  /\ ctx' = (ctx \/ failed)
  /\ firstErr' = IF failed /\ firstErr = None THEN c ELSE firstErr
  /\ UNCHANGED <<initVars, pc, exit, signals, callVars>>

\* mgr.Start()
managerStops ==
  /\ At("manager", "running") /\ ctx
  /\ Returns("manager", FALSE) /\ UNCHANGED <<sockVars, faults>>

managerFails ==
  /\ At("manager", "running") /\ Fault("component")
  /\ Returns("manager", TRUE) /\ UNCHANGED sockVars

\* interfaceDiscovery.run(): until the context is cancelled ...
discoveryStops ==
  /\ Discovery /\ At("discovery", "running") /\ ctx
  /\ Returns("discovery", FALSE) /\ UNCHANGED <<sockVars, faults>>

\* Slip: the loop ends without an error.
discoveryFailsSilently ==
  /\ Discovery /\ At("discovery", "running") /\ Fault("component")
  /\ Returns("discovery", FALSE) /\ UNCHANGED sockVars

\* ... or the channel of the events is closed.
discoveryFails ==
  /\ Discovery /\ At("discovery", "running") /\ Fault("component")
  /\ Returns("discovery", TRUE) /\ UNCHANGED sockVars

\* Closing the listener removes its file.
CloseListener ==
  /\ listener' = FALSE
  /\ socket' = IF listener /\ socket = "bound" THEN "none" ELSE socket

\* The goroutine of agentMetricsServer.run() reaches Serve().  A server that is
\* already shut down makes it close the listener and return.
ServeStarts ==
  /\ pc = "run" /\ serve = "off"
  /\ IF comp["metrics"] = "running"
     THEN serve' = "serving" /\ UNCHANGED <<listener, socket, callVars>>
     ELSE serve' = "closed" /\ CloseListener /\ Reset(Waiting)
  /\ UNCHANGED <<initVars, procVars, faults>>

\* Serve() gives up: its listener is closed, the error goes to errCh.
ServeFails ==
  /\ serve = "serving" /\ Fault("component")
  /\ serve' = "failed" /\ CloseListener
  /\ Reset(Waiting)
  /\ UNCHANGED <<initVars, procVars>>

\* <-ctx.Done(): Shutdown() closes the listener if Serve() has taken it, and
\* waits for the requests being answered.
Shutdown ==
  /\ At("metrics", "running") /\ ctx
  /\ comp' = [comp EXCEPT !["metrics"] = "shutdown"]
  /\ IF serve = "serving"
     THEN serve' = "closed" /\ CloseListener /\ Reset(Waiting)
     ELSE UNCHANGED <<sockVars, callVars>>
  /\ UNCHANGED <<initVars, pc, exit, signals, ctx, firstErr, faults>>

\* Slip: run() leaves the socket to the server.
removeAtReturnNot == UNCHANGED sockVars

\* The deferred os.Remove() of run().
removeAtReturn == socket' = "none" /\ UNCHANGED <<serve, listener>>

ShutdownDone ==
  /\ At("metrics", "shutdown") /\ \A k \in Calls : call[k] # "active"
  /\ Returns("metrics", FALSE) /\ removeAtReturn /\ UNCHANGED faults

\* A request takes longer than the 5 seconds of Shutdown().
ShutdownTimesOut ==
  /\ At("metrics", "shutdown") /\ \E k \in Calls : call[k] = "active"
  /\ Returns("metrics", TRUE) /\ removeAtReturn /\ UNCHANGED faults

\* err := <-errCh
ServeError ==
  /\ At("metrics", "running") /\ serve = "failed"
  /\ Returns("metrics", TRUE) /\ removeAtReturn /\ UNCHANGED faults

agentMetricsServerRun == Shutdown \/ ShutdownDone \/ ShutdownTimesOut \/ ServeError

\* g.Wait() returns when every goroutine has; main() ends.
Wait ==
  /\ pc = "run" /\ \A c \in Components : comp[c] = "done"
  /\ Exit(IF firstErr = None THEN "ok" ELSE "error")
  /\ UNCHANGED <<ctx, comp, firstErr, faults>>

(***************************************************************************)
(* Signals and the kubelet.                                                *)
(***************************************************************************)
\* SIGTERM.  The handler cancels the context, and a second signal ends the
\* process; before there is a handler the first one does.
Terminate ==
  /\ pc \notin {"waiting", "exited"} /\ Fault("signal")
  /\ signals' = signals + 1
  /\ IF pc \in {"discovery", "run"} /\ signals = 0
     THEN /\ ctx' = TRUE
          /\ UNCHANGED <<pc, exit, comp, firstErr, sockVars, callVars>>
     ELSE /\ pc' = "exited" /\ exit' = "killed"
          /\ listener' = FALSE /\ serve' = "off"
          /\ socket' = IF socket = "bound" THEN "stale" ELSE socket
          /\ Reset(Open)
          /\ UNCHANGED <<ctx, comp, firstErr>>
  /\ UNCHANGED initVars

Kill ==
  /\ pc \notin {"waiting", "exited"} /\ Fault("kill")
  /\ Exit("killed") /\ UNCHANGED <<ctx, comp, firstErr>>

\* A pod that was told to go is replaced by a new one.
ReplacePod ==
  /\ pc = "exited" /\ signals > 0
  /\ pc' = "waiting" /\ initPc' = "check" /\ signals' = 0
  /\ UNCHANGED <<remount, bpffs, exit, ctx, comp, firstErr, sockVars, callVars, faults>>

(***************************************************************************)
(* The metrics proxy.                                                      *)
(***************************************************************************)
CallStep == UNCHANGED <<initVars, procVars, sockVars, faults>>

\* readiness() or a request for /agent-metrics, which is sent on as /metrics:
\* the dial succeeds when a listener is behind the path.
Dial(k) ==
  /\ call[k] = "none" /\ socket = "bound" /\ listener
  /\ call' = [call EXCEPT ![k] = "queued"]
  /\ UNCHANGED answer /\ CallStep

\* "readyz: cannot connect", or 500 from the ErrorHandler.
DialFails(k) ==
  /\ call[k] = "none" /\ ~(socket = "bound" /\ listener)
  /\ answer' = [answer EXCEPT ![k] = 500]
  /\ UNCHANGED call /\ CallStep

Accept(k) ==
  /\ call[k] = "queued" /\ serve = "serving"
  /\ call' = [call EXCEPT ![k] = "active"]
  /\ UNCHANGED answer /\ CallStep

\* The handler of the agent's server answers /metrics.
Respond(k) ==
  /\ call[k] = "active"
  /\ call' = [call EXCEPT ![k] = "none"] /\ answer' = [answer EXCEPT ![k] = 200]
  /\ CallStep

(***************************************************************************)
(* The specification.                                                      *)
(***************************************************************************)
ComponentStep ==
  managerStops \/ managerFails \/ discoveryStops \/ discoveryFails \/ agentMetricsServerRun

Next ==
  \/ handleMountBPFFS \/ RestartInit \/ OtherMounts
  \/ StartAgent \/ main \/ StartComponents \/ ComponentStep \/ ServeStarts \/ ServeFails \/ Wait
  \/ Terminate \/ Kill \/ ReplacePod
  \/ \E k \in Calls : Dial(k) \/ DialFails(k) \/ Accept(k) \/ Respond(k)

Spec == Init /\ [][Next]_vars

\* Every goroutine is scheduled, a stopping component stops or times out, the
\* kubelet restarts what has ended and probes the proxy again and again.
Fairness ==
  /\ WF_vars(handleMountBPFFS) /\ WF_vars(RestartInit)
  /\ WF_vars(StartAgent) /\ WF_vars(main \/ StartComponents)
  /\ WF_vars(managerStops) /\ WF_vars(discoveryStops) /\ WF_vars(agentMetricsServerRun)
  /\ WF_vars(ServeStarts) /\ WF_vars(Wait) /\ WF_vars(ReplacePod)
  /\ WF_vars(Dial("probe") \/ DialFails("probe"))
  /\ \A k \in Calls : WF_vars(Accept(k)) /\ WF_vars(Respond(k))

FairSpec == Spec /\ Fairness

(***************************************************************************)
(* Properties.                                                             *)
(***************************************************************************)
\* Every variable holds a value of its kind, and no component is at work
\* before runAgent() has started it.
TypeOK ==
  /\ remount \in BOOLEAN /\ bpffs \in Nat
  /\ initPc \in {"check", "mount", "unmount", "recheck", "ok", "failed"}
  /\ pc \in {"waiting", "setup", "remove", "listen", "chmod", "signals", "discovery", "run", "exited"}
  /\ exit \in {None, "setup", "ok", "error", "killed"} /\ signals \in Nat /\ ctx \in BOOLEAN
  /\ comp \in [Components -> {"off", "running", "shutdown", "done"}]
  /\ firstErr \in Components \cup {None}
  /\ serve \in {"off", "serving", "failed", "closed"} /\ listener \in BOOLEAN
  /\ socket \in {"none", "stale", "bound"}
  /\ call \in [Calls -> {"none", "queued", "active"}] /\ answer \in [Calls -> {None, 200, 500}]
  /\ faults \in Nat
  /\ pc \in {"setup", "remove", "listen", "chmod", "signals", "discovery"} => comp = Off

\* "All components are guaranteed to have completed their shutdown sequence
\* before return": when runAgent() has returned, every component is done and
\* the socket is gone, even if the context was cancelled before the server had
\* begun to serve (runAgent, agentMetricsServer.run).
CleanReturn ==
  pc = "exited" /\ exit \in {"ok", "error"} =>
    /\ socket = "none" /\ \A c \in Components : comp[c] = "done"

\* As long as the agent serves its metrics the path of the socket leads to it,
\* whatever an earlier process left there (newAgentMetricsServer).
ServingIsReachable == serve = "serving" => socket = "bound"

\* The agent runs only where bpffs is mounted, even when another process mounts
\* it at the same moment (handleMountBPFFS).
MountedWhenRunning == pc # "waiting" => bpffs > 0

\* Losing the race for the mount is no failure: the init container fails only
\* where bpffs is not mounted, or with a failure of its own (handleMountBPFFS).
LostRaceIsNoFailure ==
  [][initPc # "failed" /\ initPc' = "failed" => bpffs = 0 \/ faults' > faults]_vars

\* No half-dead agent: when one component has ended, with or without an error,
\* the process ends, so that the kubelet can start it again (runAgent).
NoHalfDeadAgent ==
  pc = "run" /\ (\E c \in Components : comp[c] = "done") ~> pc = "exited"

\* Once nothing fails any more the agent runs and the proxy is ready for good,
\* whatever crashes have left behind (newAgentMetricsServer, readiness).
Recovers == <>[](pc = "run" /\ answer["probe"] = 200)

=============================================================================

------------------------- MODULE AgentProcessProofs -------------------------
(***************************************************************************)
(* The safety properties of AgentProcess, for every set of failures and    *)
(* every bound on their number, with and without the interface discovery.  *)
(***************************************************************************)
EXTENDS AgentProcess, TLAPS

(***************************************************************************)
(* The inductive invariant.                                                *)
(***************************************************************************)
\* The agent's container lives only behind an init container that succeeded,
\* and the init container succeeds, and unmounts, only what is mounted.
MountOK ==
  /\ initPc # "ok" => pc = "waiting"
  /\ initPc \in {"ok", "unmount"} => bpffs > 0

\* From net.Listen() on the path leads to the open listener; in runAgent() until
\* Serve() has failed or run() has seen the context end.
SocketOK ==
  /\ pc \in {"chmod", "signals", "discovery"} => listener /\ socket = "bound"
  /\ pc = "run" /\ comp["metrics"] = "running" /\ serve \in {"off", "serving"} =>
       listener /\ socket = "bound"

\* Serve() runs only while run() waits for it, in a process that is alive, and
\* run() removes the socket when it returns.
ServeOK ==
  /\ pc # "run" => serve = "off"
  /\ serve = "serving" => comp["metrics"] = "running"
  /\ pc = "run" /\ comp["metrics"] = "done" => socket = "none"

ProcessInv == TypeOK /\ MountOK /\ SocketOK /\ ServeOK /\ CleanReturn

(***************************************************************************)
(* The actions in groups.                                                  *)
(***************************************************************************)
MountStep == handleMountBPFFS \/ RestartInit \/ OtherMounts
EndStep   == Wait \/ Terminate \/ Kill \/ ReplacePod
CallStepOf(k) == Dial(k) \/ DialFails(k) \/ Accept(k) \/ Respond(k)

\* Next is these groups of actions.
LEMMA NextGroups ==
  ASSUME Next
  PROVE  \/ MountStep \/ StartAgent \/ main \/ StartComponents \/ ComponentStep
         \/ ServeStarts \/ ServeFails \/ EndStep \/ \E k \in Calls : CallStepOf(k)
  BY Zenon DEF Next, MountStep, EndStep, CallStepOf

\* What the end of a process leaves: types.
LEMMA ResetType ==
  ASSUME TypeOK, NEW K, Reset(K)
  PROVE  call' \in [Calls -> {"none", "queued", "active"}] /\ answer' \in [Calls -> {None, 200, 500}]
  BY DEF TypeOK, Reset

LEMMA MetricsIsComponent == "metrics" \in Components /\ "manager" \in Components
                            /\ (Discovery => "discovery" \in Components)
  BY DEF Components

LEMMA ReturnsType ==
  ASSUME TypeOK, NEW c \in Components, NEW failed \in BOOLEAN, Returns(c, failed)
  PROVE  /\ comp' \in [Components -> {"off", "running", "shutdown", "done"}]
         /\ ctx' \in BOOLEAN
         /\ firstErr' \in Components \cup {None}
         /\ comp'[c] = "done" /\ \A d \in Components \ {c} : comp'[d] = comp[d]
  BY DEF TypeOK, Returns

LEMMA InitInv == Init => ProcessInv
  <1> SUFFICES ASSUME Init PROVE ProcessInv
    OBVIOUS
  <1>1. comp \in [Components -> {"off", "running", "shutdown", "done"}]
    BY DEF Init, Off
  <1>2. ctx \in BOOLEAN /\ listener \in BOOLEAN /\ remount \in BOOLEAN
    BY Zenon DEF Init
  <1>3. TypeOK
    BY <1>1, <1>2 DEF Init, TypeOK
  <1>4. MountOK /\ SocketOK /\ ServeOK /\ CleanReturn
    BY DEF Init, MountOK, SocketOK, ServeOK, CleanReturn
  <1> QED
    BY <1>3, <1>4 DEF ProcessInv

\* The init container.
LEMMA MountKeeps ==
  ASSUME ProcessInv, MountStep
  PROVE  ProcessInv'
  <1>1. UNCHANGED <<procVars, sockVars, callVars, remount>>
    BY Zenon DEF MountStep, handleMountBPFFS, IsMounted, IsMountedFails, Unmount, UnmountFails, Mount,
           MountFails, Recheck, RestartInit, OtherMounts, InitStep
  <1>2. faults' \in Nat
    BY DEF MountStep, handleMountBPFFS, IsMounted, IsMountedFails, Unmount, UnmountFails, Mount,
           MountFails, Recheck, RestartInit, OtherMounts, Fault, ProcessInv, TypeOK
  <1>3. /\ bpffs' \in Nat /\ initPc' \in {"check", "mount", "unmount", "recheck", "ok", "failed"}
        /\ initPc' \in {"ok", "unmount"} => bpffs' > 0
        /\ initPc' # "ok" => pc = "waiting"
    BY DEF MountStep, handleMountBPFFS, IsMounted, IsMountedFails, Unmount, UnmountFails, Mount,
           MountFails, Recheck, RestartInit, OtherMounts, ProcessInv, TypeOK, MountOK
  <1>4. TypeOK'
    BY <1>1, <1>2, <1>3 DEF ProcessInv, TypeOK, procVars, sockVars, callVars, Off
  <1>5. MountOK'
    BY <1>1, <1>3 DEF MountOK, procVars
  <1>6. SocketOK' /\ ServeOK' /\ CleanReturn'
    BY <1>1 DEF ProcessInv, SocketOK, ServeOK, CleanReturn, procVars, sockVars
  <1> QED
    BY <1>4, <1>5, <1>6 DEF ProcessInv

\* The start-up of the agent.
LEMMA SetupKeeps ==
  ASSUME ProcessInv, StartAgent \/ main \/ StartComponents
  PROVE  ProcessInv'
  <1> USE DEF SetupStep, SetupExit, Exit, initVars, sockVars, callVars
  <1>1. CASE StartAgent
    BY <1>1 DEF ProcessInv, TypeOK, MountOK, SocketOK, ServeOK, CleanReturn, StartAgent, Off
  <1>2. CASE StartComponents
    BY <1>2, MetricsIsComponent
       DEF ProcessInv, TypeOK, MountOK, SocketOK, ServeOK, CleanReturn, StartComponents, Off
  <1>3. CASE SetUp \/ Chmod \/ SetupSignalHandler
    BY <1>3 DEF ProcessInv, TypeOK, MountOK, SocketOK, ServeOK, CleanReturn,
                SetUp, Chmod, SetupSignalHandler, Off
  <1>4. CASE RemoveSocket \/ Listen
    <2>1. listener' \in BOOLEAN /\ (pc' = "chmod" => listener')
      BY <1>4 DEF ProcessInv, TypeOK, RemoveSocket, Listen
    <2> QED
      BY <1>4, <2>1
         DEF ProcessInv, TypeOK, MountOK, SocketOK, ServeOK, CleanReturn, RemoveSocket, Listen, Off
  <1>5. CASE ListenFails \/ SetupFails \/ ChmodFails
    <2>1. faults' \in Nat
      BY <1>5 DEF ProcessInv, TypeOK, ListenFails, SetupFails, ChmodFails, Fault
    <2>2. call' \in [Calls -> {"none", "queued", "active"}] /\ answer' \in [Calls -> {None, 200, 500}]
      BY <1>5, ResetType DEF ProcessInv, ListenFails, SetupFails, ChmodFails
    <2>3. /\ pc # "waiting" /\ pc' = "exited" /\ exit' = "setup" /\ listener' = FALSE
          /\ serve' = "off" /\ socket' \in {"none", "stale", "bound"}
          /\ UNCHANGED <<remount, bpffs, initPc, signals, ctx, comp, firstErr>>
      BY <1>5 DEF ProcessInv, TypeOK, ServeOK, ListenFails, SetupFails, ChmodFails
    <2> QED
      BY <2>1, <2>2, <2>3 DEF ProcessInv, TypeOK, MountOK, SocketOK, ServeOK, CleanReturn
  <1> QED
    BY <1>1, <1>2, <1>3, <1>4, <1>5 DEF main, newAgentMetricsServer

\* The goroutines of runAgent().
LEMMA ComponentKeeps ==
  ASSUME ProcessInv, ComponentStep
  PROVE  ProcessInv'
  <1> USE MetricsIsComponent DEF At
  <1>1. CASE managerStops \/ managerFails \/ discoveryStops \/ discoveryFails
    <2>1. PICK c \in Components \ {"metrics"}, failed \in BOOLEAN :
            Returns(c, failed) /\ pc = "run" /\ UNCHANGED sockVars
      BY <1>1 DEF managerStops, managerFails, discoveryStops, discoveryFails
    <2>2. faults' = faults \/ faults' = faults + 1
      BY <1>1, Zenon DEF managerStops, managerFails, discoveryStops, discoveryFails, Fault
    <2>3. /\ comp' \in [Components -> {"off", "running", "shutdown", "done"}]
          /\ ctx' \in BOOLEAN /\ firstErr' \in Components \cup {None}
          /\ comp'["metrics"] = comp["metrics"]
      BY <2>1, ReturnsType DEF ProcessInv
    <2> QED
      BY <2>1, <2>2, <2>3
         DEF ProcessInv, TypeOK, MountOK, SocketOK, ServeOK, CleanReturn, Returns, initVars, sockVars, callVars
  <1>2. CASE Shutdown
    <2>1. call' \in [Calls -> {"none", "queued", "active"}] /\ answer' \in [Calls -> {None, 200, 500}]
      BY <1>2, ResetType DEF ProcessInv, TypeOK, Shutdown, callVars
    <2>2. /\ comp' \in [Components -> {"off", "running", "shutdown", "done"}]
          /\ comp'["metrics"] = "shutdown"
      BY <1>2 DEF ProcessInv, TypeOK, Shutdown
    <2>3. /\ pc = "run" /\ UNCHANGED <<remount, bpffs, initPc, pc, exit, signals, ctx, firstErr, faults>>
          /\ serve' # "serving" /\ serve' \in {"off", "serving", "failed", "closed"}
          /\ listener' \in BOOLEAN /\ socket' \in {"none", "stale", "bound"}
      BY <1>2 DEF ProcessInv, TypeOK, Shutdown, CloseListener, initVars, sockVars
    <2> QED
      BY <2>1, <2>2, <2>3 DEF ProcessInv, TypeOK, MountOK, SocketOK, ServeOK, CleanReturn
  <1>3. CASE ShutdownDone \/ ShutdownTimesOut \/ ServeError
    <2>1. PICK failed \in BOOLEAN : Returns("metrics", failed)
      BY <1>3 DEF ShutdownDone, ShutdownTimesOut, ServeError
    <2>2. /\ comp' \in [Components -> {"off", "running", "shutdown", "done"}]
          /\ ctx' \in BOOLEAN /\ firstErr' \in Components \cup {None}
          /\ comp'["metrics"] = "done"
      BY <2>1, ReturnsType DEF ProcessInv
    <2>3. /\ pc = "run" /\ UNCHANGED <<serve, listener, faults>> /\ socket' = "none" /\ serve # "serving"
      BY <1>3 DEF ProcessInv, ServeOK, ShutdownDone, ShutdownTimesOut, ServeError, removeAtReturn
    <2> QED
      BY <2>1, <2>2, <2>3
         DEF ProcessInv, TypeOK, MountOK, SocketOK, ServeOK, CleanReturn, Returns, initVars, callVars
  <1> QED
    BY <1>1, <1>2, <1>3 DEF ComponentStep, agentMetricsServerRun

\* The goroutine in Serve().
LEMMA ServeKeeps ==
  ASSUME ProcessInv, ServeStarts \/ ServeFails
  PROVE  ProcessInv'
  <1>1. call' \in [Calls -> {"none", "queued", "active"}] /\ answer' \in [Calls -> {None, 200, 500}]
    BY ResetType DEF ProcessInv, TypeOK, ServeStarts, ServeFails, callVars
  <1>2. faults' \in Nat
    BY DEF ProcessInv, TypeOK, ServeStarts, ServeFails, Fault
  <1>3. /\ pc = "run" /\ UNCHANGED <<remount, bpffs, initPc, pc, exit, signals, ctx, comp, firstErr>>
        /\ serve' \in {"serving", "failed", "closed"}
        /\ listener' \in BOOLEAN /\ socket' \in {"none", "stale", "bound"}
    BY DEF ProcessInv, TypeOK, ServeOK, ServeStarts, ServeFails, CloseListener, initVars, procVars
  <1>4. /\ serve' = "serving" => comp["metrics"] = "running" /\ listener' /\ socket' = "bound"
        /\ socket = "none" => socket' = "none"
    BY DEF ProcessInv, SocketOK, ServeStarts, ServeFails, CloseListener
  <1> QED
    BY <1>1, <1>2, <1>3, <1>4 DEF ProcessInv, TypeOK, MountOK, SocketOK, ServeOK, CleanReturn

\* The end of the process, the signals and the kubelet.
LEMMA EndKeeps ==
  ASSUME ProcessInv, EndStep
  PROVE  ProcessInv'
  <1> USE DEF initVars
  <1>1. CASE ReplacePod
    BY <1>1 DEF ProcessInv, TypeOK, MountOK, SocketOK, ServeOK, CleanReturn, ReplacePod, sockVars, callVars
  <1>2. CASE Terminate /\ pc' = pc
    <2>1. ctx' \in BOOLEAN
      BY <1>2 DEF ProcessInv, TypeOK, Terminate
    <2> QED
      BY <1>2, <2>1 DEF ProcessInv, TypeOK, MountOK, SocketOK, ServeOK, CleanReturn, Terminate, Fault,
                     sockVars, callVars, Off
  <1>3. CASE Wait \/ Kill \/ (Terminate /\ pc' # pc)
    <2>1. call' \in [Calls -> {"none", "queued", "active"}] /\ answer' \in [Calls -> {None, 200, 500}]
      BY <1>3, ResetType DEF ProcessInv, Wait, Kill, Terminate, Exit
    <2>2. faults' \in Nat /\ signals' \in Nat
      BY <1>3 DEF ProcessInv, TypeOK, Wait, Kill, Terminate, Exit, Fault
    <2>3. /\ pc # "waiting" /\ pc' = "exited" /\ listener' = FALSE /\ serve' = "off"
          /\ socket' \in {"none", "stale", "bound"}
          /\ UNCHANGED <<remount, bpffs, initPc, ctx, comp, firstErr>>
      BY <1>3 DEF ProcessInv, TypeOK, Wait, Kill, Terminate, Exit
    <2>4. /\ exit' \in {"ok", "error", "killed"}
          /\ exit' \in {"ok", "error"} => socket' = "none" /\ \A c \in Components : comp[c] = "done"
      BY <1>3, MetricsIsComponent DEF ProcessInv, ServeOK, Wait, Kill, Terminate, Exit
    <2> QED
      BY <2>1, <2>2, <2>3, <2>4 DEF ProcessInv, TypeOK, MountOK, SocketOK, ServeOK, CleanReturn
  <1> QED
    BY <1>1, <1>2, <1>3 DEF EndStep

\* The proxy's requests.
LEMMA CallKeeps ==
  ASSUME ProcessInv, NEW k \in Calls, CallStepOf(k)
  PROVE  ProcessInv'
  <1>1. UNCHANGED <<initVars, procVars, sockVars, faults>>
    BY Zenon DEF CallStepOf, Dial, DialFails, Accept, Respond, CallStep
  <1>2. call' \in [Calls -> {"none", "queued", "active"}] /\ answer' \in [Calls -> {None, 200, 500}]
    BY DEF ProcessInv, TypeOK, CallStepOf, Dial, DialFails, Accept, Respond
  <1> QED
    BY <1>1, <1>2 DEF ProcessInv, TypeOK, MountOK, SocketOK, ServeOK, CleanReturn, Off,
                      initVars, procVars, sockVars

LEMMA InvKept == ProcessInv /\ [Next]_vars => ProcessInv'
  <1>1. CASE UNCHANGED vars
    BY <1>1 DEF vars, initVars, procVars, sockVars, callVars,
                ProcessInv, TypeOK, MountOK, SocketOK, ServeOK, CleanReturn, Off
  <1>2. ASSUME ProcessInv, Next
        PROVE  ProcessInv'
    BY <1>2, NextGroups, MountKeeps, SetupKeeps, ComponentKeeps, ServeKeeps, EndKeeps, CallKeeps
  <1> QED
    BY <1>1, <1>2

(***************************************************************************)
(* The theorems.                                                           *)
(***************************************************************************)
\* ProcessInv holds always.
LEMMA InvAlways == Spec => []ProcessInv
  BY InitInv, InvKept, PTL DEF Spec

\* The variables of the agent's process keep their kinds, and nothing is at
\* work before runAgent() has started it.
THEOREM ProcessTypeCorrect == Spec => []TypeOK
  <1>1. ProcessInv => TypeOK
    BY DEF ProcessInv
  <1> QED
    BY <1>1, InvAlways, PTL

\* What the comment of runAgent() promises: whenever it has returned, with or
\* without an error, every component is done and the socket is gone.
THEOREM ReturnIsClean == Spec => []CleanReturn
  <1>1. ProcessInv => CleanReturn
    BY DEF ProcessInv
  <1> QED
    BY <1>1, InvAlways, PTL

\* While agentMetricsServer.run() serves, the path of the socket leads to it,
\* however many processes died before with their sockets left behind.
THEOREM ServedSocketIsBound == Spec => []ServingIsReachable
  <1>1. ProcessInv => ServingIsReachable
    BY DEF ProcessInv, SocketOK, ServeOK, ServingIsReachable
  <1> QED
    BY <1>1, InvAlways, PTL

\* The agent's main() runs only where handleMountBPFFS() has found or made a
\* mounted bpffs, whoever else mounts there.
THEOREM RunsOnMountedBpffs == Spec => []MountedWhenRunning
  <1>1. ProcessInv => MountedWhenRunning
    BY DEF ProcessInv, MountOK, MountedWhenRunning
  <1> QED
    BY <1>1, InvAlways, PTL

\* handleMountBPFFS() never takes a lost race for a failure.
THEOREM RaceIsNoFailure == Spec => LostRaceIsNoFailure
  <1>1. ProcessInv /\ [Next]_vars =>
          [initPc # "failed" /\ initPc' = "failed" => bpffs = 0 \/ faults' > faults]_vars
    <2> SUFFICES ASSUME ProcessInv, Next, initPc # "failed", initPc' = "failed"
                 PROVE  bpffs = 0 \/ faults' > faults
      BY DEF vars
    <2>1. initPc' # initPc
      OBVIOUS
    <2>2. MountStep
      <3>1. CASE StartAgent \/ main \/ StartComponents
        BY <3>1, <2>1 DEF StartAgent, main, StartComponents, SetUp, newAgentMetricsServer, RemoveSocket, Listen,
             Chmod, ListenFails, ChmodFails, SetupSignalHandler, SetupFails, SetupStep, SetupExit, Exit, initVars
      <3>2. CASE ComponentStep
        BY <3>2, <2>1 DEF ComponentStep, managerStops, managerFails, discoveryStops, discoveryFails,
             agentMetricsServerRun, Shutdown, ShutdownDone, ShutdownTimesOut, ServeError, Returns, initVars
      <3>3. CASE ServeStarts \/ ServeFails \/ EndStep
        BY <3>3, <2>1 DEF ServeStarts, ServeFails, EndStep, Wait, Terminate, Kill, ReplacePod, Exit, initVars
      <3>4. ASSUME NEW k \in Calls, CallStepOf(k)
            PROVE  FALSE
        BY <3>4, <2>1 DEF CallStepOf, Dial, DialFails, Accept, Respond, CallStep, initVars
      <3> QED
        BY NextGroups, <3>1, <3>2, <3>3, <3>4
    <2> QED
      BY <2>2 DEF ProcessInv, TypeOK, MountStep, handleMountBPFFS, IsMounted, IsMountedFails, Unmount,
           UnmountFails, Mount, MountFails, Recheck, RestartInit, OtherMounts, Fault
  <1> QED
    BY <1>1, InvAlways, PTL DEF Spec, LostRaceIsNoFailure

=============================================================================

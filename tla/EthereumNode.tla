---------------------------- MODULE EthereumNode ----------------------------
(***************************************************************************)
(* The life of one node's containers (container/ethereum.go): Init runs    *)
(* "geth init" in a container of its own, Start and Stop run the node.     *)
(*                                                                         *)
(* The harness calls one after the other.  Each call to the Docker daemon  *)
(* is a step, and between two steps the process in a container may end or  *)
(* begin to answer.  Containers are numbered as they are created; 0 stands *)
(* for the empty container ID.  The node has a key and a fixed address.    *)
(* Left out: images, flags, ports, mounts and logs.                        *)
(***************************************************************************)
EXTENDS Integers, Sequences, FiniteSets

CONSTANTS
  RetryCount,    \* healthCheckRetryCount (60)
  MaxCalls,      \* bound: calls of Init, Start and Stop
  MaxFaults      \* bound: failures of the daemon and of geth init

ASSUME BoundsAssumption == RetryCount \in Nat \ {0} /\ MaxCalls \in Nat /\ MaxFaults \in Nat

VARIABLES
  containers,  \* the state of every container created so far
  containerID, \* ethereum.containerID
  ok,          \* ethereum.ok
  node,        \* whether ethereum.node, the node's address, is set
  genesis,     \* whether the data directory has a genesis block
  serving,     \* whether the node answers RPC
  pc,          \* where the caller is, "idle" between calls
  call,        \* the call made last
  result,      \* what it returned
  id,          \* Init: its container
  tries,       \* Start: health checks made
  answered,    \* history: whether the node answered one of them
  calls, faults,
  failed       \* history: failures of the daemon in the last call

ethVars == <<containerID, ok, node>>
world == <<containers, genesis, serving>>
locals == <<id, tries, answered>>
vars == <<ethVars, world, pc, call, result, locals, calls, faults, failed>>

Existing == {"created", "running", "exited", "crashed"}

Is(c, state) == c \in DOMAIN containers /\ containers[c] = state
Exists(c) == c \in DOMAIN containers /\ containers[c] \in Existing

Init ==
  /\ containers = <<>> /\ containerID = 0
  /\ ok = FALSE /\ node = FALSE
  /\ genesis = FALSE /\ serving = FALSE
  /\ pc = "idle" /\ call = "NewEthereum" /\ result = "nil"
  /\ id = 0 /\ tries = 0 /\ answered = FALSE
  /\ calls = 0 /\ faults = 0 /\ failed = 0

Invoke(name, place) ==
  /\ pc = "idle" /\ calls < MaxCalls
  /\ calls' = calls + 1
  /\ call' = name /\ pc' = place /\ result' = "busy" /\ failed' = 0
  /\ id' = 0 /\ tries' = 0 /\ answered' = FALSE
  /\ UNCHANGED <<ethVars, world, faults>>

At(place) == pc = place /\ UNCHANGED <<call, calls>>

Goto(place) == pc' = place /\ UNCHANGED result

Return(value) == pc' = "idle" /\ result' = value

Fault == faults < MaxFaults /\ faults' = faults + 1 /\ failed' = failed + 1
NoFault == UNCHANGED <<faults, failed>>

-----------------------------------------------------------------------------
(* Init: SaveNodeKey, then a container that runs geth init                 *)

InitNode == call = "NewEthereum" /\ Invoke("Init", "initCreate")

InitCreate ==
  /\ At("initCreate")
  /\ \/ /\ containers' = Append(containers, "created")
        /\ id' = Len(containers') /\ Goto("initStart") /\ NoFault
     \/ Fault /\ Return("error") /\ UNCHANGED <<containers, id>>
  /\ UNCHANGED <<ethVars, genesis, serving, tries, answered>>

\* An error of ContainerStart is logged, and Init goes on.
InitStart ==
  /\ At("initStart") /\ Goto("initWait")
  /\ \/ containers' = [containers EXCEPT ![id] = "running"] /\ NoFault
     \/ Fault /\ UNCHANGED containers
  /\ UNCHANGED <<ethVars, genesis, serving, locals>>

\* The status of a container that does not run.  One that never ran has 0.
StatusIgnored(c) == 0  \* mutant: the status is not looked at
StatusCode(c) == IF containers[c] = "crashed" THEN 1 ELSE 0

InitWait ==
  /\ At("initWait") /\ ~ Is(id, "running")
  /\ IF StatusCode(id) # 0 THEN Return("error") ELSE Goto("initRemove")
  /\ NoFault /\ UNCHANGED <<ethVars, world, locals>>

\* The request fails, or geth init takes longer than the 15 seconds: the error
\* goes to a channel that Init has dropped, and the other never has a value.
InitWaitFails ==
  /\ At("initWait") /\ Goto("hung") /\ Fault
  /\ UNCHANGED <<ethVars, world, locals>>

\* Kill has nothing to do, for nothing runs.  Errors are only logged.
InitNoRemove ==  \* mutant: the container is kept
  /\ At("initRemove") /\ Return("nil")
  /\ NoFault /\ UNCHANGED <<ethVars, world, locals>>
InitRemove ==
  /\ At("initRemove") /\ Return("nil")
  /\ \/ containers' = [containers EXCEPT ![id] = "removed"] /\ NoFault
     \/ Fault /\ UNCHANGED containers
  /\ UNCHANGED <<ethVars, genesis, serving, locals>>

\* geth init writes the genesis block and exits, or fails.
GethInitExits ==
  /\ Is(id, "running")
  /\ \/ /\ containers' = [containers EXCEPT ![id] = "exited"]
        /\ genesis' = TRUE /\ UNCHANGED faults
     \/ /\ containers' = [containers EXCEPT ![id] = "crashed"]
        /\ faults < MaxFaults /\ faults' = faults + 1 /\ UNCHANGED genesis
  /\ UNCHANGED <<ethVars, serving, pc, call, result, locals, calls, failed>>

-----------------------------------------------------------------------------
(* Start                                                                   *)

\* A node whose Init failed is never used.  After a Start, whichever way it
\* ended, the harness stops the node before it starts it again.
Start ==
  /\ call \in {"NewEthereum", "Init", "Stop"}
  /\ call = "Init" => result = "nil"
  /\ Invoke("Start", "create")

Create ==
  /\ At("create")
  /\ \/ /\ containers' = Append(containers, "created")
        /\ containerID' = Len(containers')
        /\ Goto("start") /\ NoFault
     \/ Fault /\ Return("error") /\ UNCHANGED <<containers, containerID>>
  /\ UNCHANGED <<ok, node, genesis, serving, locals>>

StartContainer ==
  /\ At("start")
  /\ \/ containers' = [containers EXCEPT ![containerID] = "running"]
        /\ Goto("health") /\ NoFault
     \/ Fault /\ Return("error") /\ UNCHANGED containers
  /\ UNCHANGED <<ethVars, genesis, serving, locals>>

\* One health check: a client that gets block 0, or a wait before the next.
HealthCheckForEver ==  \* mutant: failed checks are not counted
  /\ At("health") /\ tries < RetryCount
  /\ \/ serving /\ ok' = TRUE /\ answered' = TRUE /\ Goto("check") /\ UNCHANGED tries
     \/ Goto("health") /\ UNCHANGED <<ok, tries, answered>>
  /\ NoFault /\ UNCHANGED <<containerID, node, world, id>>
HealthCheckUnbounded ==  \* mutant: one check too many
  /\ At("health")
  /\ \/ serving /\ ok' = TRUE /\ answered' = TRUE /\ Goto("check") /\ UNCHANGED tries
     \/ /\ tries' = tries + 1
        /\ Goto(IF tries < RetryCount THEN "health" ELSE "check")
        /\ UNCHANGED <<ok, answered>>
  /\ NoFault /\ UNCHANGED <<containerID, node, world, id>>
HealthCheck ==
  /\ At("health") /\ tries < RetryCount
  /\ \/ serving /\ ok' = TRUE /\ answered' = TRUE /\ Goto("check") /\ UNCHANGED tries
     \/ /\ tries' = tries + 1
        /\ Goto(IF tries' < RetryCount THEN "health" ELSE "check")
        /\ UNCHANGED <<ok, answered>>
  /\ NoFault /\ UNCHANGED <<containerID, node, world, id>>

Check ==
  /\ At("check")
  /\ IF ok THEN Return("nil") /\ node' = TRUE
           ELSE Return("error") /\ UNCHANGED node
  /\ NoFault /\ UNCHANGED <<containerID, ok, world, locals>>

\* The process of the node begins to answer, or ends.
Serve ==
  /\ Is(containerID, "running") /\ ~ serving
  /\ serving' = TRUE
  /\ UNCHANGED <<ethVars, containers, genesis, pc, call, result, locals, calls, faults, failed>>

Crash ==
  /\ Is(containerID, "running")
  /\ containers' = [containers EXCEPT ![containerID] = "crashed"]
  /\ serving' = FALSE
  /\ UNCHANGED <<ethVars, genesis, pc, call, result, locals, calls, faults, failed>>

-----------------------------------------------------------------------------
(* Stop                                                                    *)

\* The tests call Stop again and again, until it returns an error.
Stop == call \in {"Start", "Stop"} /\ Invoke("Stop", "stop")

\* Where Stop goes when ContainerStop has failed: the error is only logged.
ReturnStopError == Return("error")  \* mutant: the line that returned it is back
AfterStopError == Goto("remove")

StopContainer ==
  /\ At("stop")
  /\ \/ /\ Exists(containerID)
        /\ containers' = [containers EXCEPT ![containerID] = IF @ = "running" THEN "exited" ELSE @]
        /\ serving' = FALSE
        /\ Goto("remove") /\ NoFault
     \/ Exists(containerID) /\ Fault /\ AfterStopError /\ UNCHANGED <<containers, serving>>
     \/ ~ Exists(containerID) /\ AfterStopError /\ NoFault /\ UNCHANGED <<containers, serving>>
  /\ UNCHANGED <<ethVars, genesis, locals>>

RemoveContainer ==
  /\ At("remove")
  /\ \/ /\ Exists(containerID)
        /\ containers' = [containers EXCEPT ![containerID] = "removed"]
        /\ serving' = FALSE
        /\ Return("nil") /\ NoFault
     \/ Exists(containerID) /\ Fault /\ Return("error") /\ UNCHANGED <<containers, serving>>
     \/ ~ Exists(containerID) /\ Return("error") /\ NoFault /\ UNCHANGED <<containers, serving>>
  /\ UNCHANGED <<ethVars, genesis, locals>>

-----------------------------------------------------------------------------
Step ==
  \/ InitCreate \/ InitStart \/ InitWait \/ InitRemove
  \/ Create \/ StartContainer \/ HealthCheck \/ Check
  \/ StopContainer \/ RemoveContainer

Next == \/ InitNode \/ Start \/ Stop \/ Step
        \/ InitWaitFails \/ GethInitExits \/ Serve \/ Crash

\* The caller runs on, and geth init ends at some time.
Fairness == WF_vars(Step) /\ WF_vars(GethInitExits)

Spec == Init /\ [][Next]_vars /\ Fairness

-----------------------------------------------------------------------------
(* Properties                                                              *)

FlagsOK ==
  /\ ok \in BOOLEAN /\ node \in BOOLEAN /\ genesis \in BOOLEAN
  /\ serving \in BOOLEAN /\ answered \in BOOLEAN

\* Type invariant of the node, its containers and the caller.
TypeOK ==
  /\ FlagsOK
  /\ containers \in Seq(Existing \cup {"removed"})
  /\ containerID \in 0 .. Len(containers) /\ id \in 0 .. Len(containers)
  /\ pc \in {"idle", "initCreate", "initStart", "initWait", "initRemove", "hung",
             "create", "start", "health", "check", "stop", "remove"}
  /\ call \in {"NewEthereum", "Init", "Start", "Stop"}
  /\ result \in {"busy", "nil", "error"}
  /\ tries \in 0 .. RetryCount
  /\ calls \in 0 .. MaxCalls /\ faults \in 0 .. MaxFaults /\ failed \in 0 .. faults

\* An Init that returned nil without a failure of the daemon has made a
\* genesis block: the status of its container is what decides.
InitLeavesGenesis ==
  call = "Init" /\ result = "nil" => genesis \/ failed > 0

\* Every container that is neither the node's nor that of an Init under way
\* is the trace of a failure: nothing is left over by calls that went well.
StraysAreFailures ==
  pc = "idle" =>
    Cardinality({c \in DOMAIN containers : Exists(c) /\ c # containerID}) <= faults

\* Stop needs one call of the daemon to succeed, not both: after at most one
\* failure the node's process does not run.
OneFailureStillStops ==
  call = "Stop" /\ pc = "idle" /\ failed <= 1 => ~ Is(containerID, "running")

\* Every call returns, or it is an Init whose wait for geth init has failed.
CallsReturn == pc # "idle" ~> pc \in {"idle", "hung"}

\* Init bounds its wait by 15 seconds and returns.
InitReturns == call = "Init" ~> pc = "idle"

\* A Start that returns nil has seen the node answer: it fails to start the
\* node when all health checks fail.
StartMeansServing == call = "Start" /\ result = "nil" => answered

=============================================================================

---------------------------- MODULE VaultNetwork ----------------------------
(***************************************************************************)
(* The vaults of a Smilo chain: vaultNetwork in container/blockchain.go    *)
(* and vault in container/vault.go.  NewVaultNetwork generates the keys of *)
(* every vault in a container of its own; Start and Stop run the vaults    *)
(* one after the other; Finalize removes their directories.                *)
(*                                                                         *)
(* Key generation goes call by call of the Docker daemon, between which    *)
(* its process ends; the loops of Start and Stop take a step per vault.    *)
(***************************************************************************)
EXTENDS Integers, Sequences, FiniteSets

CONSTANTS
  VaultSizes,  \* numbers of vaults a network is made of
  MaxFaults    \* bound: failures of the daemon, the disk and the processes

ASSUME VaultAssumption == VaultSizes \subseteq Nat \ {0} /\ MaxFaults \in Nat

VARIABLES
  vaults,   \* vaultNetwork.vaults: container state and keys of each
  dirs,     \* vaults whose local working directory exists, by number
  box,      \* the container that generates the keys of the next vault
  boxKeys,  \* whether it has written them
  vpc,      \* where the caller is, "idle" between calls
  vcall, vresult,
  wanted,   \* number of vaults asked for
  vi,       \* loop index of Start and Stop
  faults

netVars == <<vaults, dirs, box, boxKeys>>
vaultVars == <<netVars, vpc, vcall, vresult, wanted, vi>>

\* A container that was created, or stopped and not removed, is "stopped".
Containers == {"none", "running", "stopped", "gone"}

VaultInit ==
  /\ vaults = <<>> /\ dirs = {} /\ box = "none" /\ boxKeys = FALSE
  /\ vpc = "idle" /\ vcall = "none" /\ vresult = "nil" /\ wanted = 0 /\ vi = 0
  /\ faults = 0

Fault == faults < MaxFaults /\ faults' = faults + 1
NoFault == UNCHANGED faults

VAt(place) == vpc = place /\ UNCHANGED <<vcall, wanted>>
VGoto(place) == vpc' = place /\ UNCHANGED vresult
VReturn(value) == vpc' = "idle" /\ vresult' = value

VInvoke(name, place) ==
  /\ vpc = "idle"
  /\ vcall' = name /\ vresult' = "busy" /\ vpc' = place /\ vi' = 1

-----------------------------------------------------------------------------
(* NewVaultNetwork                                                         *)

NewVaultNetwork(n) ==
  /\ vcall = "none" /\ VInvoke("NewVaultNetwork", "hosts") /\ wanted' = n
  /\ NoFault /\ UNCHANGED netVars

\* getFreeHosts drops the error of GetFreeIPAddrs, and indexing panics then.
\* The Docker client may fail before.
GetFreeHosts ==
  /\ VAt("hosts")
  /\ \/ VGoto("vault") /\ NoFault
     \/ Fault /\ \E r \in {"panic", "error"} : VReturn(r)
  /\ UNCHANGED <<netVars, vi>>

NumberAfter == Len(vaults) + 2  \* mutant: off by one
Number == Len(vaults) + 1  \* the number of the vault being made

\* NewVault, nil when the image cannot be pulled; then the random directory,
\* the keys directory in it and the configuration file.
Prepare ==
  /\ VAt("vault") /\ Len(vaults) < wanted
  /\ \/ VGoto("create") /\ NoFault /\ dirs' = dirs \cup {Number}
     \/ Fault /\ VReturn("panic") /\ UNCHANGED dirs
     \/ Fault /\ VReturn("error") /\ dirs' \in {dirs, dirs \cup {Number}}
  /\ box' = "none" /\ boxKeys' = FALSE
  /\ UNCHANGED <<vaults, vi>>

SetupDone ==
  /\ VAt("vault") /\ Len(vaults) = wanted
  /\ VReturn("nil") /\ NoFault /\ UNCHANGED <<netVars, vi>>

CreateBox ==
  /\ VAt("create")
  /\ \/ box' = "created" /\ VGoto("start") /\ NoFault
     \/ Fault /\ VReturn("error") /\ UNCHANGED box
  /\ UNCHANGED <<vaults, dirs, boxKeys, vi>>

StartBox ==
  /\ VAt("start")
  /\ \/ box' = "running" /\ VGoto("attach") /\ NoFault
     \/ Fault /\ VReturn("error") /\ UNCHANGED box
  /\ UNCHANGED <<vaults, dirs, boxKeys, vi>>

AttachBox ==
  /\ VAt("attach")
  /\ \/ VGoto("wait") /\ NoFault
     \/ Fault /\ VReturn("error")
  /\ UNCHANGED <<vaults, dirs, box, boxKeys, vi>>

\* The process of the container writes the keys and ends, or ends badly.
KeygenExits ==
  /\ box = "running"
  /\ \/ box' = "exited" /\ boxKeys' = TRUE /\ NoFault
     \/ box' = "crashed" /\ Fault /\ UNCHANGED boxKeys
  /\ UNCHANGED <<vaults, dirs, vpc, vcall, vresult, wanted, vi>>

StatusIgnored == 0  \* mutant: the status is not looked at
StatusCode == IF box = "crashed" THEN 1 ELSE 0

WaitRemoved == box = "none"  \* mutant: WaitConditionRemoved
WaitEnds == box # "running"

WaitBox ==
  /\ VAt("wait") /\ WaitEnds
  /\ IF StatusCode = 0 THEN VGoto("kill") ELSE VReturn("error")
  /\ NoFault /\ UNCHANGED <<vaults, dirs, box, boxKeys, vi>>

\* The 15 seconds are over, or the connection fails: the error goes to the
\* channel that the code drops, and the other one stays empty.
WaitBoxFails ==
  /\ VAt("wait") /\ Fault /\ VGoto("hung")
  /\ UNCHANGED <<vaults, dirs, box, boxKeys, vi>>

\* Killing must fail: it means that the container has finished.
KillBox ==
  /\ VAt("kill")
  /\ IF box = "running" THEN VReturn("error") ELSE VGoto("remove")
  /\ NoFault /\ UNCHANGED <<netVars, vi>>

\* That the container cannot be removed is only logged.
RemoveBox ==
  /\ VAt("remove") /\ VGoto("vault") /\ NoFault
  /\ vaults' = Append(vaults, [keys |-> boxKeys, container |-> "none"])
  /\ box' = "none" /\ boxKeys' = FALSE
  /\ UNCHANGED <<dirs, vi>>

-----------------------------------------------------------------------------
(* Start, Stop and Finalize of the network                                 *)

StartVaults ==
  /\ vcall = "NewVaultNetwork" /\ vresult = "nil" /\ VInvoke("Start", "starting")
  /\ NoFault /\ UNCHANGED <<netVars, wanted>>

Become(i, state) == vaults' = [vaults EXCEPT ![i].container = state]

\* The next iteration of a loop over the vaults, or its end.
NextVault == IF vi < Len(vaults) THEN VGoto(vpc) /\ vi' = vi + 1
                                 ELSE VReturn("nil") /\ UNCHANGED vi

\* The first vault that fails ends the loop.
EndLoop == VReturn("error") /\ UNCHANGED vi

StartVault ==
  /\ VAt("starting")
  /\ \/ Become(vi, "running") /\ NextVault /\ NoFault
     \/ EndLoop /\ Fault /\ (UNCHANGED vaults \/ Become(vi, "stopped"))
  /\ UNCHANGED <<dirs, box, boxKeys>>

\* The tests also stop vaults whose start failed.
StopVaults ==
  /\ vcall = "Start" /\ VInvoke("Stop", "stopping")
  /\ NoFault /\ UNCHANGED <<netVars, wanted>>

\* The directory goes when the container has been stopped, whether or not it
\* can be removed then.
DirsAfter(stopped) == IF stopped THEN dirs \ {vi} ELSE dirs

StopIgnoresErrors == NextVault  \* mutant: errors are only logged
StopFails == EndLoop

StopVault ==
  /\ VAt("stopping")
  /\ \/ vaults[vi].container \in {"running", "stopped"} /\ Become(vi, "gone")
        /\ dirs' = DirsAfter(TRUE) /\ NextVault /\ NoFault
     \/ vaults[vi].container \in {"running", "stopped"} /\ Become(vi, "stopped")
        /\ dirs' = DirsAfter(TRUE) /\ StopFails /\ Fault
     \/ vaults[vi].container \in {"running", "stopped"} /\ UNCHANGED vaults
        /\ dirs' = DirsAfter(FALSE) /\ StopFails /\ Fault
     \/ vaults[vi].container = "none" /\ UNCHANGED vaults  \* never started
        /\ dirs' = DirsAfter(FALSE) /\ StopFails /\ NoFault
  /\ UNCHANGED <<box, boxKeys>>

\* VaultNetwork.Finalize, which returns nothing.
FinalizeVaults ==
  /\ vpc = "idle" /\ vcall = "Stop"
  /\ vcall' = "Finalize" /\ vresult' = "nil"
  /\ dirs' = dirs \ DOMAIN vaults
  /\ NoFault /\ UNCHANGED <<vaults, box, boxKeys, vpc, wanted, vi>>

\* The process of a vault dies.
VaultCrashes ==
  /\ \E i \in DOMAIN vaults : vaults[i].container = "running" /\ Become(i, "stopped")
  /\ Fault
  /\ UNCHANGED <<dirs, box, boxKeys, vpc, vcall, vresult, wanted, vi>>

-----------------------------------------------------------------------------
\* What the calls do once they have been made.  WaitBoxFails is not among
\* them: a process that does not end may be waited for, not counted on.
VaultSteps == \/ GetFreeHosts \/ Prepare \/ SetupDone \/ CreateBox \/ StartBox
              \/ AttachBox \/ WaitBox \/ KillBox \/ RemoveBox
              \/ StartVault \/ StopVault

VaultFairness == WF_vaultVars(VaultSteps) /\ WF_vaultVars(KeygenExits)

VaultTypeOK ==
  /\ vaults \in Seq([keys : BOOLEAN, container : Containers])
  /\ dirs \subseteq 1 .. wanted
  /\ box \in {"none", "created", "running", "exited", "crashed"} /\ boxKeys \in BOOLEAN
  /\ vpc \in {"idle", "hosts", "vault", "create", "start", "attach", "wait", "kill",
              "remove", "hung", "starting", "stopping"}
  /\ vcall \in {"none", "NewVaultNetwork", "Start", "Stop", "Finalize"}
  /\ vresult \in {"nil", "busy", "error", "panic"}
  /\ wanted \in VaultSizes \cup {0} /\ vi \in Nat /\ faults \in 0 .. MaxFaults

-----------------------------------------------------------------------------
(* Properties                                                              *)

\* A vault that NewVaultNetwork hands out has its keys, for no error path of
\* GenerateKey lets one through whose key generation did not end well; and it
\* keeps the directory they are in, which its container mounts, through starts
\* and stops that fail half-way, for as long as it may run.
VaultsKeepKeys ==
  \A i \in DOMAIN vaults :
    /\ vaults[i].keys
    /\ \/ vcall \in {"NewVaultNetwork", "Start"}
       \/ vaults[i].container = "running" /\ vcall # "Finalize"
       => i \in dirs

\* nil from Stop means that every vault is gone and none was passed over.
StopNilMeansGone ==
  vcall = "Stop" /\ vresult = "nil" =>
    \A i \in DOMAIN vaults : vaults[i].container = "gone" /\ i \notin dirs

\* The calls of the vault network return, unless the answer to ContainerWait is
\* an error, for which GenerateKey waits on a channel that stays empty.
VaultCallsReturn == vresult = "busy" ~> vresult # "busy" \/ vpc = "hung"

=============================================================================

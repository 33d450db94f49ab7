--------------------------- MODULE ProvisionProofs ---------------------------
(***************************************************************************)
(* Theorems about the vaults and the nodes of a chain, for any shapes of   *)
(* it, any number of calls and any number of failures.  Vaults have and    *)
(* keep their keys, and Stop returning nil means that they are gone.  The  *)
(* nodes have one genesis, which knows them; each mounts what its flags    *)
(* say; no two share anything; and only failures make a call panic.        *)
(***************************************************************************)
EXTENDS Provision, SequenceTheorems, WellFoundedInduction, TLAPS

Vault == [keys : BOOLEAN, container : Containers]

Making == {"hosts", "vault", "create", "start", "attach", "wait", "kill", "remove", "hung"}

-----------------------------------------------------------------------------
(* The invariant of the vault network                                      *)

\* Which call the caller is in at each place, and that there are vaults to
\* start or to stop.
PhaseInv ==
  /\ vaults \in Seq(Vault)
  /\ vi \in Nat
  /\ vcall \in {"none", "NewVaultNetwork", "Start", "Stop", "Finalize"}
  /\ vcall = "none" => vaults = <<>>
  /\ vpc \in Making \cup {"idle", "starting", "stopping"}
  /\ vpc \in Making => vcall = "NewVaultNetwork" /\ vresult # "nil"
  /\ vpc = "starting" => vcall = "Start" /\ vresult # "nil"
  /\ vpc = "stopping" => vcall = "Stop" /\ vresult # "nil"
  /\ vpc \in {"starting", "stopping"} => vi \in 1 .. Len(vaults)
  /\ vcall = "NewVaultNetwork" => wanted >= 1 /\ wanted \in Nat
  /\ \/ vcall \in {"Start", "Stop"}
     \/ vcall = "NewVaultNetwork" /\ vresult = "nil"
     => Len(vaults) >= 1

\* The container that generates keys: it has ended well, and so has written
\* them, when it is found to have ended.
BoxInv ==
  /\ boxKeys \in BOOLEAN
  /\ box = "exited" => boxKeys
  /\ vpc = "start" => box = "created"
  /\ vpc \in {"attach", "wait"} => box \in {"running", "exited", "crashed"}
  /\ vpc \in {"kill", "remove"} => box = "exited"

\* Before a stop every vault has its directory, the one being made included.
\* A stop removes only those of vaults it has stopped.
DirsInv ==
  /\ vcall \in {"NewVaultNetwork", "Start"} => \A i \in 1 .. Len(vaults) : i \in dirs
  /\ vpc \in Making \ {"hosts", "vault"} => Number \in dirs
  /\ vcall = "Stop" =>
       /\ \A i \in 1 .. Len(vaults) : vaults[i].container = "running" => i \in dirs
       /\ vpc = "stopping" => \A i \in 1 .. Len(vaults) :
                                i < vi => vaults[i].container = "gone" /\ i \notin dirs
       /\ vresult = "nil" => \A i \in 1 .. Len(vaults) :
                               vaults[i].container = "gone" /\ i \notin dirs

KeysInv == \A i \in 1 .. Len(vaults) : vaults[i].keys

\* The shape of the chain is one of Shapes.
ShapeInv == <<normal, faulty>> \in Shapes

VaultInv == PhaseInv /\ BoxInv /\ DirsInv /\ KeysInv /\ ShapeInv

\* It holds at first.
LEMMA VaultInvInit == Init => VaultInv
<1> SUFFICES ASSUME Init PROVE VaultInv
  OBVIOUS
<1>1. /\ vaults = <<>> /\ dirs = {} /\ box = "none" /\ boxKeys = FALSE /\ vpc = "idle"
      /\ vcall = "none" /\ wanted = 0 /\ vi = 0
  BY DEF Init, VaultInit
<1>2. PICK s \in Shapes : normal = s[1] /\ faulty = s[2]
  BY DEF Init, ChainInit
<1>3. s = <<normal, faulty>>
  BY <1>2, ShapesAssumption
<1>4. ShapeInv
  BY <1>2, <1>3 DEF ShapeInv
<1>5. vaults \in Seq(Vault) /\ Len(vaults) = 0
  BY <1>1
<1>6. PhaseInv /\ BoxInv
  BY <1>1, <1>5 DEF PhaseInv, BoxInv, Making
<1>7. DirsInv /\ KeysInv
  BY <1>1, <1>5 DEF DirsInv, KeysInv, Making
<1> QED BY <1>4, <1>6, <1>7 DEF VaultInv

\* A vault that changes keeps its keys, and the others are as before.
LEMMA BecomeEffect ==
  ASSUME VaultInv, NEW i \in 1 .. Len(vaults), NEW state \in Containers, Become(i, state)
  PROVE  /\ vaults' \in Seq(Vault) /\ Len(vaults') = Len(vaults) /\ KeysInv'
         /\ \A j \in 1 .. Len(vaults) :
              vaults'[j].container = IF j = i THEN state ELSE vaults[j].container
<1>1. vaults \in Seq(Vault) /\ Len(vaults) \in Nat /\ vaults \in [1 .. Len(vaults) -> Vault]
  BY LenProperties DEF VaultInv, PhaseInv
<1>2. vaults' = [vaults EXCEPT ![i].container = state]
  BY DEF Become
<1>3. vaults' \in [1 .. Len(vaults) -> Vault]
  BY <1>1, <1>2 DEF Vault
<1>4. vaults' \in Seq(Vault) /\ Len(vaults') = Len(vaults)
  BY <1>1, <1>3, SeqDef, LenProperties
<1>5. \A j \in 1 .. Len(vaults) :
        /\ vaults'[j].container = IF j = i THEN state ELSE vaults[j].container
        /\ vaults'[j].keys = vaults[j].keys
  BY <1>1, <1>2 DEF Vault
<1> QED BY <1>4, <1>5 DEF VaultInv, KeysInv

\* The step of a call that makes, starts or stops vaults.
LEMMA VaultInvSteps ==
  ASSUME VaultInv, VaultSteps, UNCHANGED <<normal, faulty>>
  PROVE  VaultInv'
<1>t. /\ vaults \in Seq(Vault) /\ Len(vaults) \in Nat /\ ShapeInv'
      /\ PhaseInv /\ BoxInv /\ DirsInv /\ KeysInv
  BY DEF VaultInv, PhaseInv, ShapeInv
<1> USE DEF VAt, VGoto, VReturn
<1>1. ASSUME UNCHANGED <<vaults, vi, wanted, vcall>>, vpc' \in Making \cup {"idle"}, vpc \in Making,
             dirs \subseteq dirs', BoxInv', vpc' \in Making \ {"hosts", "vault"} => Number \in dirs',
             vpc' \in Making => vresult' # "nil",
             vresult' = "nil" => Len(vaults) >= 1
      PROVE  VaultInv'
  <2>1. PhaseInv'
    BY <1>t, <1>1 DEF PhaseInv, Making
  <2>2. DirsInv'
    BY <1>t, <1>1 DEF DirsInv, PhaseInv, Number
  <2>3. KeysInv'
    BY <1>t, <1>1 DEF KeysInv
  <2> QED BY <1>t, <1>1, <2>1, <2>2, <2>3 DEF VaultInv
<1>2. CASE GetFreeHosts
  <2>1. /\ UNCHANGED <<vaults, vi, wanted, vcall, dirs, box, boxKeys>> /\ vpc = "hosts"
        /\ \/ vpc' = "vault" /\ UNCHANGED vresult
           \/ vpc' = "idle" /\ vresult' \in {"panic", "error"}
    BY <1>2 DEF GetFreeHosts, netVars
  <2>2. BoxInv'
    BY <1>t, <2>1 DEF BoxInv
  <2> QED BY <1>1, <1>t, <2>1, <2>2 DEF Making, PhaseInv
<1>3. CASE Prepare
  <2>1. /\ UNCHANGED <<vaults, vi, wanted, vcall>> /\ vpc = "vault" /\ box' = "none" /\ boxKeys' = FALSE
        /\ dirs' \in {dirs, dirs \cup {Number}}
        /\ \/ vpc' = "create" /\ UNCHANGED vresult /\ Number \in dirs'
           \/ vpc' = "idle" /\ vresult' \in {"panic", "error"}
    BY <1>3 DEF Prepare
  <2>2. BoxInv'
    BY <2>1 DEF BoxInv
  <2> QED BY <1>1, <1>t, <2>1, <2>2 DEF Making, PhaseInv
<1>4. CASE SetupDone
  <2>1. /\ UNCHANGED <<vaults, vi, wanted, vcall, dirs, box, boxKeys>> /\ vpc = "vault"
        /\ Len(vaults) = wanted /\ vpc' = "idle"
    BY <1>4 DEF SetupDone, netVars
  <2>2. BoxInv'
    BY <1>t, <2>1 DEF BoxInv
  <2>3. Len(vaults) >= 1
    BY <1>t, <2>1 DEF PhaseInv, Making
  <2> QED BY <1>1, <2>1, <2>2, <2>3 DEF Making
<1>5. CASE CreateBox \/ StartBox \/ AttachBox \/ WaitBox \/ KillBox
  <2>1. /\ UNCHANGED <<vaults, vi, wanted, vcall, dirs, boxKeys>>
        /\ vpc \in Making \ {"hosts", "vault"}
        /\ \/ vpc' \in Making \ {"hosts", "vault"} /\ UNCHANGED vresult
           \/ vpc' = "idle" /\ vresult' = "error"
    BY <1>5 DEF CreateBox, StartBox, AttachBox, WaitBox, KillBox, netVars, Making
  <2>2. BoxInv'
    BY <1>5, <1>t DEF CreateBox, StartBox, AttachBox, WaitBox, KillBox, netVars, BoxInv,
       WaitEnds, StatusCode
  <2>3. Number \in dirs
    BY <1>t, <2>1 DEF DirsInv
  <2> QED BY <1>1, <1>t, <2>1, <2>2, <2>3 DEF Making, PhaseInv
<1>6. CASE RemoveBox
  <2>1. /\ vpc = "remove" /\ vpc' = "vault" /\ UNCHANGED <<vresult, vcall, wanted, dirs, vi>>
        /\ vaults' = Append(vaults, [keys |-> boxKeys, container |-> "none"])
        /\ box' = "none" /\ boxKeys' = FALSE
    BY <1>6 DEF RemoveBox
  <2>2. boxKeys = TRUE /\ vcall = "NewVaultNetwork" /\ vresult # "nil" /\ Len(vaults) + 1 \in dirs
    BY <1>t, <2>1 DEF BoxInv, PhaseInv, DirsInv, Number, Making
  <2>3. [keys |-> boxKeys, container |-> "none"] \in Vault
    BY <2>2 DEF Vault, Containers
  <2>4. /\ vaults' \in Seq(Vault) /\ Len(vaults') = Len(vaults) + 1
        /\ vaults'[Len(vaults) + 1] = [keys |-> boxKeys, container |-> "none"]
        /\ \A i \in 1 .. Len(vaults) : vaults'[i] = vaults[i]
    BY <1>t, <2>1, <2>3
  <2>5. \A i \in 1 .. Len(vaults') : i \in 1 .. Len(vaults) \/ i = Len(vaults) + 1
    BY <1>t, <2>4
  <2>6. KeysInv'
    BY <1>t, <2>2, <2>4, <2>5 DEF KeysInv
  <2>7. DirsInv'
    BY <1>t, <2>1, <2>2, <2>5 DEF DirsInv
  <2>8. PhaseInv' /\ BoxInv'
    BY <1>t, <2>1, <2>2, <2>4 DEF PhaseInv, BoxInv, Making
  <2> QED BY <1>t, <2>6, <2>7, <2>8 DEF VaultInv
<1>7. CASE StartVault
  <2>1. /\ vpc = "starting" /\ vcall = "Start" /\ vi \in 1 .. Len(vaults)
        /\ UNCHANGED <<vcall, wanted, dirs, box, boxKeys>>
    BY <1>7, <1>t DEF StartVault, PhaseInv
  <2>2. UNCHANGED vaults \/ \E state \in Containers : Become(vi, state)
    BY <1>7 DEF StartVault, Containers
  <2>3. vaults' \in Seq(Vault) /\ Len(vaults') = Len(vaults) /\ KeysInv'
    BY <1>t, <2>1, <2>2, BecomeEffect DEF KeysInv
  <2>4. \/ vpc' = "starting" /\ UNCHANGED vresult /\ vi' \in 1 .. Len(vaults)
        \/ vpc' = "idle" /\ UNCHANGED vi
    BY <1>7, <1>t, <2>1 DEF StartVault, NextVault, EndLoop
  <2>5. PhaseInv'
    BY <1>t, <2>1, <2>3, <2>4 DEF PhaseInv, Making
  <2>6. DirsInv' /\ BoxInv'
    BY <1>t, <2>1, <2>3, <2>4 DEF DirsInv, BoxInv, Making
  <2> QED BY <1>t, <2>3, <2>5, <2>6 DEF VaultInv
<1>8. CASE StopVault
  <2>1. /\ vpc = "stopping" /\ vcall = "Stop" /\ vi \in 1 .. Len(vaults) /\ vresult # "nil"
        /\ UNCHANGED <<vcall, wanted, box, boxKeys>>
    BY <1>8, <1>t DEF StopVault, PhaseInv
  <2>2. \/ Become(vi, "gone") /\ dirs' = dirs \ {vi} /\ NextVault
        \/ Become(vi, "stopped") /\ dirs' = dirs \ {vi} /\ EndLoop
        \/ UNCHANGED <<vaults, dirs>> /\ EndLoop
    BY <1>8 DEF StopVault, DirsAfter, StopFails
  <2>3. /\ vaults' \in Seq(Vault) /\ Len(vaults') = Len(vaults) /\ KeysInv'
    BY <1>t, <2>1, <2>2, BecomeEffect DEF KeysInv, Containers
  <2>4. \/ vpc' = "stopping" /\ UNCHANGED vresult /\ vi' = vi + 1 /\ vi < Len(vaults)
        \/ vpc' = "idle" /\ UNCHANGED vi
    BY <2>1, <2>2 DEF NextVault, EndLoop
  <2>5. PhaseInv'
    BY <1>t, <2>1, <2>3, <2>4 DEF PhaseInv, Making
  <2>6. ASSUME \A j \in 1 .. Len(vaults) : vaults'[j].container = "running" => j \in dirs',
                vpc' = "stopping" => \A j \in 1 .. Len(vaults) :
                                       j < vi' => vaults'[j].container = "gone" /\ j \notin dirs',
                vresult' = "nil" => \A j \in 1 .. Len(vaults) :
                                      vaults'[j].container = "gone" /\ j \notin dirs'
         PROVE  VaultInv'
    <3>1. DirsInv'
      BY <2>1, <2>3, <2>4, <2>6 DEF DirsInv, Making
    <3>2. BoxInv'
      BY <1>t, <2>1, <2>4 DEF BoxInv
    <3> QED BY <1>t, <2>3, <2>5, <3>1, <3>2 DEF VaultInv
  <2>7. CASE Become(vi, "gone") /\ dirs' = dirs \ {vi} /\ NextVault
    <3>1. \A j \in 1 .. Len(vaults) :
            vaults'[j].container = IF j = vi THEN "gone" ELSE vaults[j].container
      BY <2>1, <2>7, BecomeEffect DEF Containers
    <3>2. \/ vpc' = "stopping" /\ UNCHANGED vresult /\ vi' = vi + 1
          \/ vpc' = "idle" /\ vi = Len(vaults)
      BY <1>t, <2>1, <2>7 DEF NextVault
    <3>3. \A j \in 1 .. Len(vaults) : j < vi + 1 => vaults'[j].container = "gone" /\ j \notin dirs'
      BY <1>t, <2>1, <2>7, <3>1 DEF DirsInv
    <3>4. vpc' = "idle" => \A j \in 1 .. Len(vaults) : j < vi + 1
      BY <1>t, <3>2
    <3>5. \A j \in 1 .. Len(vaults) : vaults'[j].container = "running" => j \in dirs'
      BY <1>t, <2>1, <2>7, <3>1 DEF DirsInv
    <3>6. /\ vpc' = "stopping" => \A j \in 1 .. Len(vaults) :
                                    j < vi' => vaults'[j].container = "gone" /\ j \notin dirs'
          /\ vresult' = "nil" => \A j \in 1 .. Len(vaults) :
                                   vaults'[j].container = "gone" /\ j \notin dirs'
      BY <2>1, <3>2, <3>3, <3>4
    <3> QED BY <2>6, <3>5, <3>6
  <2>8. CASE Become(vi, "stopped") /\ dirs' = dirs \ {vi} /\ EndLoop
    <3>1. \A j \in 1 .. Len(vaults) :
            vaults'[j].container = IF j = vi THEN "stopped" ELSE vaults[j].container
      BY <2>1, <2>8, BecomeEffect DEF Containers
    <3>2. \A j \in 1 .. Len(vaults) : vaults'[j].container = "running" => j \in dirs'
      BY <1>t, <2>1, <2>8, <3>1 DEF DirsInv
    <3>3. vpc' = "idle" /\ vresult' = "error"
      BY <2>8 DEF EndLoop
    <3> QED BY <2>6, <3>2, <3>3
  <2>9. CASE UNCHANGED <<vaults, dirs>> /\ EndLoop
    <3>1. \A j \in 1 .. Len(vaults) : vaults'[j].container = "running" => j \in dirs'
      BY <1>t, <2>1, <2>9 DEF DirsInv
    <3>2. vpc' = "idle" /\ vresult' = "error"
      BY <2>9 DEF EndLoop
    <3> QED BY <2>6, <3>1, <3>2
  <2> QED BY <2>2, <2>7, <2>8, <2>9
<1> QED
  BY <1>2, <1>3, <1>4, <1>5, <1>6, <1>7, <1>8 DEF VaultSteps

\* The other steps: calls, and what happens to containers of themselves.
LEMMA VaultInvNext == VaultInv /\ [Next]_vars => VaultInv'
<1> SUFFICES ASSUME VaultInv, [Next]_vars PROVE VaultInv'
  OBVIOUS
<1>t. /\ vaults \in Seq(Vault) /\ Len(vaults) \in Nat
      /\ PhaseInv /\ BoxInv /\ DirsInv /\ KeysInv /\ ShapeInv
  BY DEF VaultInv, PhaseInv
<1>s. UNCHANGED <<normal, faulty>> => ShapeInv'
  BY <1>t DEF ShapeInv
<1>1. CASE UNCHANGED vaultVars /\ UNCHANGED <<normal, faulty>>
  BY <1>1, <1>t, <1>s DEF VaultInv, PhaseInv, BoxInv, DirsInv, KeysInv, vaultVars, netVars, Number
<1>2. ASSUME Chain PROVE UNCHANGED <<normal, faulty>>
  BY <1>2 DEF Chain, Construct, Invoke, Finalize, GenerateAccounts, GetIPs, GenerateKeys,
     SetupGenesis, SetupFullnode, PartDone, CreateNode, CreateDone, At, input
<1>3. ASSUME Vaults, UNCHANGED chainVars PROVE VaultInv'
  <2>u. UNCHANGED <<normal, faulty>> /\ ShapeInv'
    BY <1>3, <1>s DEF chainVars, input
  <2>1. CASE NewVaultNetwork(Total)
    <3>1. /\ vcall = "none" /\ vcall' = "NewVaultNetwork" /\ vresult' = "busy" /\ vpc' = "hosts"
          /\ vi' = 1 /\ wanted' = Total /\ UNCHANGED <<vaults, dirs, box, boxKeys>>
      BY <2>1 DEF NewVaultNetwork, VInvoke, netVars
    <3>2. vaults = <<>> /\ Len(vaults) = 0
      BY <1>t, <3>1 DEF PhaseInv
    <3>3. Total \in Nat /\ Total >= 1
      BY <1>t, ShapesAssumption DEF ShapeInv, Total
    <3>4. PhaseInv'
      BY <1>t, <3>1, <3>2, <3>3 DEF PhaseInv, Making
    <3>5. DirsInv' /\ BoxInv' /\ KeysInv'
      BY <1>t, <3>1, <3>2 DEF DirsInv, BoxInv, KeysInv, Making
    <3> QED BY <2>u, <3>4, <3>5 DEF VaultInv
  <2>2. CASE StartVaults
    <3>1. /\ vcall = "NewVaultNetwork" /\ vresult = "nil" /\ vcall' = "Start"
          /\ vresult' = "busy" /\ vpc' = "starting" /\ vi' = 1 
          /\ UNCHANGED <<vaults, dirs, box, boxKeys, wanted>>
      BY <2>2 DEF StartVaults, VInvoke, netVars
    <3>2. Len(vaults) >= 1
      BY <1>t, <3>1 DEF PhaseInv
    <3>3. PhaseInv'
      BY <1>t, <3>1, <3>2 DEF PhaseInv, Making
    <3>4. DirsInv' /\ BoxInv' /\ KeysInv'
      BY <1>t, <3>1 DEF DirsInv, BoxInv, KeysInv, Making
    <3> QED BY <2>u, <3>3, <3>4 DEF VaultInv
  <2>3. CASE StopVaults
    <3>1. /\ vcall = "Start" /\ vcall' = "Stop" /\ vresult' = "busy" /\ vpc' = "stopping" /\ vi' = 1
          /\ UNCHANGED <<vaults, dirs, box, boxKeys, wanted>>
      BY <2>3 DEF StopVaults, VInvoke, netVars
    <3>2. Len(vaults) >= 1
      BY <1>t, <3>1 DEF PhaseInv
    <3>3. PhaseInv'
      BY <1>t, <3>1, <3>2 DEF PhaseInv, Making
    <3>4. DirsInv' /\ BoxInv' /\ KeysInv'
      BY <1>t, <3>1 DEF DirsInv, BoxInv, KeysInv, Making
    <3> QED BY <2>u, <3>3, <3>4 DEF VaultInv
  <2>4. CASE FinalizeVaults
    <3>1. /\ vpc = "idle" /\ vpc' = "idle" /\ vcall' = "Finalize"
          /\ UNCHANGED <<vaults, box, boxKeys, wanted, vi>>
      BY <2>4 DEF FinalizeVaults
    <3>2. PhaseInv'
      BY <1>t, <3>1 DEF PhaseInv, Making
    <3>3. DirsInv' /\ BoxInv' /\ KeysInv'
      BY <1>t, <3>1 DEF DirsInv, BoxInv, KeysInv, Making
    <3> QED BY <2>u, <3>2, <3>3 DEF VaultInv
  <2>5. CASE VaultSteps
    BY <2>5, <2>u, VaultInvSteps
  <2>6. CASE WaitBoxFails \/ KeygenExits
    <3>1. /\ UNCHANGED <<vaults, vi, wanted, vcall, vresult, dirs>>
          /\ \/ UNCHANGED vpc
             \/ vpc = "wait" /\ vpc' = "hung"
      BY <2>6 DEF WaitBoxFails, KeygenExits, VAt, VGoto
    <3>2. BoxInv'
      BY <2>6, <1>t DEF WaitBoxFails, KeygenExits, VAt, VGoto, BoxInv
    <3>3. PhaseInv'
      BY <1>t, <3>1 DEF PhaseInv, Making
    <3>4. DirsInv'
      BY <1>t, <3>1 DEF DirsInv, Making, Number
    <3>5. KeysInv'
      BY <1>t, <3>1 DEF KeysInv
    <3> QED BY <2>u, <3>2, <3>3, <3>4, <3>5 DEF VaultInv
  <2>7. CASE VaultCrashes
    <3>1. /\ UNCHANGED <<dirs, box, boxKeys, vpc, vcall, vresult, wanted, vi>>
          /\ \E i \in DOMAIN vaults : vaults[i].container = "running" /\ Become(i, "stopped")
      BY <2>7 DEF VaultCrashes
    <3>2. PICK i \in 1 .. Len(vaults) : vaults[i].container = "running" /\ Become(i, "stopped")
      BY <1>t, <3>1
    <3>3. /\ vaults' \in Seq(Vault) /\ Len(vaults') = Len(vaults) /\ KeysInv'
          /\ \A j \in 1 .. Len(vaults) :
               vaults'[j].container = IF j = i THEN "stopped" ELSE vaults[j].container
      BY <3>2, BecomeEffect DEF Containers
    <3>4. PhaseInv'
      <4>1. vcall = "none" => FALSE
        BY <1>t, <3>2 DEF PhaseInv
      <4> QED BY <1>t, <3>1, <3>3, <4>1 DEF PhaseInv, Making
    <3>5. \A j \in 1 .. Len(vaults) :
            /\ vaults'[j].container = "running" => vaults[j].container = "running"
            /\ vaults[j].container = "gone" => vaults'[j].container = "gone"
      BY <3>2, <3>3
    <3>6. DirsInv'
      BY <1>t, <3>1, <3>3, <3>5 DEF DirsInv, Making, Number
    <3>7. BoxInv'
      BY <1>t, <3>1 DEF BoxInv
    <3> QED BY <2>u, <3>3, <3>4, <3>6, <3>7 DEF VaultInv
  <2> QED
    BY <1>3, <2>1, <2>2, <2>3, <2>4, <2>5, <2>6, <2>7 DEF Vaults
<1>4. CASE UNCHANGED vars
  BY <1>1, <1>4 DEF vars, chainVars, input
<1> QED
  BY <1>1, <1>2, <1>3, <1>4 DEF Next

-----------------------------------------------------------------------------
\* A vault that NewVaultNetwork hands out has its keys, and it keeps their
\* directory for as long as it may run.
THEOREM KeysKept == Spec => []VaultsKeepKeys
<1>1. VaultInv => VaultsKeepKeys
  <2> SUFFICES ASSUME VaultInv, NEW i \in DOMAIN vaults
               PROVE  /\ vaults[i].keys
                      /\ \/ vcall \in {"NewVaultNetwork", "Start"}
                         \/ vaults[i].container = "running" /\ vcall # "Finalize"
                         => i \in dirs
    BY DEF VaultsKeepKeys
  <2>1. vaults \in Seq(Vault) /\ PhaseInv /\ DirsInv /\ KeysInv
    BY DEF VaultInv, PhaseInv
  <2>2. i \in 1 .. Len(vaults) /\ vcall # "none"
    BY <2>1 DEF PhaseInv
  <2> QED BY <2>1, <2>2 DEF PhaseInv, DirsInv, KeysInv
<1> QED BY <1>1, VaultInvInit, VaultInvNext, PTL DEF Spec

\* nil from Stop means that no vault is left, nor was passed over.
THEOREM StopMeansGone == Spec => []StopNilMeansGone
<1>1. VaultInv => StopNilMeansGone
  BY DEF VaultInv, PhaseInv, DirsInv, StopNilMeansGone
<1> QED BY <1>1, VaultInvInit, VaultInvNext, PTL DEF Spec

-----------------------------------------------------------------------------
(* One genesis                                                             *)

\* How the steps of a call follow each other, and that a chain that has nodes
\* has a genesis, of which it will make no other.  Nodes of CreateNodes are
\* forgotten before a call can make one.
IsSequence(s) == \E S : s \in Seq(S)
Earlier == {"accounts", "ips", "keys", "genesis"}

GenesisInv ==
  /\ {"file", "number"} \subseteq DOMAIN genesis
  /\ IsSequence(fullnodes) /\ IsSequence(created)
  /\ fullnodes # <<>> => genesis.file # NoFile
  /\ ccall = "none" \/ cpc \in Earlier => created = <<>>
  /\ ccall = "none" => cpc = "idle" /\ fullnodes = <<>>
  /\ \A i \in 1 .. Len(fullnodes) : fullnodes[i].genesis.number = genesis.number
  /\ \A i \in 1 .. Len(created) : created[i].genesis.number = genesis.number

\* A list of nodes of one genesis that gets another one.
LEMMA AppendNode ==
  ASSUME NEW s, NEW n, NEW g, IsSequence(s), n.genesis.number = g,
         \A i \in 1 .. Len(s) : s[i].genesis.number = g
  PROVE  /\ IsSequence(Append(s, n))
         /\ \A i \in 1 .. Len(Append(s, n)) : Append(s, n)[i].genesis.number = g
<1>1. PICK S : s \in Seq(S)
  BY DEF IsSequence
<1>2. s \in Seq(S \cup {n}) /\ n \in S \cup {n}
  <2>1. Seq(S) \subseteq Seq(S \cup {n})
    BY <1>1
  <2> QED BY <1>1, <2>1
<1>3. /\ Append(s, n) \in Seq(S \cup {n}) /\ Len(Append(s, n)) = Len(s) + 1
      /\ Len(s) \in Nat
      /\ \A i \in 1 .. Len(s) : Append(s, n)[i] = s[i]
      /\ Append(s, n)[Len(s) + 1] = n
  BY <1>2
<1>4. \A i \in 1 .. Len(Append(s, n)) : i \in 1 .. Len(s) \/ i = Len(s) + 1
  BY <1>3
<1> QED BY <1>3, <1>4 DEF IsSequence

\* Of no nodes, all have any genesis.
LEMMA NoNodes ==
  ASSUME NEW s, s = <<>>
  PROVE  IsSequence(s) /\ \A g : \A i \in 1 .. Len(s) : s[i].genesis.number = g
<1>1. s \in Seq({}) /\ Len(s) = 0
  OBVIOUS
<1>2. IsSequence(s)
  BY <1>1 DEF IsSequence
<1>3. \A i \in 1 .. Len(s) : FALSE
  BY <1>1
<1> QED BY <1>2, <1>3

\* No file has the name that stands for none.
LEMMA FileNames == NoFile \notin {"file", "gone", "relative"}
  BY DEF NoFile

\* Every step keeps it.
LEMMA GenesisInvNext == GenesisInv /\ [Next]_vars => GenesisInv'
<1> SUFFICES ASSUME GenesisInv, [Next]_vars PROVE GenesisInv'
  OBVIOUS
<1>1. CASE UNCHANGED <<genesis, fullnodes, created, ccall, cpc>>
  BY <1>1 DEF GenesisInv
<1>2. CASE Chain
  <2>1. CASE UNCHANGED <<genesis, fullnodes, created>> /\ ccall' # "none"
             /\ (cpc' \in Earlier => created = <<>>)
    BY <2>1 DEF GenesisInv
  <2>2. CASE Construct
    BY <2>1, <2>2 DEF Construct, GenesisInv, fields
  <2>3. CASE Invoke
    <3>1. /\ UNCHANGED <<genesis, fullnodes>> /\ ccall' # "none" /\ created' = <<>>
      BY <2>3 DEF Invoke, fields
    <3>2. /\ IsSequence(created')
          /\ \A i \in 1 .. Len(created') : created'[i].genesis.number = genesis.number
      BY <3>1, NoNodes
    <3> QED BY <3>1, <3>2 DEF GenesisInv
  <2>4. CASE Finalize
    <3>1. /\ genesis' = [genesis EXCEPT !.file = IF @ = "file" THEN "gone" ELSE @]
          /\ UNCHANGED <<fullnodes, created, cpc>> /\ ccall' = "Finalize" /\ ccall # "none"
      BY <2>4 DEF Finalize
    <3>2. /\ genesis'.number = genesis.number /\ DOMAIN genesis' = DOMAIN genesis
          /\ genesis'.file = IF genesis.file = "file" THEN "gone" ELSE genesis.file
      BY <3>1 DEF GenesisInv
    <3> QED BY <3>1, <3>2, FileNames DEF GenesisInv
  <2>5. CASE GenerateAccounts \/ GetIPs \/ GenerateKeys \/ PartDone \/ CreateDone
    <3>1. /\ UNCHANGED <<genesis, fullnodes, created, ccall>> /\ cpc # "idle"
          /\ cpc' \in Earlier => cpc \in Earlier
      BY <2>5 DEF GenerateAccounts, GetIPs, GenerateKeys, PartDone, CreateDone, At, Goto, Return,
         fields, Earlier
    <3> QED BY <2>1, <3>1 DEF GenesisInv
  <2>6. CASE SetupGenesis
    <3>1. /\ UNCHANGED <<fullnodes, created, ccall>> /\ cpc = "genesis" /\ cpc' \notin Earlier
          /\ \/ UNCHANGED genesis
             \/ /\ genesis.file = NoFile /\ "file" \in DOMAIN genesis' /\ "number" \in DOMAIN genesis'
      BY <2>6 DEF SetupGenesis, At, Goto, Return, NeedsGenesis, NewGenesis, Earlier
    <3>2. created = <<>> /\ ccall # "none"
      BY <3>1 DEF GenesisInv, Earlier
    <3>3. CASE UNCHANGED genesis
      BY <2>1, <3>1, <3>2, <3>3
    <3>4. CASE ~ UNCHANGED genesis
      <4>1. fullnodes' = <<>> /\ created' = <<>> /\ ccall' # "none" /\ cpc' \notin Earlier
        BY <3>1, <3>2, <3>4 DEF GenesisInv
      <4>2. {"file", "number"} \subseteq DOMAIN genesis'
        BY <3>1, <3>4
      <4>3. /\ IsSequence(fullnodes')
            /\ \A i \in 1 .. Len(fullnodes') : fullnodes'[i].genesis.number = genesis'.number
        BY <4>1, NoNodes
      <4>4. /\ IsSequence(created')
            /\ \A i \in 1 .. Len(created') : created'[i].genesis.number = genesis'.number
        BY <4>1, NoNodes
      <4> QED BY <4>1, <4>2, <4>3, <4>4 DEF GenesisInv
    <3> QED BY <3>3, <3>4
  <2>7. CASE SetupFullnode
    <3>1. /\ UNCHANGED <<genesis, created, ccall>> /\ cpc = "setup" /\ cpc' \in {"setup", "idle"}
          /\ \/ UNCHANGED fullnodes
             \/ /\ genesis.file = "file"
                /\ \E files \in BOOLEAN : fullnodes' = Append(fullnodes, Node(files))
      BY <2>7 DEF SetupFullnode, At, Return, NextNode
    <3>2. CASE UNCHANGED fullnodes
      BY <2>1, <3>1, <3>2 DEF GenesisInv, Earlier
    <3>3. CASE ~ UNCHANGED fullnodes
      <4>1. PICK files \in BOOLEAN : fullnodes' = Append(fullnodes, Node(files))
        BY <3>1, <3>3
      <4>2. Node(files).genesis.number = genesis.number
        BY DEF Node
      <4>3. /\ IsSequence(fullnodes')
            /\ \A i \in 1 .. Len(fullnodes') : fullnodes'[i].genesis.number = genesis.number
        BY <4>1, <4>2, AppendNode DEF GenesisInv
      <4> QED BY <3>1, <3>3, <4>3, FileNames DEF GenesisInv, Earlier
    <3> QED BY <3>2, <3>3
  <2>8. CASE CreateNode
    <3>1. /\ UNCHANGED <<genesis, fullnodes, ccall>> /\ cpc = "create" /\ cpc' \in {"create", "idle"}
          /\ created' = <<>> \/ created' = Append(created, Node(FALSE))
      BY <2>8 DEF CreateNode, At, Return, NextNode, fields
    <3>2. CASE created' = <<>>
      <4>1. /\ IsSequence(created')
            /\ \A i \in 1 .. Len(created') : created'[i].genesis.number = genesis.number
        BY <3>2, NoNodes
      <4> QED BY <3>1, <3>2, <4>1 DEF GenesisInv, Earlier
    <3>3. CASE created' = Append(created, Node(FALSE))
      <4>1. Node(FALSE).genesis.number = genesis.number
        BY DEF Node
      <4>2. /\ IsSequence(created')
            /\ \A i \in 1 .. Len(created') : created'[i].genesis.number = genesis.number
        BY <3>3, <4>1, AppendNode DEF GenesisInv
      <4> QED BY <3>1, <4>2 DEF GenesisInv, Earlier
    <3> QED BY <3>1, <3>2, <3>3
  <2> QED
    BY <1>2, <2>2, <2>3, <2>4, <2>5, <2>6, <2>7, <2>8 DEF Chain
<1>3. CASE Vaults /\ UNCHANGED chainVars
  BY <1>1, <1>3 DEF chainVars, fields
<1>4. CASE UNCHANGED vars
  BY <1>1, <1>4 DEF vars, chainVars, fields
<1> QED
  BY <1>2, <1>3, <1>4 DEF Next

\* All nodes of a chain, and those made to join it, start from one genesis.
THEOREM GenesisShared == Spec => []OneGenesis
<1>1. Init => GenesisInv
  <2> SUFFICES ASSUME Init PROVE GenesisInv
    OBVIOUS
  <2>1. /\ genesis = NoGenesis /\ fullnodes = <<>> /\ created = <<>> /\ cpc = "idle"
        /\ ccall = "none"
    BY DEF Init, ChainInit
  <2>2. IsSequence(fullnodes) /\ IsSequence(created)
    BY <2>1, NoNodes
  <2>3. /\ \A i \in 1 .. Len(fullnodes) : fullnodes[i].genesis.number = genesis.number
        /\ \A i \in 1 .. Len(created) : created[i].genesis.number = genesis.number
    BY <2>1, NoNodes
  <2> QED BY <2>1, <2>2, <2>3 DEF GenesisInv, NoGenesis
<1>2. GenesisInv => OneGenesis
  <2> SUFFICES ASSUME GenesisInv, NEW n \in ToSet(fullnodes) \cup ToSet(created)
               PROVE  n.genesis.number = genesis.number
    BY DEF OneGenesis
  <2>1. PICK S : fullnodes \in Seq(S)
    BY DEF GenesisInv, IsSequence
  <2>2. PICK T : created \in Seq(T)
    BY DEF GenesisInv, IsSequence
  <2>3. \/ \E i \in 1 .. Len(fullnodes) : n = fullnodes[i]
        \/ \E i \in 1 .. Len(created) : n = created[i]
    BY <2>1, <2>2 DEF ToSet
  <2> QED BY <2>3 DEF GenesisInv
<1> QED BY <1>1, <1>2, GenesisInvNext, PTL DEF Spec

-----------------------------------------------------------------------------
(* What NewEthereum makes of its options                                   *)

\* Induction over the naturals, stated for a set.
LEMMA Induction ==
  ASSUME NEW S, 0 \in S, \A n \in Nat : n \in S => n + 1 \in S
  PROVE  Nat \subseteq S
<1> DEFINE T == Nat \ S
           R == {p \in Nat \X Nat : p[1] < p[2]}
<1>1. SUFFICES ASSUME T # {} PROVE FALSE
  OBVIOUS
<1>2. IsWellFoundedOn(R, Nat)
  BY NatLessThanWellFounded DEF OpToRel
<1>3. T \subseteq Nat
  OBVIOUS
<1> HIDE DEF R, T
<1>4. PICK n \in T : \A m \in T : <<m, n>> \notin R
  BY <1>1, <1>2, <1>3, WFMin
<1>5. n \in Nat /\ n # 0 /\ n - 1 \in Nat
  BY <1>4 DEF T
<1>6. n - 1 \in T /\ <<n - 1, n>> \in R
  BY <1>4, <1>5 DEF T, R
<1> QED BY <1>4, <1>6

\* The capacity of a slice is at least its length.
LEMMA CapacitySuffices == \A n \in Nat : Capacity(n) \in Nat /\ Capacity(n) >= n
<1> DEFINE Body(f, k) == IF k <= 1 THEN k
                         ELSE IF k <= f[k - 1] THEN f[k - 1] ELSE 2 * f[k - 1]
           S == {n \in Nat : \E f \in [0 .. n -> Nat] : \A k \in 0 .. n : f[k] = Body(f, k) /\ f[k] >= k}
<1>1. 0 \in S
  <2> DEFINE g == [k \in 0 .. 0 |-> 0]
  <2>1. g \in [0 .. 0 -> Nat]
    OBVIOUS
  <2>2. \A k \in 0 .. 0 : g[k] = Body(g, k) /\ g[k] >= k
    OBVIOUS
  <2> HIDE DEF g, Body
  <2> QED BY <2>1, <2>2
<1>2. ASSUME NEW n \in Nat, n \in S PROVE n + 1 \in S
  <2>1. PICK f \in [0 .. n -> Nat] : \A k \in 0 .. n : f[k] = Body(f, k) /\ f[k] >= k
    BY <1>2
  <2> DEFINE g == [k \in 0 .. n + 1 |-> IF k <= n THEN f[k] ELSE Body(f, k)]
  <2>2. f[n] \in Nat /\ f[n] >= n
    BY <2>1
  <2>3. Body(f, n + 1) \in Nat /\ Body(f, n + 1) >= n + 1
    <3>1. n + 1 - 1 = n
      OBVIOUS
    <3> QED BY <2>2, <3>1
  <2>4. g \in [0 .. n + 1 -> Nat]
    BY <2>3
  <2>5. ASSUME NEW k \in 0 .. n + 1 PROVE g[k] = Body(g, k) /\ g[k] >= k
    <3>1. CASE k <= n
      BY <2>1, <3>1
    <3>2. CASE k = n + 1
      BY <2>2, <2>3, <3>2
    <3> QED BY <3>1, <3>2
  <2> HIDE DEF g, Body
  <2> QED BY <2>4, <2>5
<1>3. Nat \subseteq S
  <2> HIDE DEF S
  <2> QED BY <1>1, <1>2, Induction
<1> SUFFICES ASSUME NEW n \in Nat PROVE Capacity(n) \in Nat /\ Capacity(n) >= n
  OBVIOUS
<1>4. PICK f \in [0 .. n -> Nat] : \A k \in 0 .. n : f[k] = Body(f, k) /\ f[k] >= k
  BY <1>3
<1> DEFINE cap == CHOOSE c : c = [k \in 0 .. n |-> Body(c, k)]
<1>5. cap = [k \in 0 .. n |-> Body(cap, k)]
  <2>1. f = [k \in 0 .. n |-> Body(f, k)]
    BY <1>4
  <2> QED BY <2>1
<1>6. Capacity(n) = cap[n]
  BY DEF Capacity
<1> DEFINE T == {m \in Nat : m <= n => cap[m] \in Nat /\ cap[m] >= m}
<1> HIDE DEF cap
<1>7. 0 \in T
  BY <1>5
<1>8. ASSUME NEW m \in Nat, m \in T PROVE m + 1 \in T
  <2>1. SUFFICES ASSUME m + 1 <= n PROVE cap[m + 1] \in Nat /\ cap[m + 1] >= m + 1
    OBVIOUS
  <2>2. cap[m + 1] = Body(cap, m + 1) /\ m + 1 - 1 = m
    <3>1. m + 1 \in 0 .. n /\ m + 1 - 1 = m
      BY <2>1
    <3> HIDE DEF Body
    <3>2. \A k \in 0 .. n : cap[k] = Body(cap, k)
      <4> DEFINE f1 == [k \in 0 .. n |-> Body(cap, k)]
      <4>1. \A k \in 0 .. n : f1[k] = Body(cap, k)
        OBVIOUS
      <4>2. cap = f1
        BY <1>5
      <4> HIDE DEF f1
      <4> QED BY <4>1, <4>2
    <3> QED BY <3>1, <3>2
  <2>3. cap[m] \in Nat /\ cap[m] >= m
    BY <1>8, <2>1
  <2> QED BY <2>2, <2>3
<1>9. n \in T
  <2> HIDE DEF T
  <2> QED BY <1>7, <1>8, Induction
<1> QED BY <1>6, <1>9

\* What FoldLeft does with the options: node[k] is what the first k of them make.
LEMMA OptionByOption ==
  ASSUME NEW S, NEW options \in Seq(S), NEW utils
  PROVE  \E node :
           /\ node[0] = [eth |-> [f \in Fields |-> Unset], flags |-> <<>>, utils |-> utils]
           /\ \A k \in 1 .. Len(options) : node[k] = Apply(node[k - 1], options[k])
           /\ NewEthereum(options, utils) = node[Len(options)]
<1> DEFINE n == Len(options)
           base == [eth |-> [f \in Fields |-> Unset], flags |-> <<>>, utils |-> utils]
           Body(f, s) == IF s = {} THEN base ELSE Apply(f[s \ {Max(s)}], options[Max(s)])
           iter == CHOOSE f : f = [s \in SUBSET (1 .. n) |-> Body(f, s)]
<1>1. n \in Nat /\ DOMAIN options = 1 .. n
  OBVIOUS
<1>2. NewEthereum(options, utils) = iter[1 .. n]
  BY <1>1 DEF NewEthereum, FoldLeft, MapThenFoldSet
<1> HIDE DEF n, base
<1>3. ASSUME NEW m \in Nat PROVE Max(1 .. m + 1) = m + 1
  BY <1>3 DEF Max
<1>4. ASSUME NEW m \in Nat, NEW s \in SUBSET (1 .. m + 1), m + 1 \in s PROVE Max(s) = m + 1
  <2>1. \A x \in s : x \in Nat /\ x <= m + 1
    OBVIOUS
  <2>2. \A x \in s : (\A y \in s : x >= y) => x = m + 1
    BY <1>4, <2>1
  <2>3. \A y \in s : m + 1 >= y
    BY <2>1
  <2> QED BY <1>4, <2>2, <2>3 DEF Max
<1> DEFINE T == {m \in Nat : \E f : f = [s \in SUBSET (1 .. m) |-> Body(f, s)]}
<1>5. 0 \in T
  <2> DEFINE g == [s \in SUBSET (1 .. 0) |-> base]
  <2>1. SUBSET (1 .. 0) = {{}}
    OBVIOUS
  <2>2. g = [s \in SUBSET (1 .. 0) |-> Body(g, s)]
    BY <2>1
  <2> HIDE DEF g
  <2> QED BY <2>2
<1>6. ASSUME NEW m \in Nat, m \in T PROVE m + 1 \in T
  <2>1. PICK f : f = [s \in SUBSET (1 .. m) |-> Body(f, s)]
    BY <1>6
  <2> DEFINE g == [s \in SUBSET (1 .. m + 1) |->
                     IF m + 1 \in s THEN Apply(f[s \ {m + 1}], options[m + 1]) ELSE f[s]]
  <2>2. ASSUME NEW s \in SUBSET (1 .. m + 1) PROVE g[s] = Body(g, s)
    <3>1. CASE m + 1 \in s
      <4>1. Max(s) = m + 1 /\ s # {} /\ s \ {m + 1} \in SUBSET (1 .. m) /\ m + 1 \notin s \ {m + 1}
        BY <1>4, <3>1
      <4>2. s \ {m + 1} \in SUBSET (1 .. m + 1)
        OBVIOUS
      <4>3. g[s \ {m + 1}] = f[s \ {m + 1}]
        BY <4>1, <4>2
      <4> QED BY <3>1, <4>1, <4>3
    <3>2. CASE m + 1 \notin s
      <4>1. s \in SUBSET (1 .. m) /\ s \ {Max(s)} \in SUBSET (1 .. m)
        <5>1. \A x \in s : x \in 1 .. m
          BY <3>2
        <5> QED BY <5>1
      <4>2. g[s] = f[s]
        BY <3>2
      <4>3. g[s \ {Max(s)}] = f[s \ {Max(s)}]
        BY <4>1
      <4>4. f[s] = Body(f, s)
        BY <2>1, <4>1
      <4> QED BY <4>2, <4>3, <4>4
    <3> QED BY <3>1, <3>2
  <2>3. g = [s \in SUBSET (1 .. m + 1) |-> Body(g, s)]
    <3> HIDE DEF Body
    <3> DEFINE h == [s \in SUBSET (1 .. m + 1) |-> Body(g, s)]
    <3>1. \A s \in SUBSET (1 .. m + 1) : g[s] = h[s]
      BY <2>2
    <3> QED BY <3>1
  <2> HIDE DEF g, Body
  <2> QED BY <2>3
<1>7. n \in T
  <2> HIDE DEF T
  <2> QED BY <1>1, <1>5, <1>6, Induction
<1>8. iter = [s \in SUBSET (1 .. n) |-> Body(iter, s)]
  <2> HIDE DEF Body
  <2> QED BY <1>7
<1> HIDE DEF iter
<1> DEFINE node == [k \in 0 .. n |-> iter[1 .. k]]
<1>9. node[0] = base
  <2>1. 1 .. 0 = {} /\ 0 \in 0 .. n
    BY <1>1
  <2> QED BY <1>8, <2>1
<1>10. ASSUME NEW k \in 1 .. n PROVE node[k] = Apply(node[k - 1], options[k])
  <2>1. /\ k \in 0 .. n /\ k - 1 \in 0 .. n /\ k - 1 \in Nat /\ k - 1 + 1 = k
        /\ 1 .. k \in SUBSET (1 .. n) /\ 1 .. k # {} /\ (1 .. k) \ {k} = 1 .. k - 1
    BY <1>1
  <2>2. Max(1 .. k) = k
    BY <1>3, <2>1
  <2> QED BY <1>8, <2>1, <2>2
<1>11. NewEthereum(options, utils) = node[n]
  BY <1>1, <1>2
<1> HIDE DEF node
<1> QED BY <1>9, <1>10, <1>11 DEF n, base

\* An option names a field or a variable that there is.
IsOption(o) ==
  /\ o.kind \in {"field", "flag", "shared", "password"}
  /\ o.kind = "field" => o.name \in Fields
  /\ o.kind = "password" => o.name = "password"
  /\ o.kind = "shared" => o.name \in Shared
  /\ o.kind = "flag" => o.name \in Flags

Options(s) == IsSequence(s) /\ \A i \in 1 .. Len(s) : IsOption(s[i])

\* A node that is being built.
Draft(s) ==
  /\ DOMAIN s = {"eth", "flags", "utils"}
  /\ DOMAIN s.eth = Fields /\ IsSequence(s.flags) /\ DOMAIN s.utils = Shared

Sets(o, f) == o.kind \in {"field", "password"} /\ o.name = f

\* What Append does.
LEMMA AppendSequence ==
  ASSUME NEW s, NEW x, IsSequence(s)
  PROVE  /\ IsSequence(Append(s, x)) /\ Len(s) \in Nat /\ Len(Append(s, x)) = Len(s) + 1
         /\ DOMAIN Append(s, x) = 1 .. Len(s) + 1 /\ DOMAIN s = 1 .. Len(s)
         /\ \A i \in 1 .. Len(s) : Append(s, x)[i] = s[i]
         /\ Append(s, x)[Len(s) + 1] = x
<1>1. PICK S : s \in Seq(S)
  BY DEF IsSequence
<1>2. s \in Seq(S \cup {x}) /\ x \in S \cup {x}
  BY <1>1
<1>3. Append(s, x) \in Seq(S \cup {x}) /\ Len(Append(s, x)) = Len(s) + 1
  BY <1>2
<1> QED BY <1>2, <1>3 DEF IsSequence

\* What an option does with a node.
LEMMA ApplyEffect ==
  ASSUME NEW s, NEW o, Draft(s), IsOption(o)
  PROVE  /\ Draft(Apply(s, o))
         /\ \A f \in Fields : Apply(s, o).eth[f] = IF Sets(o, f) THEN o.value ELSE s.eth[f]
         /\ \A n \in Shared : Apply(s, o).utils[n] =
              IF o.kind = "shared" /\ o.name = n THEN o.value ELSE s.utils[n]
         /\ o.kind = "field" => Apply(s, o).flags = s.flags
         /\ o.kind \in {"flag", "shared"} => Apply(s, o).flags = Append(s.flags, <<o.name, o.value>>)
         /\ o.kind = "password" =>
              Apply(s, o).flags = Append(s.flags, <<"password", <<s.utils["datadir"], o.value>>>>)
<1> DEFINE g == [s EXCEPT !.eth[o.name] = o.value]
           h == [s EXCEPT !.utils[o.name] = o.value]
<1>1. CASE o.kind = "field"
  <2>1. Apply(s, o) = g
    BY <1>1 DEF Apply, SetField
  <2> QED BY <1>1, <2>1 DEF Draft, IsOption, Sets
<1>2. CASE o.kind = "flag"
  <2>1. Apply(s, o) = [s EXCEPT !.flags = Append(s.flags, <<o.name, o.value>>)]
    BY <1>2 DEF Apply, AppendFlag, Draft
  <2>2. IsSequence(Append(s.flags, <<o.name, o.value>>))
    BY AppendSequence DEF Draft
  <2> QED BY <1>2, <2>1, <2>2 DEF Draft, IsOption, Sets
<1>3. CASE o.kind = "shared"
  <2>1. Apply(s, o) = AppendFlag(h, o.name, o.value)
    BY <1>3 DEF Apply, SetShared
  <2>2. /\ DOMAIN h = DOMAIN s /\ h.flags = s.flags /\ h.eth = s.eth
        /\ h.utils = [s.utils EXCEPT ![o.name] = o.value]
    BY DEF Draft
  <2> HIDE DEF h
  <2>3. Apply(s, o) = [h EXCEPT !.flags = Append(s.flags, <<o.name, o.value>>)]
    BY <2>1, <2>2 DEF AppendFlag, Draft
  <2>4. IsSequence(Append(s.flags, <<o.name, o.value>>))
    BY AppendSequence DEF Draft
  <2> QED BY <1>3, <2>2, <2>3, <2>4 DEF Draft, IsOption, Sets
<1>4. CASE o.kind = "password"
  <2> DEFINE p == [s EXCEPT !.eth["password"] = o.value]
             a == <<"password", <<s.utils["datadir"], o.value>>>>
  <2>1. Apply(s, o) = AppendFlag(p, "password", <<s.utils["datadir"], o.value>>)
    BY <1>4 DEF Apply, SetField
  <2>2. /\ DOMAIN p = DOMAIN s /\ p.flags = s.flags /\ p.utils = s.utils
        /\ p.eth = [s.eth EXCEPT !["password"] = o.value]
    BY DEF Draft
  <2> HIDE DEF p
  <2>3. Apply(s, o) = [p EXCEPT !.flags = Append(s.flags, a)]
    BY <2>1, <2>2 DEF AppendFlag, Draft
  <2>4. IsSequence(Append(s.flags, a))
    BY AppendSequence DEF Draft
  <2> HIDE DEF a
  <2>5. o.name = "password" /\ "password" \in Fields
    BY <1>4 DEF IsOption, Fields
  <2> QED BY <1>4, <2>2, <2>3, <2>4, <2>5 DEF Draft, IsOption, Sets, a
<1> QED BY <1>1, <1>2, <1>3, <1>4 DEF IsOption

\* Each option finds a node and leaves one.
LEMMA DraftByDraft ==
  ASSUME NEW options, NEW utils, Options(options), DOMAIN utils = Shared
  PROVE  \E node :
           /\ node[0].eth = [f \in Fields |-> Unset] /\ node[0].flags = <<>> /\ node[0].utils = utils
           /\ \A k \in 0 .. Len(options) : Draft(node[k])
           /\ \A k \in 1 .. Len(options) : node[k] = Apply(node[k - 1], options[k])
           /\ NewEthereum(options, utils) = node[Len(options)]
           /\ Len(options) \in Nat
<1>1. PICK S : options \in Seq(S)
  BY DEF Options, IsSequence
<1>2. PICK node :
        /\ node[0] = [eth |-> [f \in Fields |-> Unset], flags |-> <<>>, utils |-> utils]
        /\ \A k \in 1 .. Len(options) : node[k] = Apply(node[k - 1], options[k])
        /\ NewEthereum(options, utils) = node[Len(options)]
  BY <1>1, OptionByOption
<1> DEFINE T == {k \in Nat : k <= Len(options) => Draft(node[k])}
<1>3. 0 \in T
  <2>1. IsSequence(<<>>)
    BY DEF IsSequence
  <2> QED BY <1>2, <2>1 DEF Draft
<1>4. ASSUME NEW k \in Nat, k \in T PROVE k + 1 \in T
  <2>1. SUFFICES ASSUME k + 1 <= Len(options) PROVE Draft(node[k + 1])
    OBVIOUS
  <2>2. Len(options) \in Nat /\ k + 1 \in 1 .. Len(options) /\ k + 1 - 1 = k /\ Draft(node[k])
    BY <1>1, <1>4, <2>1
  <2>3. node[k + 1] = Apply(node[k], options[k + 1]) /\ IsOption(options[k + 1])
    BY <1>2, <2>2 DEF Options
  <2> QED BY <2>2, <2>3, ApplyEffect
<1>5. Nat \subseteq T
  <2> HIDE DEF T
  <2> QED BY <1>3, <1>4, Induction
<1>6. Len(options) \in Nat /\ \A k \in 0 .. Len(options) : Draft(node[k])
  BY <1>1, <1>5
<1> QED BY <1>2, <1>6

\* An option that no later one overrides has set its field.
LEMMA LastSets ==
  ASSUME NEW options, NEW utils, Options(options), DOMAIN utils = Shared,
         NEW i \in 1 .. Len(options), NEW f \in Fields, Sets(options[i], f),
         \A j \in i + 1 .. Len(options) : ~ Sets(options[j], f)
  PROVE  NewEthereum(options, utils).eth[f] = options[i].value
<1>1. PICK node :
           /\ \A k \in 0 .. Len(options) : Draft(node[k])
           /\ \A k \in 1 .. Len(options) : node[k] = Apply(node[k - 1], options[k])
           /\ NewEthereum(options, utils) = node[Len(options)]
           /\ Len(options) \in Nat
  BY DraftByDraft
<1>2. ASSUME NEW k \in 1 .. Len(options)
      PROVE  node[k].eth[f] = IF Sets(options[k], f) THEN options[k].value ELSE node[k - 1].eth[f]
  <2>1. Draft(node[k - 1]) /\ IsOption(options[k]) /\ node[k] = Apply(node[k - 1], options[k])
    BY <1>1 DEF Options
  <2> QED BY <2>1, ApplyEffect
<1> DEFINE T == {k \in Nat : i + k <= Len(options) => node[i + k].eth[f] = options[i].value}
<1>3. 0 \in T
  BY <1>2
<1>4. ASSUME NEW k \in Nat, k \in T PROVE k + 1 \in T
  <2>1. SUFFICES ASSUME i + (k + 1) <= Len(options) PROVE node[i + (k + 1)].eth[f] = options[i].value
    OBVIOUS
  <2>2. /\ i + (k + 1) \in 1 .. Len(options) /\ i + (k + 1) \in i + 1 .. Len(options)
        /\ i + (k + 1) - 1 = i + k /\ i + k <= Len(options)
    BY <1>1, <2>1
  <2> QED BY <1>2, <1>4, <2>2
<1>5. Nat \subseteq T
  <2> HIDE DEF T
  <2> QED BY <1>3, <1>4, Induction
<1> DEFINE m == Len(options) - i
<1>6. m \in Nat /\ i + m = Len(options)
  BY <1>1
<1>7. m \in T
  BY <1>5, <1>6
<1>8. i + m <= Len(options) => node[i + m].eth[f] = options[i].value
  BY <1>7
<1> HIDE DEF m, T
<1>9. node[Len(options)].eth[f] = options[i].value
  <2>1. i + m <= Len(options)
    BY <1>1, <1>6
  <2> QED BY <1>6, <1>8, <2>1
<1> QED BY <1>1, <1>9

\* A field that no option sets is unset.
LEMMA NobodySets ==
  ASSUME NEW options, NEW utils, Options(options), DOMAIN utils = Shared,
         NEW f \in Fields, \A j \in 1 .. Len(options) : ~ Sets(options[j], f)
  PROVE  NewEthereum(options, utils).eth[f] = Unset
<1>1. PICK node :
           /\ node[0].eth = [g \in Fields |-> Unset]
           /\ \A k \in 0 .. Len(options) : Draft(node[k])
           /\ \A k \in 1 .. Len(options) : node[k] = Apply(node[k - 1], options[k])
           /\ NewEthereum(options, utils) = node[Len(options)]
           /\ Len(options) \in Nat
  BY DraftByDraft
<1>2. ASSUME NEW k \in 1 .. Len(options) PROVE node[k].eth[f] = node[k - 1].eth[f]
  <2>1. Draft(node[k - 1]) /\ IsOption(options[k]) /\ node[k] = Apply(node[k - 1], options[k])
    BY <1>1 DEF Options
  <2> QED BY <2>1, ApplyEffect
<1> DEFINE T == {k \in Nat : k <= Len(options) => node[k].eth[f] = Unset}
<1>3. 0 \in T
  BY <1>1
<1>4. ASSUME NEW k \in Nat, k \in T PROVE k + 1 \in T
  <2>1. SUFFICES ASSUME k + 1 <= Len(options) PROVE node[k + 1].eth[f] = Unset
    OBVIOUS
  <2>2. k + 1 \in 1 .. Len(options) /\ k + 1 - 1 = k /\ k <= Len(options)
    BY <1>1, <2>1
  <2> QED BY <1>2, <1>4, <2>2
<1>5. Nat \subseteq T
  <2> HIDE DEF T
  <2> QED BY <1>3, <1>4, Induction
<1> QED BY <1>1, <1>5

\* Flags of a node whose data directory is d: the password file is in it.
FlagsSay(flags, d) ==
  \A i \in 1 .. Len(flags) :
    /\ flags[i][1] = "datadir" => flags[i][2] = d
    /\ flags[i][1] = "password" => flags[i][2][1] = d

\* All data directories are d, and there is one before any password file.
DirFirst(options, d) ==
  /\ \A j \in 1 .. Len(options) :
       options[j].kind = "shared" /\ options[j].name = "datadir" => options[j].value = d
  /\ \E i \in 1 .. Len(options) :
       /\ options[i].kind = "shared" /\ options[i].name = "datadir"
       /\ \A j \in 1 .. i : options[j].kind # "password"

\* Then the flags of the node say d, and the library does.
LEMMA DirEverywhere ==
  ASSUME NEW options, NEW utils, Options(options), DOMAIN utils = Shared,
         NEW d, DirFirst(options, d)
  PROVE  LET n == NewEthereum(options, utils) IN
         /\ Draft(n) /\ n.utils["datadir"] = d /\ FlagsSay(n.flags, d)
         /\ \E i \in 1 .. Len(n.flags) : n.flags[i][1] = "datadir"
<1>1. PICK node :
           /\ node[0].flags = <<>>
           /\ \A k \in 0 .. Len(options) : Draft(node[k])
           /\ \A k \in 1 .. Len(options) : node[k] = Apply(node[k - 1], options[k])
           /\ NewEthereum(options, utils) = node[Len(options)]
           /\ Len(options) \in Nat
  BY DraftByDraft
<1>2. PICK first \in 1 .. Len(options) :
        /\ options[first].kind = "shared" /\ options[first].name = "datadir"
        /\ \A j \in 1 .. first : options[j].kind # "password"
  BY DEF DirFirst
<1> DEFINE Named(flags) == \E i \in 1 .. Len(flags) : flags[i][1] = "datadir"
           Good(n, k) == /\ FlagsSay(n.flags, d)
                         /\ k >= first => n.utils["datadir"] = d /\ Named(n.flags)
           T == {k \in Nat : k <= Len(options) => Good(node[k], k)}
<1>3. 0 \in T
  <2>1. Len(node[0].flags) = 0
    BY <1>1
  <2> QED BY <2>1 DEF FlagsSay
<1>4. ASSUME NEW k \in Nat, k \in T PROVE k + 1 \in T
  <2>1. SUFFICES ASSUME k + 1 <= Len(options) PROVE Good(node[k + 1], k + 1)
    OBVIOUS
  <2> DEFINE s == node[k]
             o == options[k + 1]
             t == node[k + 1]
  <2>2. k + 1 \in 1 .. Len(options) /\ k + 1 - 1 = k /\ k \in 0 .. Len(options)
    BY <1>1, <2>1
  <2>3. Draft(s) /\ IsOption(o) /\ t = Apply(s, o) /\ FlagsSay(s.flags, d)
    BY <1>1, <1>4, <2>2 DEF Options
  <2>4. k >= first => s.utils["datadir"] = d /\ Named(s.flags)
    BY <1>4, <2>2
  <2>5. o.kind = "shared" /\ o.name = "datadir" => o.value = d
    BY <2>2 DEF DirFirst
  <2>6. o.kind = "password" => k >= first
    BY <1>2, <2>2
  <2>7. k + 1 >= first => k >= first \/ (o.kind = "shared" /\ o.name = "datadir")
    BY <1>2, <2>2
  <2>8. IsSequence(s.flags)
    BY <2>3 DEF Draft
  <2> SUFFICES Good(t, k + 1)
    OBVIOUS
  <2> HIDE DEF s, o, t
  <2>9. t.utils["datadir"] = IF o.kind = "shared" /\ o.name = "datadir" THEN o.value ELSE s.utils["datadir"]
    BY <2>3, ApplyEffect DEF Shared
  <2>10. PICK x : \/ t.flags = s.flags /\ o.kind = "field"
                  \/ /\ t.flags = Append(s.flags, x)
                     /\ x[1] = "datadir" => x[2] = d
                     /\ x[1] = "password" => x[2][1] = d
                     /\ o.kind = "shared" /\ o.name = "datadir" => x[1] = "datadir"
    <3>1. CASE o.kind = "field"
      BY <2>3, <3>1, ApplyEffect
    <3>2. CASE o.kind = "flag"
      <4>1. t.flags = Append(s.flags, <<o.name, o.value>>) /\ o.name \in Flags
        BY <2>3, <3>2, ApplyEffect DEF IsOption
      <4> QED BY <3>2, <4>1 DEF Flags
    <3>3. CASE o.kind = "shared"
      <4>1. t.flags = Append(s.flags, <<o.name, o.value>>) /\ o.name \in Shared
        BY <2>3, <3>3, ApplyEffect DEF IsOption
      <4> QED BY <2>5, <3>3, <4>1 DEF Shared
    <3>4. CASE o.kind = "password"
      <4>1. t.flags = Append(s.flags, <<"password", <<s.utils["datadir"], o.value>>>>)
        BY <2>3, <3>4, ApplyEffect
      <4>2. s.utils["datadir"] = d
        BY <2>4, <2>6, <3>4
      <4> QED BY <3>4, <4>1, <4>2
    <3> QED BY <2>3, <3>1, <3>2, <3>3, <3>4 DEF IsOption
  <2>11. CASE t.flags = s.flags /\ o.kind = "field"
    BY <2>3, <2>4, <2>7, <2>9, <2>11
  <2>12. CASE /\ t.flags = Append(s.flags, x)
              /\ x[1] = "datadir" => x[2] = d
              /\ x[1] = "password" => x[2][1] = d
              /\ o.kind = "shared" /\ o.name = "datadir" => x[1] = "datadir"
    <3>1. /\ Len(s.flags) \in Nat /\ Len(t.flags) = Len(s.flags) + 1
          /\ \A i \in 1 .. Len(s.flags) : t.flags[i] = s.flags[i]
          /\ t.flags[Len(s.flags) + 1] = x
      BY <2>8, <2>12, AppendSequence
    <3>2. FlagsSay(t.flags, d)
      <4>1. \A i \in 1 .. Len(t.flags) : i \in 1 .. Len(s.flags) \/ i = Len(s.flags) + 1
        BY <3>1
      <4> QED BY <2>3, <2>12, <3>1, <4>1 DEF FlagsSay
    <3>3. Named(s.flags) \/ x[1] = "datadir" => Named(t.flags)
      <4>1. \A i \in 1 .. Len(s.flags) : i \in 1 .. Len(t.flags)
        BY <3>1
      <4>2. Len(s.flags) + 1 \in 1 .. Len(t.flags)
        BY <3>1
      <4> QED BY <3>1, <4>1, <4>2
    <3>4. k + 1 >= first => t.utils["datadir"] = d /\ Named(t.flags)
      BY <2>4, <2>5, <2>7, <2>9, <2>12, <3>3
    <3> QED BY <3>2, <3>4
  <2> QED BY <2>10, <2>11, <2>12
<1>5. Nat \subseteq T
  <2> HIDE DEF T
  <2> QED BY <1>3, <1>4, Induction
<1>6. Good(node[Len(options)], Len(options)) /\ Draft(node[Len(options)])
  <2>1. Len(options) \in 0 .. Len(options)
    BY <1>1
  <2>2. Len(options) \in T
    <3> HIDE DEF T
    <3> QED BY <1>1, <1>5
  <2>3. Good(node[Len(options)], Len(options))
    <3> HIDE DEF Good
    <3> QED BY <1>1, <2>2
  <2> QED BY <1>1, <2>1, <2>3
<1>7. Len(options) >= first
  BY <1>1
<1> QED BY <1>1, <1>6, <1>7

\* Fields that are set for each node anew.
Own == {"dataDir", "ip", "key", "accounts", "dockerEnv", "dockerBinds"}

\* Options that all nodes of a chain are given.
General(s) ==
  /\ Options(s)
  /\ \A i \in 1 .. Len(s) : \A f \in Own : ~ Sets(s[i], f)
  /\ \A i \in 1 .. Len(s) : s[i].kind = "shared" /\ s[i].name = "datadir" => s[i].value = "/data"

NoPassword(s) == \A i \in 1 .. Len(s) : s[i].kind # "password"

DirBefore(s) ==
  \E i \in 1 .. Len(s) : /\ s[i].kind = "shared" /\ s[i].name = "datadir"
                         /\ \A j \in 1 .. i : s[j].kind # "password"

\* c is a followed by b.
Joined(c, a, b) ==
  /\ IsSequence(c) /\ Len(a) \in Nat /\ Len(b) \in Nat /\ Len(c) = Len(a) + Len(b)
  /\ \A i \in 1 .. Len(a) : c[i] = a[i]
  /\ \A i \in 1 .. Len(b) : c[Len(a) + i] = b[i]
  /\ \A i \in 1 .. Len(c) : i \in 1 .. Len(a) \/ \E k \in 1 .. Len(b) : i = Len(a) + k

\* What \o does.
LEMMA ConcatIndices ==
  ASSUME NEW a, NEW b, IsSequence(a), IsSequence(b)
  PROVE  Joined(a \o b, a, b)
<1>1. PICK A : a \in Seq(A)
  BY DEF IsSequence
<1>2. PICK B : b \in Seq(B)
  BY DEF IsSequence
<1>3. a \in Seq(A \cup B) /\ b \in Seq(A \cup B)
  <2>1. Seq(A) \subseteq Seq(A \cup B) /\ Seq(B) \subseteq Seq(A \cup B)
    OBVIOUS
  <2> QED BY <1>1, <1>2, <2>1
<1>4. a \o b \in Seq(A \cup B) /\ Len(a \o b) = Len(a) + Len(b)
  BY <1>3
<1>5. /\ \A i \in 1 .. Len(a) : (a \o b)[i] = a[i]
      /\ \A i \in 1 .. Len(b) : (a \o b)[Len(a) + i] = b[i]
  BY <1>3
<1>6. ASSUME NEW i \in 1 .. Len(a \o b), i \notin 1 .. Len(a)
      PROVE  \E k \in 1 .. Len(b) : i = Len(a) + k
  <2>1. i - Len(a) \in 1 .. Len(b) /\ i = Len(a) + (i - Len(a))
    BY <1>3, <1>4, <1>6
  <2> QED BY <2>1
<1> QED BY <1>3, <1>4, <1>5, <1>6 DEF IsSequence, Joined

\* Concatenations keep options general.
LEMMA GeneralConcat ==
  ASSUME NEW a, NEW b, General(a), General(b)
  PROVE  /\ General(a \o b)
         /\ DirBefore(a) \/ (NoPassword(a) /\ DirBefore(b)) => DirBefore(a \o b)
<1> DEFINE c == a \o b
<1>0. Joined(c, a, b)
  BY ConcatIndices DEF General, Options
<1> HIDE DEF c
<1>1. /\ IsSequence(c) /\ Len(a) \in Nat /\ Len(b) \in Nat
      /\ Len(c) = Len(a) + Len(b)
      /\ \A i \in 1 .. Len(a) : c[i] = a[i]
      /\ \A i \in 1 .. Len(b) : c[Len(a) + i] = b[i]
      /\ \A i \in 1 .. Len(c) : i \in 1 .. Len(a) \/ \E k \in 1 .. Len(b) : i = Len(a) + k
  BY <1>0 DEF Joined
<1>2. General(c)
  <2>1. ASSUME NEW i \in 1 .. Len(c)
        PROVE  \/ \E k \in 1 .. Len(a) : c[i] = a[k]
               \/ \E k \in 1 .. Len(b) : c[i] = b[k]
    BY <1>1
  <2>2. IsSequence(c) /\ \A i \in 1 .. Len(c) : IsOption(c[i])
    <3>1. \A i \in 1 .. Len(a) : IsOption(a[i])
      BY DEF General, Options
    <3>2. \A i \in 1 .. Len(b) : IsOption(b[i])
      BY DEF General, Options
    <3> QED BY <1>1, <2>1, <3>1, <3>2
  <2>3. /\ \A i \in 1 .. Len(c) : \A f \in Own : ~ Sets(c[i], f)
        /\ \A i \in 1 .. Len(c) :
             c[i].kind = "shared" /\ c[i].name = "datadir" => c[i].value = "/data"
    BY <2>1 DEF General
  <2> QED BY <2>2, <2>3 DEF General, Options
<1>3. ASSUME DirBefore(a) PROVE DirBefore(c)
  <2>1. PICK i \in 1 .. Len(a) : /\ a[i].kind = "shared" /\ a[i].name = "datadir"
                                 /\ \A j \in 1 .. i : a[j].kind # "password"
    BY <1>3 DEF DirBefore
  <2>2. i \in 1 .. Len(c) /\ \A j \in 1 .. i : c[j] = a[j]
    BY <1>1
  <2> QED BY <2>1, <2>2 DEF DirBefore
<1>4. ASSUME NoPassword(a), DirBefore(b) PROVE DirBefore(c)
  <2>1. PICK i \in 1 .. Len(b) : /\ b[i].kind = "shared" /\ b[i].name = "datadir"
                                 /\ \A j \in 1 .. i : b[j].kind # "password"
    BY <1>4 DEF DirBefore
  <2>2. Len(a) + i \in 1 .. Len(c) /\ c[Len(a) + i] = b[i]
    BY <1>1
  <2>3. ASSUME NEW j \in 1 .. Len(a) + i PROVE c[j].kind # "password"
    <3>1. CASE j \in 1 .. Len(a)
      BY <1>1, <1>4, <3>1 DEF NoPassword
    <3>2. CASE j \notin 1 .. Len(a)
      <4> DEFINE k == j - Len(a)
      <4>1. k \in 1 .. i /\ j = Len(a) + k /\ k \in 1 .. Len(b)
        BY <1>1, <3>2
      <4> HIDE DEF k
      <4> QED BY <1>1, <2>1, <4>1
    <3> QED BY <3>1, <3>2
  <2> QED BY <2>1, <2>2, <2>3 DEF DirBefore
<1> QED BY <1>2, <1>3, <1>4 DEF c

GeneralOption(o) ==
  /\ IsOption(o) /\ \A f \in Own : ~ Sets(o, f)
  /\ o.kind = "shared" /\ o.name = "datadir" => o.value = "/data"

\* The kinds of options that are general.
LEMMA GeneralOptions ==
  /\ \A name \in (Fields \ Own) : \A value : GeneralOption(Field(name, value)) /\ Field(name, value).kind = "field"
  /\ \A name \in Flags : \A value : GeneralOption(Flag(name, value))
  /\ GeneralOption(DataDir("/data")) /\ DataDir("/data").kind = "shared" /\ DataDir("/data").name = "datadir"
  /\ \A file : GeneralOption(Password(file))
BY DEF GeneralOption, IsOption, Fields, Flags, Shared, Own, Sets, Field, Flag, SharedFlag, DataDir, Password

\* A list of them is.
LEMMA GeneralSeq ==
  ASSUME NEW S, \A o \in S : GeneralOption(o), NEW s \in Seq(S)
  PROVE  General(s)
<1>1. IsSequence(s)
  BY DEF IsSequence
<1>2. \A i \in 1 .. Len(s) : GeneralOption(s[i])
  OBVIOUS
<1> QED BY <1>1, <1>2 DEF General, Options, GeneralOption

Values == {"on", "0", "1", "0.0.0.0", "all", "some", "*", "any", "full", "1a9a"}

\* The lists of the code.
LEMMA GeneralLists ==
  /\ General(CommonOpts) /\ DirBefore(CommonOpts)
  /\ General(ExternalOpts) /\ DirBefore(ExternalOpts)
  /\ General(<<Network>>) /\ NoPassword(<<Network>>)
  /\ General(IsSmiloOpt) /\ General(<<Switch("nousb"), Network>>)
  /\ General(<<Flag("faultymode", "1")>>)
  /\ \A tag : General(ImageOpts(tag)) /\ NoPassword(ImageOpts(tag))
  /\ General(<<>>)
<1>a. PICK G :
        /\ \A o \in G : GeneralOption(o)
        /\ \A name \in Flags, value \in Values : Flag(name, value) \in G
        /\ {DataDir("/data"), Password("password.txt"), Network} \subseteq G
  <2> DEFINE F == {Flag(p[1], p[2]) : p \in Flags \X Values}
             E == {DataDir("/data"), Password("password.txt"), Network}
  <2>1. GeneralOption(Network)
    BY GeneralOptions DEF Network, Fields, Own
  <2>2. \A o \in F : GeneralOption(o)
    BY GeneralOptions
  <2>3. \A o \in E : GeneralOption(o)
    BY <2>1, GeneralOptions
  <2>4. ASSUME NEW name \in Flags, NEW value \in Values PROVE Flag(name, value) \in F
    <3>1. <<name, value>> \in Flags \X Values /\ <<name, value>>[1] = name /\ <<name, value>>[2] = value
      OBVIOUS
    <3> QED BY <3>1
  <2> HIDE DEF F, E
  <2>5. (\A o \in F \cup E : GeneralOption(o)) /\ E \subseteq F \cup E
    BY <2>2, <2>3
  <2> QED BY <2>4, <2>5 DEF E
<1>1. \A o \in G : GeneralOption(o)
  BY <1>a
<1>2. \A name \in Flags, value \in Values : Flag(name, value) \in G
  BY <1>a
<1>d. DataDir("/data") \in G
  BY <1>a
<1>p. Password("password.txt") \in G
  BY <1>a
<1>n. Network \in G
  BY <1>a
<1>3. CommonOpts \in Seq(G) /\ Len(CommonOpts) = 16 /\ CommonOpts[1] = DataDir("/data")
  BY <1>2, <1>d, <1>p DEF CommonOpts, Flags, Values, Flag, Switch, DataDir, SharedFlag, Password
<1>4. General(CommonOpts) /\ DirBefore(CommonOpts)
  <2>1. /\ 1 \in 1 .. Len(CommonOpts)
        /\ CommonOpts[1].kind = "shared" /\ CommonOpts[1].name = "datadir"
        /\ \A j \in 1 .. 1 : CommonOpts[j].kind # "password"
    BY <1>3, GeneralOptions
  <2>2. DirBefore(CommonOpts)
    BY <2>1 DEF DirBefore
  <2> QED BY <1>1, <1>3, <2>2, GeneralSeq
<1>5. ASSUME NEW tag PROVE General(ImageOpts(tag)) /\ NoPassword(ImageOpts(tag)) /\ Len(ImageOpts(tag)) = 2
  <2> DEFINE a == Field("imageRepository", "go-smilo")
             b == Field("imageTag", tag)
             S == {a, b}
  <2>1. GeneralOption(a) /\ GeneralOption(b) /\ a.kind = "field" /\ b.kind = "field"
    BY GeneralOptions DEF Fields, Own
  <2> HIDE DEF a, b
  <2>2. <<a, b>> \in Seq(S) /\ Len(<<a, b>>) = 2 /\ <<a, b>>[1] = a /\ <<a, b>>[2] = b
    OBVIOUS
  <2>3. \A o \in S : GeneralOption(o)
    BY <2>1
  <2>4. General(<<a, b>>)
    <3> HIDE DEF S
    <3> QED BY <2>2, <2>3, GeneralSeq
  <2>5. NoPassword(<<a, b>>)
    BY <2>1, <2>2 DEF NoPassword
  <2> QED BY <2>2, <2>4, <2>5 DEF ImageOpts, a, b
<1>6. General(ExternalOpts) /\ DirBefore(ExternalOpts)
  <2> DEFINE t == <<DataDir("/data"), Switch("ws"), Flag("wsaddr", "0.0.0.0"), Flag("wsapi", "some"),
                    Flag("wsorigins", "*"), Flag("nat", "any")>>
  <2>1. t \in Seq(G) /\ Len(t) = 6 /\ t[1] = DataDir("/data")
    BY <1>2, <1>d DEF Flags, Values, Flag, Switch, DataDir, SharedFlag
  <2>2. ExternalOpts = ImageOpts("latest") \o t
    BY DEF ExternalOpts
  <2> HIDE DEF t
  <2>3. General(t)
    BY <1>1, <2>1, GeneralSeq
  <2>4. DirBefore(t)
    <3>1. /\ 1 \in 1 .. Len(t) /\ t[1].kind = "shared" /\ t[1].name = "datadir"
          /\ \A j \in 1 .. 1 : t[j].kind # "password"
      BY <2>1, GeneralOptions
    <3> QED BY <3>1 DEF DirBefore
  <2> QED BY <1>5, <2>2, <2>3, <2>4, GeneralConcat
<1>7. General(<<Network>>) /\ NoPassword(<<Network>>)
  <2>1. <<Network>> \in Seq(G) /\ Len(<<Network>>) = 1 /\ <<Network>>[1] = Network
    BY <1>n
  <2>2. Network.kind = "field"
    BY DEF Network, Field
  <2>3. NoPassword(<<Network>>)
    BY <2>1, <2>2 DEF NoPassword
  <2> QED BY <1>1, <2>1, <2>3, GeneralSeq
<1>8. General(IsSmiloOpt)
  <2> DEFINE o == Field("isSmilo", TRUE)
  <2>1. GeneralOption(o)
    BY GeneralOptions DEF Fields, Own
  <2> HIDE DEF o
  <2>2. General(<<o>>)
    <3>1. <<o>> \in Seq({o}) /\ \A x \in {o} : GeneralOption(x)
      BY <2>1
    <3> QED BY <3>1, GeneralSeq
  <2> QED BY <2>2 DEF IsSmiloOpt, o
<1>9. General(<<Switch("nousb"), Network>>)
  <2>1. <<Switch("nousb"), Network>> \in Seq(G)
    BY <1>2, <1>n DEF Flags, Values, Flag, Switch, Network, Field
  <2> QED BY <1>1, <2>1, GeneralSeq
<1>10. General(<<Flag("faultymode", "1")>>)
  <2>1. <<Flag("faultymode", "1")>> \in Seq(G)
    BY <1>2 DEF Flags, Values, Flag, Switch
  <2> QED BY <1>1, <2>1, GeneralSeq
<1>11. General(<<>>)
  <2>1. <<>> \in Seq(G)
    OBVIOUS
  <2> QED BY <1>1, <2>1, GeneralSeq
<1> QED BY <1>4, <1>5, <1>6, <1>7, <1>8, <1>9, <1>10, <1>11

\* What the constructors give to all their nodes.
LEMMA GeneralChainOpts ==
  ASSUME NEW k \in AllKinds, NEW o
  PROVE  General(ChainOpts(k, o)) /\ DirBefore(ChainOpts(k, o))
<1> USE GeneralLists
<1>1. General(ImageOpts("latest") \o CommonOpts) /\ DirBefore(ImageOpts("latest") \o CommonOpts)
  BY GeneralConcat
<1>2. /\ General(ImageOpts("latest") \o CommonOpts \o IsSmiloOpt)
      /\ DirBefore(ImageOpts("latest") \o CommonOpts \o IsSmiloOpt)
  BY <1>1, GeneralConcat
<1>3. General(<<Network>> \o CommonOpts) /\ DirBefore(<<Network>> \o CommonOpts)
  BY GeneralConcat
<1>4. CASE k = "New"
  <2>1. ChainOpts(k, o) = ImageOpts("latest") \o CommonOpts \o IsSmiloOpt \o <<Network>>
    BY <1>4 DEF ChainOpts
  <2> QED BY <1>2, <2>1, GeneralConcat
<1>5. CASE k = "NewSmilo"
  <2>1. ChainOpts(k, o) = ImageOpts("latest") \o CommonOpts \o IsSmiloOpt \o IsSmiloOpt
                            \o <<Switch("nousb"), Network>>
    BY <1>5 DEF ChainOpts
  <2>2. /\ General(ImageOpts("latest") \o CommonOpts \o IsSmiloOpt \o IsSmiloOpt)
        /\ DirBefore(ImageOpts("latest") \o CommonOpts \o IsSmiloOpt \o IsSmiloOpt)
    BY <1>2, GeneralConcat
  <2> QED BY <2>1, <2>2, GeneralConcat
<1>6. CASE k \notin {"New", "NewSmilo"}
  <2> DEFINE smilo == IF k = "SmiloWithFaulty" THEN IsSmiloOpt ELSE <<>>
             image == IF o = "normal" THEN ImageOpts("latest")
                      ELSE ImageOpts("regression_test") \o <<Flag("faultymode", "1")>>
  <2>1. ChainOpts(k, o) = <<Network>> \o CommonOpts \o smilo \o image
    BY <1>6 DEF ChainOpts
  <2>2. General(smilo)
    OBVIOUS
  <2>3. General(image)
    <3>1. General(ImageOpts("regression_test") \o <<Flag("faultymode", "1")>>)
      BY GeneralConcat
    <3> QED BY <3>1
  <2> HIDE DEF smilo, image
  <2>4. General(<<Network>> \o CommonOpts \o smilo) /\ DirBefore(<<Network>> \o CommonOpts \o smilo)
    BY <1>3, <2>2, GeneralConcat
  <2> QED BY <2>1, <2>3, <2>4, GeneralConcat
<1> QED BY <1>4, <1>5, <1>6

\* Its data directory is what its flags say.
DataNode(n) ==
  /\ Draft(n) /\ n.utils["datadir"] = "/data" /\ FlagsSay(n.flags, "/data")
  /\ \E i \in 1 .. Len(n.flags) : n.flags[i][1] = "datadir"

\* The options of t, fields all, have been the last.
OwnNode(n, t) ==
  /\ DataNode(n)
  /\ \A i \in 1 .. Len(t) :
       (\A j \in i + 1 .. Len(t) : t[j].name # t[i].name) => n.eth[t[i].name] = t[i].value
  /\ \A f \in Own : (\A i \in 1 .. Len(t) : t[i].name # f) => n.eth[f] = Unset

\* The fields of a node of a chain are those of its own options, whatever the
\* general ones have been.
LEMMA OwnOptions ==
  ASSUME NEW general, General(general), DirBefore(general),
         NEW utils, DOMAIN utils = Shared,
         NEW t, IsSequence(t), \A i \in 1 .. Len(t) : t[i].kind = "field" /\ t[i].name \in Fields
  PROVE  OwnNode(NewEthereum(general \o t, utils), t)
<1> DEFINE m == Len(general)
           options == general \o t
           n == NewEthereum(options, utils)
<1>1. /\ IsSequence(options) /\ m \in Nat /\ Len(t) \in Nat /\ Len(options) = m + Len(t)
      /\ \A i \in 1 .. m : options[i] = general[i]
      /\ \A i \in 1 .. Len(t) : options[m + i] = t[i]
      /\ \A i \in 1 .. Len(options) : i \in 1 .. m \/ \E k \in 1 .. Len(t) : i = m + k
  <2>1. IsSequence(general)
    BY DEF General, Options
  <2>2. Joined(options, general, t)
    BY <2>1, ConcatIndices
  <2> HIDE DEF options
  <2> QED BY <2>2 DEF Joined
<1> HIDE DEF m, options
<1>2. Options(options)
  <2>1. \A i \in 1 .. m : IsOption(options[i])
    BY <1>1 DEF General, Options, m
  <2>2. \A k \in 1 .. Len(t) : IsOption(options[m + k])
    BY <1>1 DEF IsOption
  <2> QED BY <1>1, <2>1, <2>2 DEF Options
<1>3. DirFirst(options, "/data")
  <2>1. \A i \in 1 .. m : options[i].kind = "shared" /\ options[i].name = "datadir" => options[i].value = "/data"
    BY <1>1 DEF General, m
  <2>2. \A k \in 1 .. Len(t) : options[m + k].kind = "field"
    BY <1>1
  <2>3. PICK i \in 1 .. m : /\ general[i].kind = "shared" /\ general[i].name = "datadir"
                            /\ \A j \in 1 .. i : general[j].kind # "password"
    BY DEF DirBefore, m
  <2>4. i \in 1 .. Len(options) /\ \A j \in 1 .. i : j \in 1 .. m /\ options[j] = general[j]
    BY <1>1
  <2>5. /\ options[i].kind = "shared" /\ options[i].name = "datadir"
        /\ \A j \in 1 .. i : options[j].kind # "password"
    BY <2>3, <2>4
  <2> QED BY <1>1, <2>1, <2>2, <2>4, <2>5 DEF DirFirst
<1>4. /\ Draft(n) /\ n.utils["datadir"] = "/data" /\ FlagsSay(n.flags, "/data")
      /\ \E i \in 1 .. Len(n.flags) : n.flags[i][1] = "datadir"
  BY <1>2, <1>3, DirEverywhere
<1>5. ASSUME NEW i \in 1 .. Len(t), \A j \in i + 1 .. Len(t) : t[j].name # t[i].name
      PROVE  n.eth[t[i].name] = t[i].value
  <2>1. m + i \in 1 .. Len(options) /\ options[m + i] = t[i] /\ t[i].name \in Fields
    BY <1>1
  <2>2. Sets(options[m + i], t[i].name)
    BY <2>1 DEF Sets
  <2>3. ASSUME NEW j \in m + i + 1 .. Len(options) PROVE ~ Sets(options[j], t[i].name)
    <3> DEFINE k == j - m
    <3>1. k \in i + 1 .. Len(t) /\ j = m + k /\ k \in 1 .. Len(t)
      BY <1>1
    <3> HIDE DEF k
    <3>2. options[j] = t[k]
      BY <1>1, <3>1
    <3> QED BY <1>5, <3>1, <3>2 DEF Sets
  <2> DEFINE k == m + i
             f == t[i].name
  <2>4. k \in 1 .. Len(options) /\ f \in Fields /\ Sets(options[k], f)
    BY <2>1, <2>2
  <2>5. \A j \in k + 1 .. Len(options) : ~ Sets(options[j], f)
    BY <2>3
  <2>6. options[k].value = t[i].value
    BY <2>1
  <2> HIDE DEF k, f, n
  <2>7. n.eth[f] = options[k].value
    BY <1>2, <2>4, <2>5, LastSets DEF n
  <2> QED BY <2>6, <2>7 DEF f
<1>6. ASSUME NEW f \in Own, \A i \in 1 .. Len(t) : t[i].name # f
      PROVE  n.eth[f] = Unset
  <2>1. f \in Fields
    BY DEF Own, Fields
  <2>2. \A i \in 1 .. m : ~ Sets(options[i], f)
    BY <1>1 DEF General, m
  <2>3. \A k \in 1 .. Len(t) : ~ Sets(options[m + k], f)
    BY <1>1, <1>6 DEF Sets
  <2>4. \A i \in 1 .. Len(options) : ~ Sets(options[i], f)
    BY <1>1, <2>2, <2>3
  <2> QED BY <1>2, <2>1, <2>4, NobodySets
<1> HIDE DEF n
<1>7. OwnNode(n, t)
  BY <1>4, <1>5, <1>6 DEF OwnNode, DataNode
<1> QED BY <1>7 DEF n, options

\* Concatenation is associative.
LEMMA ConcatAssoc ==
  ASSUME NEW a, NEW b, NEW c, IsSequence(a), IsSequence(b), IsSequence(c)
  PROVE  (a \o b) \o c = a \o (b \o c)
<1>1. PICK A : a \in Seq(A)
  BY DEF IsSequence
<1>2. PICK B : b \in Seq(B)
  BY DEF IsSequence
<1>3. PICK C : c \in Seq(C)
  BY DEF IsSequence
<1> DEFINE S == A \cup B \cup C
<1>4. Seq(A) \subseteq Seq(S) /\ Seq(B) \subseteq Seq(S) /\ Seq(C) \subseteq Seq(S)
  OBVIOUS
<1>5. a \in Seq(S) /\ b \in Seq(S) /\ c \in Seq(S)
  BY <1>1, <1>2, <1>3, <1>4
<1> HIDE DEF S
<1> QED BY <1>5

\* A node of a chain.
LEMMA ChainNode ==
  ASSUME NEW general, General(general), DirBefore(general),
         NEW utils, DOMAIN utils = Shared,
         NEW dir, NEW port, NEW ip, NEW key, NEW account, NEW vault, NEW smilo \in BOOLEAN
  PROVE  LET n == NewEthereum(general
                    \o <<Field("dataDir", dir), Field("wsPort", port), Field("ip", ip)>>
                    \o <<Field("key", key), Field("accounts", account)>>
                    \o (IF smilo THEN <<Field("dockerEnv", vault), Field("dockerBinds", vault)>>
                        ELSE <<>>), utils)
         IN
         /\ DataNode(n)
         /\ n.eth["dataDir"] = dir /\ n.eth["ip"] = ip
         /\ n.eth["key"] = key /\ n.eth["accounts"] = account
         /\ smilo => n.eth["dockerEnv"] = vault /\ n.eth["dockerBinds"] = vault
<1> DEFINE o1 == Field("dataDir", dir)
           o2 == Field("wsPort", port)
           o3 == Field("ip", ip)
           o4 == Field("key", key)
           o5 == Field("accounts", account)
           o6 == Field("dockerEnv", vault)
           o7 == Field("dockerBinds", vault)
           v == IF smilo THEN <<o6, o7>> ELSE <<>>
           t == (<<o1, o2, o3>> \o <<o4, o5>>) \o v
           options == ((general \o <<o1, o2, o3>>) \o <<o4, o5>>) \o v
           n == NewEthereum(options, utils)
<1>1. /\ o1.kind = "field" /\ o1.name = "dataDir" /\ o1.value = dir
      /\ o2.kind = "field" /\ o2.name = "wsPort" /\ o2.value = port
      /\ o3.kind = "field" /\ o3.name = "ip" /\ o3.value = ip
      /\ o4.kind = "field" /\ o4.name = "key" /\ o4.value = key
      /\ o5.kind = "field" /\ o5.name = "accounts" /\ o5.value = account
      /\ o6.kind = "field" /\ o6.name = "dockerEnv" /\ o6.value = vault
      /\ o7.kind = "field" /\ o7.name = "dockerBinds" /\ o7.value = vault
  BY DEF Field
<1> SUFFICES /\ DataNode(n)
             /\ n.eth["dataDir"] = dir /\ n.eth["ip"] = ip
             /\ n.eth["key"] = key /\ n.eth["accounts"] = account
             /\ smilo => n.eth["dockerEnv"] = vault /\ n.eth["dockerBinds"] = vault
  OBVIOUS
<1> HIDE DEF o1, o2, o3, o4, o5, o6, o7
<1> DEFINE a == <<o1, o2, o3>>
           b == <<o4, o5>>
<1>2. /\ IsSequence(a) /\ Len(a) = 3 /\ a[1] = o1 /\ a[2] = o2 /\ a[3] = o3
      /\ IsSequence(b) /\ Len(b) = 2 /\ b[1] = o4 /\ b[2] = o5
  <2> DEFINE S == {o1, o2, o3, o4, o5}
  <2>1. a \in Seq(S) /\ b \in Seq(S)
    OBVIOUS
  <2>2. IsSequence(a) /\ IsSequence(b)
    <3> HIDE DEF S, a, b
    <3> QED BY <2>1 DEF IsSequence
  <2> QED BY <2>2
<1>3. /\ IsSequence(v) /\ Len(v) = IF smilo THEN 2 ELSE 0
      /\ smilo => v[1] = o6 /\ v[2] = o7
  <2> DEFINE S == {o6, o7}
  <2>1. <<o6, o7>> \in Seq(S) /\ <<>> \in Seq(S)
    OBVIOUS
  <2>2. v \in Seq(S)
    BY <2>1
  <2>3. IsSequence(v)
    <3> HIDE DEF S, v
    <3> QED BY <2>2 DEF IsSequence
  <2> QED BY <2>3
<1> HIDE DEF a, b, v
<1>4. /\ IsSequence(a \o b) /\ Len(a \o b) = 5
      /\ (a \o b)[1] = o1 /\ (a \o b)[2] = o2 /\ (a \o b)[3] = o3
      /\ (a \o b)[4] = o4 /\ (a \o b)[5] = o5
  <2>1. /\ IsSequence(a \o b) /\ Len(a \o b) = 3 + 2
        /\ \A i \in 1 .. 3 : (a \o b)[i] = a[i]
        /\ \A i \in 1 .. 2 : (a \o b)[3 + i] = b[i]
    <3>1. Joined(a \o b, a, b)
      BY <1>2, ConcatIndices
    <3> DEFINE c == a \o b
    <3> HIDE DEF c
    <3> QED BY <1>2, <3>1 DEF c, Joined
  <2> QED BY <1>2, <2>1
<1>5. IsSequence(general)
  BY DEF General, Options
<1>6. options = general \o t
  <2>a. IsSequence(a) /\ IsSequence(b)
    BY <1>2
  <2>b. IsSequence(a \o b) /\ IsSequence(v)
    BY <1>3, <1>4
  <2>1. (general \o a) \o b = general \o (a \o b)
    BY <1>5, <2>a, ConcatAssoc
  <2>2. (general \o (a \o b)) \o v = general \o ((a \o b) \o v)
    BY <1>5, <2>b, ConcatAssoc, SMTT(30)
  <2> QED BY <2>1, <2>2 DEF a, b
<1>7. /\ IsSequence(t) /\ Len(t) = IF smilo THEN 7 ELSE 5
      /\ t[1] = o1 /\ t[2] = o2 /\ t[3] = o3 /\ t[4] = o4 /\ t[5] = o5
      /\ smilo => t[6] = o6 /\ t[7] = o7
  <2> DEFINE c == a \o b
  <2>1. t = c \o v
    BY DEF a, b
  <2> HIDE DEF c, t
  <2>2. /\ IsSequence(t) /\ Len(t) = 5 + Len(v)
        /\ \A i \in 1 .. 5 : t[i] = c[i]
        /\ \A i \in 1 .. Len(v) : t[5 + i] = v[i]
    <3>1. Joined(c \o v, c, v)
      BY <1>3, <1>4, ConcatIndices DEF c
    <3> DEFINE d == c \o v
    <3> HIDE DEF d
    <3> QED BY <1>3, <1>4, <2>1, <3>1 DEF c, d, Joined
  <2>3. /\ t[1] = c[1] /\ t[2] = c[2] /\ t[3] = c[3] /\ t[4] = c[4] /\ t[5] = c[5]
        /\ smilo => t[5 + 1] = v[1] /\ t[5 + 2] = v[2]
    BY <1>3, <2>2
  <2> QED BY <1>3, <1>4, <2>2, <2>3 DEF c
<1> HIDE DEF t, options
<1>8. \A i \in 1 .. Len(t) :
        \/ i = 1 \/ i = 2 \/ i = 3 \/ i = 4 \/ i = 5 \/ (smilo /\ (i = 6 \/ i = 7))
  BY <1>7
<1>9. \A i \in 1 .. Len(t) : t[i].kind = "field" /\ t[i].name \in Fields
  BY <1>1, <1>7, <1>8 DEF Fields
<1>10. OwnNode(n, t)
  <2>1. n = NewEthereum(general \o t, utils)
    BY <1>6
  <2> HIDE DEF n
  <2> QED BY <2>1, OwnOptions, <1>7, <1>9
<1>11. \A i, j \in 1 .. Len(t) : i # j => t[i].name # t[j].name
  BY <1>1, <1>7, <1>8
<1>12. \A i \in 1 .. Len(t) : n.eth[t[i].name] = t[i].value
  <2> SUFFICES ASSUME NEW i \in 1 .. Len(t) PROVE \A j \in i + 1 .. Len(t) : t[j].name # t[i].name
    BY <1>10 DEF OwnNode
  <2>1. Len(t) \in Nat
    BY <1>7
  <2>2. \A j \in i + 1 .. Len(t) : j \in 1 .. Len(t) /\ i # j
    BY <2>1
  <2> QED BY <1>11, <2>2
<1>13. /\ 1 \in 1 .. Len(t) /\ 3 \in 1 .. Len(t) /\ 4 \in 1 .. Len(t) /\ 5 \in 1 .. Len(t)
       /\ smilo => 6 \in 1 .. Len(t) /\ 7 \in 1 .. Len(t)
  BY <1>7
<1>14. /\ n.eth["dataDir"] = dir /\ n.eth["ip"] = ip
       /\ n.eth["key"] = key /\ n.eth["accounts"] = account
       /\ smilo => n.eth["dockerEnv"] = vault /\ n.eth["dockerBinds"] = vault
  <2> HIDE DEF n
  <2> QED BY <1>1, <1>7, <1>12, <1>13
<1> QED BY <1>10, <1>14 DEF OwnNode

\* A node that CreateNodes makes has no key and no accounts of the chain.
LEMMA ExternalNode ==
  ASSUME NEW utils, DOMAIN utils = Shared, NEW dir, NEW port, NEW ip
  PROVE  LET n == NewEthereum(ExternalOpts
                    \o <<Field("dataDir", dir), Field("wsPort", port), Field("ip", ip)>>
                    \o <<Network>>, utils)
         IN
         /\ DataNode(n)
         /\ n.eth["dataDir"] = dir /\ n.eth["ip"] = ip /\ n.eth["key"] = Unset
<1> DEFINE o1 == Field("dataDir", dir)
           o2 == Field("wsPort", port)
           o3 == Field("ip", ip)
           o4 == Network
           t == <<o1, o2, o3>> \o <<o4>>
           options == (ExternalOpts \o <<o1, o2, o3>>) \o <<o4>>
           n == NewEthereum(options, utils)
<1>1. /\ o1.kind = "field" /\ o1.name = "dataDir" /\ o1.value = dir
      /\ o2.kind = "field" /\ o2.name = "wsPort" /\ o2.value = port
      /\ o3.kind = "field" /\ o3.name = "ip" /\ o3.value = ip
      /\ o4.kind = "field" /\ o4.name = "dockerNetworkName"
  BY DEF Field, Network
<1> SUFFICES /\ DataNode(n)
             /\ n.eth["dataDir"] = dir /\ n.eth["ip"] = ip /\ n.eth["key"] = Unset
  OBVIOUS
<1> HIDE DEF o1, o2, o3, o4
<1> DEFINE a == <<o1, o2, o3>>
           b == <<o4>>
<1>2. /\ IsSequence(a) /\ Len(a) = 3 /\ a[1] = o1 /\ a[2] = o2 /\ a[3] = o3
      /\ IsSequence(b) /\ Len(b) = 1 /\ b[1] = o4
  <2> DEFINE S == {o1, o2, o3, o4}
  <2>1. a \in Seq(S) /\ b \in Seq(S)
    OBVIOUS
  <2>2. IsSequence(a) /\ IsSequence(b)
    <3> HIDE DEF S, a, b
    <3> QED BY <2>1 DEF IsSequence
  <2> QED BY <2>2
<1>3. t = a \o b
  OBVIOUS
<1> HIDE DEF a, b, t
<1>4. General(ExternalOpts) /\ DirBefore(ExternalOpts)
  BY GeneralLists
<1>5. options = ExternalOpts \o t
  BY <1>2, <1>3, <1>4, ConcatAssoc DEF General, Options, a, b
<1>6. IsSequence(t) /\ Len(t) = 4 /\ t[1] = o1 /\ t[2] = o2 /\ t[3] = o3 /\ t[4] = o4
  <2>1. /\ IsSequence(t) /\ Len(t) = 3 + 1
        /\ \A i \in 1 .. 3 : t[i] = a[i]
        /\ \A i \in 1 .. 1 : t[3 + i] = b[i]
    <3>1. Joined(a \o b, a, b)
      BY <1>2, ConcatIndices
    <3> DEFINE c == a \o b
    <3> HIDE DEF c
    <3> QED BY <1>2, <1>3, <3>1 DEF c, Joined
  <2> QED BY <1>2, <2>1
<1> HIDE DEF options
<1>7. \A i \in 1 .. Len(t) : i = 1 \/ i = 2 \/ i = 3 \/ i = 4
  BY <1>6
<1>8. \A i \in 1 .. Len(t) : t[i].kind = "field" /\ t[i].name \in Fields
  BY <1>1, <1>6, <1>7 DEF Fields
<1>9. OwnNode(n, t)
  <2>1. n = NewEthereum(ExternalOpts \o t, utils)
    BY <1>5
  <2> HIDE DEF n
  <2> QED BY <2>1, OwnOptions, <1>4, <1>6, <1>8
<1>10. /\ 1 \in 1 .. Len(t) /\ \A j \in 1 + 1 .. Len(t) : t[j].name # t[1].name
       /\ 3 \in 1 .. Len(t) /\ \A j \in 3 + 1 .. Len(t) : t[j].name # t[3].name
  <2>1. \A j \in 1 + 1 .. Len(t) : j = 2 \/ j = 3 \/ j = 4
    BY <1>6
  <2>2. \A j \in 3 + 1 .. Len(t) : j = 4
    BY <1>6
  <2> QED BY <1>1, <1>6, <2>1, <2>2
<1>11. "key" \in Own /\ \A i \in 1 .. Len(t) : t[i].name # "key"
  BY <1>1, <1>6, <1>7 DEF Own
<1> HIDE DEF n
<1>12. n.eth[t[1].name] = t[1].value /\ n.eth[t[3].name] = t[3].value /\ n.eth["key"] = Unset
  BY <1>9, <1>10, <1>11 DEF OwnNode
<1> QED BY <1>1, <1>6, <1>9, <1>12 DEF OwnNode

-----------------------------------------------------------------------------
(* The invariant of a chain                                                *)

Started == {"Start", "Stop", "Finalize"}

\* How many vaults there are: a chain has one for each of its nodes.
SizeInv ==
  /\ vpc = "idle" \/ vpc \in Making \cup {"starting", "stopping"}
  /\ vresult \in {"nil", "busy", "error", "panic"}
  /\ box \in {"none", "created", "running", "exited", "crashed"}
  /\ faults \in 0 .. MaxFaults
  /\ wanted \in VaultSizes \cup {0}
  /\ wanted = IF vcall = "none" THEN 0 ELSE Total
  /\ Len(vaults) <= wanted
  /\ vpc \in Making \ {"hosts", "vault"} => Len(vaults) < wanted
  /\ vcall \in Started \/ (vcall = "NewVaultNetwork" /\ vresult = "nil") => Len(vaults) = wanted
  /\ IsSmilo /\ ccall # "none" => vcall \in Started
  /\ dirs \subseteq 1 .. wanted

\* Nodes that have been set up, in this part of the constructor and before.
Position == FirstOfPart + index

HasIps == cpc \in {"keys", "genesis", "setup", "create"} \/ (cpc = "accounts" /\ TwoParts)

\* Where a call is, and what it has by then.
CallInv ==
  /\ kind \in Kinds /\ <<normal, faulty>> \in Shapes
  /\ (faulty > 0) <=> (kind \in FaultyKinds)
  /\ accounts \in Seq(Nat) /\ ips \in Seq(Nat) /\ keys \in Seq(Nat)
  /\ index \in Nat /\ opts \in {"normal", "faulty"} /\ fresh \in Nat \ {0}
  /\ cpc \in {"idle", "setup", "create"} \cup Earlier
  /\ ccall \in {"none", "New", "AddFullnodes", "CreateNodes", "Finalize"}
  /\ cresult \in {"nil", "busy", "error", "panic"}
  /\ count \in 0 .. Total + Excess /\ calls \in 0 .. MaxCalls
  /\ cpc # "idle" => ccall \in {"New", "AddFullnodes", "CreateNodes"} /\ count >= 1 /\ cresult = "busy"
  /\ cpc = "accounts" => Constructing
  /\ ccall = "CreateNodes" => cpc \in {"idle", "ips", "create"}
  /\ cpc = "create" => ccall = "CreateNodes" /\ index <= count
  /\ Constructing => count = Total
  /\ HasIps => Len(ips) = count
  /\ cpc \in {"keys", "genesis"} => index = 0
  /\ cpc \in {"genesis", "setup"} => Len(keys) \in {0, count}
  /\ cpc = "setup" => Position <= EndOfPart /\ (TwoParts => Len(keys) = count)
  /\ ccall = "none" \/ (Constructing /\ cpc \in Earlier) => index = 0 /\ opts = "normal"
  /\ opts = "faulty" => kind \in FaultyKinds

\* Addresses, keys and accounts are taken one by one.
Taken(s) ==
  /\ \A i \in 1 .. Len(s) : s[i] \in 1 .. fresh - 1
  /\ \A i, j \in 1 .. Len(s) : i # j => s[i] # s[j]
TakenInv == Taken(accounts) /\ Taken(ips) /\ Taken(keys)

\* Before the constructor has made accounts.
NoAccounts == \/ ccall = "none"
              \/ Constructing /\ (cpc = "accounts" \/ (cpc = "ips" /\ TwoParts))

\* The vaults and accounts are not for more nodes.
TooMany == ccall = "AddFullnodes" /\ count > Total

\* What a call has if nothing has failed.
FaultlessInv ==
  faults = 0 =>
    /\ vresult # "panic"
    /\ cresult = "panic" => TooMany
    /\ ~ NoAccounts => Len(accounts) = Total
    /\ cpc \in {"genesis", "setup"} => Len(keys) = count

Nodes == fullnodes \o created
FirstNodes == {"normal", "faulty"}

\* Nodes of the chain come before those that CreateNodes has made.
PartsInv ==
  /\ IsSequence(fullnodes) /\ IsSequence(created)
  /\ ccall \in {"none", "New", "AddFullnodes"} => created = <<>>
  /\ \A i \in 1 .. Len(Nodes) :
       /\ Nodes[i].role \in Roles
       /\ i <= Len(fullnodes) <=> Nodes[i].role # "CreateNodes"
  /\ ccall = "none" => fullnodes = <<>>
  /\ Constructing /\ cpc # "idle" => Len(fullnodes) = Position

\* Its container mounts what its flags say.
DataInv ==
  /\ DOMAIN lib = Shared
  /\ \A i \in 1 .. Len(Nodes) :
       LET n == Nodes[i] IN
       /\ lib["datadir"] = "/data" /\ n.mount = "/data"
       /\ DOMAIN n.eth = Fields /\ n.files \in BOOLEAN
       /\ IsSequence(n.flags) /\ FlagsSay(n.flags, "/data")
       /\ \E k \in 1 .. Len(n.flags) : n.flags[k][1] = "datadir"

Apart(a, b) ==
  /\ a["ip"] # b["ip"] /\ a["dataDir"] # b["dataDir"]
  /\ a["key"] # b["key"] \/ a["key"] = Unset

\* Nodes are apart from each other and from what the next ones will have.
ApartInv ==
  /\ \A i \in 1 .. Len(Nodes) :
       LET a == Nodes[i].eth IN
       /\ a["ip"] \in 1 .. fresh - 1 /\ a["dataDir"] \in 1 .. fresh - 1
       /\ a["key"] = Unset \/ a["key"] \in 1 .. fresh - 1
       /\ HasIps => \A k \in Position + 1 .. Len(ips) : a["ip"] # ips[k]
       /\ cpc \in {"genesis", "setup"} =>
            \A k \in Position + 1 .. Len(keys) : a["key"] = Unset \/ a["key"] # keys[k]
  /\ \A i, j \in 1 .. Len(Nodes) : i # j => Apart(Nodes[i].eth, Nodes[j].eth)

AccountOf(i) == IF i <= Len(accounts) THEN accounts[i] ELSE ZeroAccount

\* The faulty nodes take the vaults from the first again.
VaultOf(role, i) == IF role = "normal" THEN i ELSE i - normal

\* The nodes of the constructor have what comes in their place.
PlaceInv ==
  \A i \in 1 .. Len(Nodes) :
    LET n == Nodes[i] IN
    /\ n.role # "CreateNodes" => \E a \in ToSet(accounts) \cup {ZeroAccount} : n.eth["accounts"] = <<a>>
    /\ n.role # "CreateNodes" /\ faults = 0 =>
         n.files \/ (n.role = "AddFullnodes" /\ n.eth["accounts"] = <<ZeroAccount>>)
    /\ n.role \in FirstNodes =>
         /\ n.eth["accounts"] = <<AccountOf(i)>>
         /\ Constructing /\ cpc = "setup" => n.eth["key"] = keys[i]
    /\ IsSmilo /\ n.role \in FirstNodes =>
         /\ n.eth["dockerEnv"] = VaultOf(n.role, i) /\ n.eth["dockerBinds"] = VaultOf(n.role, i)

\* The genesis is made when the accounts and keys of the constructor are, before
\* there are nodes.
FileInv ==
  /\ DOMAIN genesis = {"file", "number", "fullnodes", "alloc", "smilo"}
  /\ genesis.smilo \in BOOLEAN /\ genesis.file \in {"file", "gone", "relative", NoFile}
  /\ genesis.file # NoFile => ToSet(accounts) \subseteq genesis.alloc
  /\ fullnodes # <<>> => genesis.file # NoFile
  /\ ccall = "none" \/ (Constructing /\ cpc \in Earlier) => genesis.file = NoFile
  /\ Constructing /\ cpc = "setup" =>
       genesis.fullnodes = ToSet(keys) /\ ToSet(keys) \subseteq genesis.alloc

\* It knows the nodes of the constructor.
FirstOnes == {i \in 1 .. Len(Nodes) : Nodes[i].role \in FirstNodes}
KnownInv ==
  /\ \A i \in FirstOnes : Nodes[i].eth["key"] \in genesis.alloc
  /\ Constructing => FirstOnes = 1 .. Len(Nodes)
  /\ Constructed /\ FirstOnes # {} => genesis.fullnodes = {Nodes[i].eth["key"] : i \in FirstOnes}

-----------------------------------------------------------------------------
(* Sizes, calls and what is taken                                          *)

\* The vaults hold their sizes at first, and in every step.
LEMMA SizeInvInit == Init => SizeInv
<1> SUFFICES ASSUME Init PROVE SizeInv
  OBVIOUS
<1>1. /\ vaults = <<>> /\ dirs = {} /\ box = "none" /\ vpc = "idle" /\ vresult = "nil"
      /\ vcall = "none" /\ wanted = 0 /\ faults = 0 /\ ccall = "none"
  BY DEF Init, VaultInit, ChainInit
<1>2. Len(vaults) = 0
  BY <1>1
<1> QED BY <1>1, <1>2, VaultAssumption DEF SizeInv, Started, Making

\* Every step keeps the number of vaults.
LEMMA SizeInvNext == VaultInv /\ SizeInv /\ [Next]_vars => SizeInv'
<1> SUFFICES ASSUME VaultInv, SizeInv, [Next]_vars PROVE SizeInv'
  OBVIOUS
<1>t. /\ vaults \in Seq(Vault) /\ Len(vaults) \in Nat /\ wanted \in Nat /\ MaxFaults \in Nat
      /\ faults \in Nat /\ PhaseInv
  BY VaultAssumption DEF VaultInv, PhaseInv, SizeInv
<1>f. Fault \/ NoFault => faults' \in 0 .. MaxFaults
  BY <1>t DEF Fault, NoFault, SizeInv
<1>1. CASE UNCHANGED vars
  BY <1>1 DEF SizeInv, vars, vaultVars, netVars, chainVars, input, Total, IsSmilo
<1>2. CASE Chain /\ UNCHANGED vaultVars
  <2>1. UNCHANGED <<normal, faulty, kind>> /\ (Fault \/ NoFault)
    BY <1>2 DEF Chain, Construct, Invoke, Finalize, GenerateAccounts, GetIPs, GenerateKeys,
       SetupGenesis, SetupFullnode, PartDone, CreateNode, CreateDone, At, input, InitFails
  <2>2. IsSmilo /\ ccall' # "none" => vcall \in Started
    <3>1. CASE Construct
      BY <3>1 DEF Construct, Started
    <3>2. CASE ~ Construct
      BY <1>2, <3>2 DEF SizeInv, Chain, Invoke, Finalize, GenerateAccounts, GetIPs, GenerateKeys,
         SetupGenesis, SetupFullnode, PartDone, CreateNode, CreateDone, At
    <3> QED BY <3>1, <3>2
  <2> QED BY <1>2, <1>f, <2>1, <2>2 DEF SizeInv, vaultVars, netVars, Total, IsSmilo
<1>3. CASE Vaults /\ UNCHANGED chainVars
  <2>1. UNCHANGED <<normal, faulty, kind, ccall>>
    BY <1>3 DEF chainVars, input
  <2>2. faults' \in 0 .. MaxFaults
    BY <1>3, <1>f DEF Vaults, NewVaultNetwork, StartVaults, StopVaults, FinalizeVaults,
       VaultSteps, WaitBoxFails, KeygenExits, VaultCrashes, GetFreeHosts, Prepare, SetupDone,
       CreateBox, StartBox, AttachBox, WaitBox, KillBox, RemoveBox, StartVault, StopVault
  <2>3. CASE IsSmilo /\ NewVaultNetwork(Total)
    <3>1. /\ vcall = "none" /\ vcall' = "NewVaultNetwork" /\ vresult' = "busy" /\ vpc' = "hosts"
          /\ wanted' = Total /\ UNCHANGED <<vaults, dirs, box>>
      BY <2>3 DEF NewVaultNetwork, VInvoke, netVars
    <3>2. Total \in VaultSizes /\ Total \in Nat
      BY ShapesAssumption, VaultAssumption DEF VaultInv, ShapeInv, Total
    <3>3. vaults = <<>> /\ Len(vaults) = 0
      BY <3>1 DEF VaultInv, PhaseInv
    <3>4. Total' = Total /\ IsSmilo' = IsSmilo
      BY <2>1 DEF Total, IsSmilo
    <3>5. ccall = "none" \/ ~ IsSmilo
      BY <3>1 DEF SizeInv, Started
    <3>6. dirs' \subseteq 1 .. Total
      BY <3>1 DEF SizeInv
    <3> QED
      BY <2>1, <2>2, <3>1, <3>2, <3>3, <3>4, <3>5, <3>6 DEF SizeInv, Making, Started
  <2>4. CASE StartVaults \/ StopVaults \/ FinalizeVaults
    <3>1. /\ UNCHANGED <<vaults, box, wanted>> /\ dirs' \subseteq dirs /\ vcall' \in Started
          /\ vcall \in Started \/ (vcall = "NewVaultNetwork" /\ vresult = "nil")
          /\ vpc' \in {"idle", "starting", "stopping"} /\ vresult' \in {"nil", "busy"}
      BY <2>4 DEF StartVaults, StopVaults, FinalizeVaults, VInvoke, netVars, Started
    <3> QED BY <2>1, <2>2, <3>1 DEF SizeInv, Making, Started, Total, IsSmilo
  <2>5. CASE VaultSteps \/ WaitBoxFails \/ KeygenExits \/ VaultCrashes
    <3>u. wanted' = wanted /\ Total' = Total /\ IsSmilo' = IsSmilo /\ vcall' = vcall
      BY <2>1, <2>5 DEF Total, IsSmilo, VaultSteps, WaitBoxFails, KeygenExits, VaultCrashes, VAt,
         GetFreeHosts, Prepare, SetupDone, CreateBox, StartBox, AttachBox, WaitBox, KillBox,
         RemoveBox, StartVault, StopVault
    <3>r. /\ vresult' \in {"nil", "busy", "error", "panic"}
          /\ vpc' \in Making \cup {"idle", "starting", "stopping"}
      BY <1>t, <2>5 DEF SizeInv, Making, VaultSteps, WaitBoxFails, KeygenExits, VaultCrashes, VAt,
         VGoto, VReturn, NextVault, EndLoop, StopFails,
         GetFreeHosts, Prepare, SetupDone, CreateBox, StartBox, AttachBox, WaitBox, KillBox,
         RemoveBox, StartVault, StopVault
    <3>b. box' \in {"none", "created", "running", "exited", "crashed"}
      BY <2>5 DEF SizeInv, VaultSteps, WaitBoxFails, KeygenExits, VaultCrashes, netVars,
         GetFreeHosts, Prepare, SetupDone, CreateBox, StartBox, AttachBox, WaitBox, KillBox,
         RemoveBox, StartVault, StopVault
    <3>s. IsSmilo' /\ ccall' # "none" => vcall' \in Started
      BY <2>1, <3>u DEF SizeInv
    <3>1. ASSUME Len(vaults') = Len(vaults), dirs' \subseteq 1 .. wanted,
                 vpc' \in Making \ {"hosts", "vault"} => Len(vaults) < wanted,
                 vcall = "NewVaultNetwork" /\ vresult' = "nil" => Len(vaults) = wanted
          PROVE  SizeInv'
      BY <2>2, <3>u, <3>r, <3>b, <3>s, <3>1 DEF SizeInv
    <3>2. CASE RemoveBox
      <4>1. /\ vpc = "remove" /\ vpc' = "vault" /\ UNCHANGED <<vresult, dirs>>
            /\ vaults' = Append(vaults, [keys |-> boxKeys, container |-> "none"])
        BY <3>2 DEF RemoveBox, VAt, VGoto
      <4>2. boxKeys = TRUE /\ vcall = "NewVaultNetwork" /\ vresult # "nil"
        BY <4>1 DEF VaultInv, PhaseInv, BoxInv, Making
      <4>3. [keys |-> boxKeys, container |-> "none"] \in Vault
        BY <4>2 DEF Vault, Containers
      <4>4. Len(vaults') = Len(vaults) + 1
        BY <1>t, <4>1, <4>3
      <4>5. Len(vaults) < wanted
        BY <4>1 DEF SizeInv, Making
      <4> QED
        BY <1>t, <2>2, <3>u, <3>r, <3>b, <3>s, <4>1, <4>2, <4>4, <4>5 DEF SizeInv, Started, Making
    <3>3. CASE Prepare
      <4>1. /\ vpc = "vault" /\ Len(vaults) < wanted /\ vaults' = vaults
            /\ dirs' \subseteq dirs \cup {Len(vaults) + 1}
            /\ vresult' # "nil" \/ vresult' = vresult
        BY <3>3 DEF Prepare, VAt, VGoto, VReturn, Number
      <4>2. vcall = "NewVaultNetwork" /\ vresult # "nil"
        BY <4>1 DEF VaultInv, PhaseInv, Making
      <4>3. dirs' \subseteq 1 .. wanted
        BY <1>t, <4>1 DEF SizeInv
      <4> QED BY <3>1, <4>1, <4>2, <4>3
    <3>4. CASE StartVault \/ StopVault \/ VaultCrashes
      <4>1. /\ vaults' = vaults \/ \E i \in 1 .. Len(vaults), state \in Containers : Become(i, state)
            /\ dirs' \subseteq dirs /\ vpc' \in {"idle", vpc}
            /\ vpc' = vpc \/ vcall \in {"Start", "Stop"}
            /\ vresult' = vresult \/ vcall \in {"Start", "Stop"}
        <5>1. CASE StartVault
          <6>1. vpc = "starting" /\ vcall = "Start" /\ vi \in 1 .. Len(vaults) /\ UNCHANGED dirs
            BY <1>t, <5>1 DEF StartVault, VAt, PhaseInv
          <6> QED BY <5>1, <6>1 DEF StartVault, NextVault, EndLoop, VGoto, VReturn, Containers
        <5>2. CASE StopVault
          <6>1. vpc = "stopping" /\ vcall = "Stop" /\ vi \in 1 .. Len(vaults)
            BY <1>t, <5>2 DEF StopVault, VAt, PhaseInv
          <6>2. dirs' \subseteq dirs
            BY <5>2 DEF StopVault, DirsAfter
          <6> QED BY <5>2, <6>1, <6>2
                  DEF StopVault, NextVault, EndLoop, StopFails, VGoto, VReturn, Containers
        <5>3. CASE VaultCrashes
          BY <1>t, <5>3 DEF VaultCrashes, Containers
        <5> QED BY <3>4, <5>1, <5>2, <5>3
      <4>2. Len(vaults') = Len(vaults)
        <5>1. ASSUME NEW i \in 1 .. Len(vaults), NEW state \in Containers, Become(i, state)
              PROVE  Len(vaults') = Len(vaults)
          BY <5>1, BecomeEffect
        <5> QED BY <4>1, <5>1
      <4>3. /\ vpc' \in Making \ {"hosts", "vault"} => Len(vaults) < wanted
            /\ vcall = "NewVaultNetwork" /\ vresult' = "nil" => Len(vaults) = wanted
        BY <4>1 DEF SizeInv, Making
      <4> QED BY <3>1, <4>1, <4>2, <4>3 DEF SizeInv
    <3>5. CASE \/ GetFreeHosts \/ SetupDone \/ CreateBox \/ StartBox \/ AttachBox \/ WaitBox
               \/ KillBox \/ WaitBoxFails \/ KeygenExits
      <4>1. /\ UNCHANGED <<vaults, dirs>>
            /\ vpc' \in Making \ {"hosts", "vault"} => vpc \in Making \ {"hosts", "vault"}
            /\ vresult' = "nil" => vresult = "nil" \/ (vpc = "vault" /\ Len(vaults) = wanted)
        BY <3>5 DEF VAt, VGoto, VReturn, netVars, Making, GetFreeHosts, SetupDone, CreateBox, StartBox,
           AttachBox, WaitBox, KillBox, WaitBoxFails, KeygenExits
      <4> QED BY <3>1, <4>1 DEF SizeInv
    <3> QED BY <2>5, <3>2, <3>3, <3>4, <3>5 DEF VaultSteps
  <2> QED BY <1>3, <2>3, <2>4, <2>5 DEF Vaults
<1> QED BY <1>1, <1>2, <1>3 DEF Next

\* Calls and what they take, at first and in every step.
LEMMA CallInvInit == Init => CallInv /\ TakenInv
<1> SUFFICES ASSUME Init PROVE CallInv /\ TakenInv
  OBVIOUS
<1>1. /\ ips = <<>> /\ keys = <<>> /\ accounts = <<>> /\ index = 0 /\ opts = "normal"
      /\ cpc = "idle" /\ ccall = "none" /\ cresult = "nil" /\ count = 0 /\ calls = 0 /\ fresh = 1
      /\ kind \in Kinds /\ ((faulty > 0) <=> (kind \in FaultyKinds))
  BY DEF Init, ChainInit
<1>2. <<normal, faulty>> \in Shapes
  BY VaultInvInit DEF VaultInv, ShapeInv
<1>3. Total \in Nat
  BY <1>2, ShapesAssumption DEF Total
<1>4. <<>> \in Seq(Nat) /\ \A i \in 1 .. Len(<<>>) : FALSE
  OBVIOUS
<1>5. TakenInv
  BY <1>1, <1>4 DEF TakenInv, Taken
<1>6. CallInv
  BY <1>1, <1>2, <1>3, <1>4, CallsAssumption DEF CallInv, HasIps, Constructing, Earlier
<1> QED BY <1>5, <1>6

\* Numbers that are taken follow those that have been.
LEMMA SomeAreNew ==
  ASSUME NEW n \in Nat, fresh \in Nat \ {0}, Take(n)
  PROVE  /\ Some(n) \in Seq(Nat) /\ Len(Some(n)) = n
         /\ \A i \in 1 .. n : Some(n)[i] >= fresh /\ Some(n)[i] \in 1 .. fresh' - 1
         /\ \A i, j \in 1 .. n : i # j => Some(n)[i] # Some(n)[j]
         /\ fresh' \in Nat /\ fresh' >= fresh
<1>1. \A i \in 1 .. n : fresh + i - 1 \in Nat
  OBVIOUS
<1>2. Some(n) \in [1 .. n -> Nat]
  BY <1>1 DEF Some
<1>3. Some(n) \in Seq(Nat) /\ Len(Some(n)) = n
  BY <1>2, SeqDef, LenProperties
<1> QED BY <1>3 DEF Some, Take

\* Every step keeps what a call has at each place.
LEMMA CallInvNext == CallInv /\ [Next]_vars => CallInv'
<1> SUFFICES ASSUME CallInv, [Next]_vars PROVE CallInv'
  OBVIOUS
<1>t. /\ normal \in Nat \ {0} /\ faulty \in Nat /\ Total \in Nat \ {0}
      /\ accounts \in Seq(Nat) /\ ips \in Seq(Nat) /\ keys \in Seq(Nat)
      /\ Len(accounts) \in Nat /\ Len(ips) \in Nat /\ Len(keys) \in Nat
      /\ index \in Nat /\ count \in 0 .. Total + Excess /\ calls \in 0 .. MaxCalls /\ fresh \in Nat \ {0}
      /\ MaxCalls \in Nat /\ Excess \in Nat
  BY ShapesAssumption, CallsAssumption DEF CallInv, Total
<1>1. CASE UNCHANGED chainVars
  BY <1>1 DEF CallInv, chainVars, input, fields, HasIps, Position, FirstOfPart, EndOfPart, TwoParts,
     Constructing, Total
<1> USE DEF At, Goto, Return, input, fields, Earlier
<1>2. CASE Construct
  BY <1>2, <1>t DEF Construct, CallInv, HasIps, TwoParts, Constructing, Total
<1>3. CASE Invoke
  BY <1>3, <1>t DEF Invoke, CallInv, HasIps, TwoParts, Constructing, Total
<1>4. CASE Finalize
  BY <1>4, <1>t DEF Finalize, CallInv, HasIps, TwoParts, Constructing, Total
<1>5. CASE GenerateAccounts
  <2>1. PICK n \in 0 .. count : accounts' = Some(n) /\ Take(n)
    BY <1>5 DEF GenerateAccounts
  <2>2. accounts' \in Seq(Nat) /\ fresh' \in Nat \ {0}
    BY <2>1, <1>t, SomeAreNew
  <2> QED BY <1>5, <1>t, <2>2 DEF GenerateAccounts, CallInv, HasIps, TwoParts, Constructing, Total
<1>6. CASE GetIPs
  <2>1. CASE ips' = Some(count) /\ Take(count)
    <3>1. ips' \in Seq(Nat) /\ fresh' \in Nat \ {0} /\ Len(ips') = count
      BY <2>1, <1>t, SomeAreNew
    <3> QED BY <1>6, <1>t, <3>1, SMTT(30) DEF GetIPs, CallInv, HasIps, TwoParts, Constructing, Total, Failure
  <2>2. CASE Return(Failure) /\ UNCHANGED <<ips, fresh>>
    BY <1>6, <1>t, <2>2 DEF GetIPs, CallInv, HasIps, TwoParts, Constructing, Total, Failure
  <2> QED BY <1>6, <2>1, <2>2 DEF GetIPs
<1>7. CASE GenerateKeys
  <2>1. keys' \in Seq(Nat) /\ Len(keys') \in {0, count} /\ fresh' \in Nat \ {0}
    <3>1. CASE keys' = Some(count) /\ Take(count)
      BY <3>1, <1>t, SomeAreNew
    <3>2. CASE keys' = <<>> /\ UNCHANGED fresh
      BY <3>2, <1>t
    <3> QED BY <1>7, <3>1, <3>2 DEF GenerateKeys
  <2> QED BY <1>7, <1>t, <2>1 DEF GenerateKeys, CallInv, HasIps, TwoParts, Constructing, Total
<1>8. CASE SetupGenesis
  <2>1. UNCHANGED <<kind, normal, faulty, ccall, count, calls, accounts, opts, ips, keys, index, fresh>>
    BY <1>8 DEF SetupGenesis
  <2>2. \/ cpc' = "idle" /\ cresult' = "panic"
        \/ cpc' = "setup" /\ UNCHANGED cresult /\ ~ (TwoParts /\ keys = <<>>)
    BY <1>8 DEF SetupGenesis
  <2>3. cpc = "genesis" /\ index = 0 /\ Len(keys) \in {0, count}
    BY <1>8 DEF SetupGenesis, CallInv
  <2>4. keys # <<>> => Len(keys) # 0
    BY <1>t
  <2>5. FirstOfPart + index <= EndOfPart
    BY <1>t, <2>3 DEF FirstOfPart, EndOfPart, CallInv, TwoParts, Constructing
  <2> QED
    BY <1>t, <2>1, <2>2, <2>3, <2>4, <2>5 DEF CallInv, HasIps, TwoParts, Constructing, Total,
       Position, FirstOfPart, EndOfPart
<1>9. CASE SetupFullnode
  <2>1. /\ UNCHANGED <<kind, normal, faulty, ccall, count, calls, accounts, opts, ips, keys>>
        /\ fresh' = fresh + 1 /\ cpc = "setup" /\ FirstOfPart + index < EndOfPart
        /\ \/ cpc' = "idle" /\ cresult' \in {"nil", "error", "panic"} /\ UNCHANGED index
           \/ cpc' = cpc /\ UNCHANGED cresult /\ index' = index + 1
    BY <1>9 DEF SetupFullnode, Take, NextNode, Failure
  <2>2. FirstOfPart \in Nat /\ EndOfPart \in Nat
    BY <1>t DEF FirstOfPart, EndOfPart
  <2>3. UNCHANGED <<FirstOfPart, EndOfPart>>
    BY <2>1 DEF FirstOfPart, EndOfPart, TwoParts, Constructing
  <2> QED BY <1>t, <2>1, <2>2, <2>3, SMTT(30) DEF CallInv, HasIps, TwoParts, Constructing, Total, Position
<1>10. CASE PartDone
  <2>1. /\ UNCHANGED <<kind, normal, faulty, ccall, count, calls, accounts, fresh, ips, keys>>
        /\ cpc = "setup" /\ index' = 0
        /\ \/ /\ TwoParts /\ opts = "normal" /\ opts' = "faulty" /\ cpc' = "setup" /\ UNCHANGED cresult
           \/ UNCHANGED opts /\ cpc' = "idle" /\ cresult' = "nil"
    BY <1>10 DEF PartDone
  <2>2. TwoParts => Len(keys) = count /\ count = Total
    BY <2>1 DEF CallInv, TwoParts
  <2> QED BY <1>t, <2>1, <2>2 DEF CallInv, HasIps, TwoParts, Constructing, Total,
       Position, FirstOfPart, EndOfPart
<1>11. CASE CreateNode
  <2>1. /\ UNCHANGED <<kind, normal, faulty, ccall, count, calls, accounts, opts, ips, keys>>
        /\ fresh' = fresh + 1 /\ cpc = "create" /\ index < count
        /\ \/ cpc' = "idle" /\ cresult' \in {"error", "panic"} /\ UNCHANGED index
           \/ cpc' = cpc /\ UNCHANGED cresult /\ index' = index + 1
    BY <1>11 DEF CreateNode, Take, NextNode
  <2> QED BY <1>t, <2>1 DEF CallInv, HasIps, TwoParts, Constructing, Total
<1>12. CASE CreateDone
  BY <1>12, <1>t DEF CreateDone, CallInv, HasIps, TwoParts, Constructing, Total
<1>13. CASE Vaults /\ UNCHANGED chainVars
  BY <1>1, <1>13
<1> QED
  BY <1>1, <1>2, <1>3, <1>4, <1>5, <1>6, <1>7, <1>8, <1>9, <1>10, <1>11, <1>12, <1>13
     DEF Next, Chain, vars

\* What a step takes.
LEMMA TakenStep ==
  ASSUME CallInv, [Next]_vars
  PROVE  /\ fresh' \in Nat /\ fresh' >= fresh /\ fresh \in Nat \ {0}
         /\ accounts' = accounts \/ \E n \in Nat : accounts' = Some(n) /\ Take(n)
         /\ ips' = ips \/ \E n \in Nat : ips' = Some(n) /\ Take(n)
         /\ keys' = keys \/ keys' = <<>> \/ \E n \in Nat : keys' = Some(n) /\ Take(n)
<1>t. fresh \in Nat \ {0} /\ count \in Nat
  BY ShapesAssumption, CallsAssumption DEF CallInv, Total
<1>1. /\ UNCHANGED fresh \/ \E n \in Nat : Take(n)
      /\ accounts' = accounts \/ \E n \in Nat : accounts' = Some(n) /\ Take(n)
      /\ ips' = ips \/ \E n \in Nat : ips' = Some(n) /\ Take(n)
      /\ keys' = keys \/ keys' = <<>> \/ \E n \in Nat : keys' = Some(n) /\ Take(n)
  <2> USE <1>t DEF fields
  <2> HIDE DEF Some, Take
  <2>1. CASE GenerateAccounts
    BY <2>1 DEF GenerateAccounts
  <2>2. CASE GetIPs
    BY <2>2 DEF GetIPs
  <2>3. CASE GenerateKeys
    BY <2>3 DEF GenerateKeys
  <2>4. CASE SetupFullnode \/ CreateNode
    BY <2>4 DEF SetupFullnode, CreateNode
  <2>5. CASE Construct \/ Invoke \/ Finalize \/ SetupGenesis \/ PartDone \/ CreateDone \/ UNCHANGED chainVars
    BY <2>5 DEF Construct, Invoke, Finalize, SetupGenesis, PartDone, CreateDone, chainVars
  <2> QED BY <2>1, <2>2, <2>3, <2>4, <2>5 DEF Next, Chain, vars
<1>2. fresh' \in Nat /\ fresh' >= fresh
  BY <1>t, <1>1 DEF Take
<1> HIDE DEF Some, Take
<1> QED BY <1>t, <1>1, <1>2

\* Every step takes a new number for what it makes.
LEMMA TakenInvNext == CallInv /\ TakenInv /\ [Next]_vars => TakenInv'
<1> SUFFICES ASSUME CallInv, TakenInv, [Next]_vars PROVE TakenInv'
  OBVIOUS
<1>t. fresh \in Nat \ {0} /\ count \in Nat
  BY ShapesAssumption, CallsAssumption DEF CallInv, Total
<1>1. ASSUME NEW s, NEW t, Taken(s), fresh' \in Nat, fresh' >= fresh,
             \/ t = s
             \/ t = <<>>
             \/ \E n \in Nat : t = Some(n) /\ Take(n)
      PROVE  /\ \A i \in 1 .. Len(t) : t[i] \in 1 .. fresh' - 1
             /\ \A i, j \in 1 .. Len(t) : i # j => t[i] # t[j]
  <2>1. CASE t = s
    BY <1>1, <1>t, <2>1 DEF Taken
  <2>2. CASE t = <<>>
    <3>1. \A i \in 1 .. Len(t) : FALSE
      BY <2>2
    <3> QED BY <3>1
  <2>3. CASE \E n \in Nat : t = Some(n) /\ Take(n)
    BY <1>t, <2>3, SomeAreNew
  <2> QED BY <1>1, <2>1, <2>2, <2>3
<1>2. /\ fresh' \in Nat /\ fresh' >= fresh
      /\ accounts' = accounts \/ \E n \in Nat : accounts' = Some(n) /\ Take(n)
      /\ ips' = ips \/ \E n \in Nat : ips' = Some(n) /\ Take(n)
      /\ keys' = keys \/ keys' = <<>> \/ \E n \in Nat : keys' = Some(n) /\ Take(n)
  BY TakenStep
<1> HIDE DEF Some
<1>4. Taken(accounts) /\ Taken(ips) /\ Taken(keys)
  BY DEF TakenInv
<1>5. /\ \A i \in 1 .. Len(accounts') : accounts'[i] \in 1 .. fresh' - 1
      /\ \A i, j \in 1 .. Len(accounts') : i # j => accounts'[i] # accounts'[j]
  BY <1>1, <1>2, <1>4
<1>6. /\ \A i \in 1 .. Len(ips') : ips'[i] \in 1 .. fresh' - 1
      /\ \A i, j \in 1 .. Len(ips') : i # j => ips'[i] # ips'[j]
  BY <1>1, <1>2, <1>4
<1>7. /\ \A i \in 1 .. Len(keys') : keys'[i] \in 1 .. fresh' - 1
      /\ \A i, j \in 1 .. Len(keys') : i # j => keys'[i] # keys'[j]
  BY <1>1, <1>2, <1>4
<1> QED BY <1>5, <1>6, <1>7 DEF TakenInv, Taken

-----------------------------------------------------------------------------
(* The nodes                                                               *)

\* What the node that is next in setupFullnodes is given.
LEMMA ChainConfigured ==
  ASSUME CallInv, DOMAIN lib = Shared, ccall # "CreateNodes"
  PROVE  /\ DataNode(Configured)
         /\ Configured.eth["dataDir"] = fresh /\ Configured.eth["ip"] = ips[Position + 1]
         /\ Configured.eth["key"] = keys[Position + 1] /\ Configured.eth["accounts"] = <<Account>>
         /\ IsSmilo => Configured.eth["dockerEnv"] = VaultIndex /\ Configured.eth["dockerBinds"] = VaultIndex
<1> DEFINE general == ChainOpts(kind, opts)
           ip == ips[FirstOfPart + index + 1]
           key == keys[FirstOfPart + index + 1]
           account == <<Account>>
           vault == VaultIndex
           smilo == IF IsSmilo THEN TRUE ELSE FALSE
           n == NewEthereum(general
                    \o <<Field("dataDir", fresh), Field("wsPort", fresh), Field("ip", ip)>>
                    \o <<Field("key", key), Field("accounts", account)>>
                    \o (IF smilo THEN <<Field("dockerEnv", vault), Field("dockerBinds", vault)>>
                        ELSE <<>>), lib)
<1>1. kind \in AllKinds
  BY KindsAssumption DEF CallInv
<1>2. General(general) /\ DirBefore(general)
  BY <1>1, GeneralChainOpts
<1>3. smilo \in BOOLEAN
  OBVIOUS
<1>4. Configured = n
  BY DEF Configured, HostOpts, VaultOpts
<1>5. ip = ips[Position + 1] /\ key = keys[Position + 1]
  BY DEF Position
<1> HIDE DEF general, ip, key, account, vault, smilo
<1>6. /\ DataNode(n)
      /\ n.eth["dataDir"] = fresh /\ n.eth["ip"] = ip
      /\ n.eth["key"] = key /\ n.eth["accounts"] = account
      /\ smilo => n.eth["dockerEnv"] = vault /\ n.eth["dockerBinds"] = vault
  BY <1>2, <1>3, ChainNode
<1> HIDE DEF n
<1> QED BY <1>4, <1>5, <1>6 DEF account, vault, smilo

\* What a node of CreateNodes is given.
LEMMA ExternalConfigured ==
  ASSUME CallInv, DOMAIN lib = Shared, cpc = "create"
  PROVE  /\ DataNode(Configured)
         /\ Configured.eth["dataDir"] = fresh /\ Configured.eth["ip"] = ips[Position + 1]
         /\ Configured.eth["key"] = Unset
<1> DEFINE ip == ips[FirstOfPart + index + 1]
           n == NewEthereum(ExternalOpts
                    \o <<Field("dataDir", fresh), Field("wsPort", fresh), Field("ip", ip)>>
                    \o <<Network>>, lib)
<1>1. Configured = n
  BY DEF Configured, HostOpts, CallInv
<1>2. ip = ips[Position + 1]
  BY DEF Position
<1> HIDE DEF ip
<1>3. DataNode(n) /\ n.eth["dataDir"] = fresh /\ n.eth["ip"] = ip /\ n.eth["key"] = Unset
  BY ExternalNode
<1> HIDE DEF n
<1> QED BY <1>1, <1>2, <1>3

\* The fields of a node.
LEMMA NodeFields ==
  ASSUME NEW files
  PROVE  LET n == Node(files) IN
         /\ n.eth = Configured.eth /\ n.flags = Configured.flags /\ n.genesis = genesis
         /\ n.role = IF Constructing THEN opts ELSE ccall
         /\ n.mount = Configured.utils["datadir"] /\ n.files = files
BY DEF Node

\* n is the last of the nodes now.
Grown(n) ==
  /\ IsSequence(Nodes') /\ Len(Nodes') = Len(Nodes) + 1
  /\ \A i \in 1 .. Len(Nodes) : Nodes'[i] = Nodes[i]
  /\ Nodes'[Len(Nodes) + 1] = n

Kept ==
  /\ IsSequence(Nodes') /\ Len(Nodes') \in {Len(Nodes), Len(fullnodes)}
  /\ \A i \in 1 .. Len(Nodes') : Nodes'[i] = Nodes[i]

\* A step adds a node of the chain, adds a node that CreateNodes makes, or adds
\* none; only CreateNodes and a new call drop some.
LEMMA NodesStep ==
  ASSUME IsSequence(fullnodes), IsSequence(created), [Next]_vars,
         cpc = "setup" => created = <<>>
  PROVE  /\ IsSequence(Nodes) /\ Len(fullnodes) \in Nat /\ Len(created) \in Nat
         /\ Len(Nodes) = Len(fullnodes) + Len(created)
         /\ \A i \in 1 .. Len(fullnodes) : Nodes[i] = fullnodes[i]
         /\ \A i \in 1 .. Len(created) : Nodes[Len(fullnodes) + i] = created[i]
         /\ IsSequence(fullnodes') /\ IsSequence(created')
         /\ \/ UNCHANGED fullnodes /\ Kept /\ (created' = created \/ created' = <<>>)
            \/ /\ SetupFullnode /\ NextNode /\ lib' = Configured.utils /\ genesis.file = "file" /\ ~ Panics
               /\ UNCHANGED created /\ Len(fullnodes') = Len(fullnodes) + 1
               /\ \/ Grown(Node(Account # ZeroAccount)) /\ NoFault
                  \/ Grown(Node(FALSE)) /\ Fault
            \/ /\ CreateNode /\ NextNode /\ lib' = Configured.utils /\ NoFault
               /\ UNCHANGED fullnodes /\ Grown(Node(FALSE))
<1>1. /\ IsSequence(Nodes) /\ Len(fullnodes) \in Nat /\ Len(created) \in Nat
      /\ Len(Nodes) = Len(fullnodes) + Len(created)
      /\ \A i \in 1 .. Len(fullnodes) : Nodes[i] = fullnodes[i]
      /\ \A i \in 1 .. Len(created) : Nodes[Len(fullnodes) + i] = created[i]
  <2>1. Joined(Nodes, fullnodes, created)
    BY ConcatIndices DEF Nodes
  <2> QED BY <2>1 DEF Joined
<1>e. IsSequence(<<>>)
  BY DEF IsSequence
<1>2. CASE UNCHANGED <<fullnodes, created>>
  <2>1. Nodes' = Nodes
    BY <1>2 DEF Nodes
  <2> QED BY <1>1, <1>2, <2>1 DEF Kept
<1>3. CASE UNCHANGED fullnodes /\ created' = <<>>
  <2>1. Joined(Nodes', fullnodes, <<>>)
    BY <1>3, <1>e, ConcatIndices DEF Nodes
  <2>2. Len(<<>>) = 0
    OBVIOUS
  <2>3. /\ IsSequence(Nodes') /\ Len(Nodes') = Len(fullnodes)
        /\ \A i \in 1 .. Len(fullnodes) : Nodes'[i] = Nodes[i]
    BY <1>1, <2>1, <2>2 DEF Joined
  <2> QED BY <1>1, <1>3, <1>e, <2>3 DEF Kept
<1>4. ASSUME NEW n, fullnodes' = Append(fullnodes, n), created = <<>>, created' = <<>>
      PROVE  Grown(n) /\ Len(fullnodes') = Len(fullnodes) + 1 /\ IsSequence(fullnodes')
  <2>1. /\ IsSequence(fullnodes') /\ Len(fullnodes') = Len(fullnodes) + 1
        /\ \A i \in 1 .. Len(fullnodes) : fullnodes'[i] = fullnodes[i]
        /\ fullnodes'[Len(fullnodes) + 1] = n
    BY <1>4, AppendSequence
  <2>2. Joined(Nodes', fullnodes', <<>>)
    BY <1>4, <1>e, <2>1, ConcatIndices DEF Nodes
  <2>3. Len(created) = 0
    BY <1>4
  <2>4. Len(<<>>) = 0
    OBVIOUS
  <2> QED BY <1>1, <2>1, <2>2, <2>3, <2>4 DEF Grown, Joined
<1>5. ASSUME NEW n, created' = Append(created, n), UNCHANGED fullnodes
      PROVE  Grown(n) /\ IsSequence(created')
  <2>1. /\ IsSequence(created') /\ Len(created') = Len(created) + 1
        /\ \A i \in 1 .. Len(created) : created'[i] = created[i]
        /\ created'[Len(created) + 1] = n
    BY <1>5, AppendSequence
  <2>2. Joined(Nodes', fullnodes, created')
    BY <1>5, <2>1, ConcatIndices DEF Nodes
  <2>3. Joined(Nodes, fullnodes, created)
    BY ConcatIndices DEF Nodes
  <2>4. /\ IsSequence(Nodes') /\ Len(Nodes') = Len(Nodes) + 1
        /\ Nodes'[Len(fullnodes) + (Len(created) + 1)] = n
    BY <1>1, <2>1, <2>2 DEF Joined
  <2>5. ASSUME NEW i \in 1 .. Len(Nodes) PROVE Nodes'[i] = Nodes[i]
    <3>1. CASE i \in 1 .. Len(fullnodes)
      BY <1>1, <2>2, <3>1 DEF Joined
    <3>2. CASE i \notin 1 .. Len(fullnodes)
      <4>1. PICK k \in 1 .. Len(created) : i = Len(fullnodes) + k
        BY <2>3, <3>2 DEF Joined
      <4>2. k \in 1 .. Len(created')
        BY <1>1, <2>1
      <4> QED BY <1>1, <2>1, <2>2, <4>1, <4>2 DEF Joined
    <3> QED BY <3>1, <3>2
  <2> QED BY <1>1, <2>1, <2>4, <2>5 DEF Grown
<1>6. CASE SetupFullnode
  <2>1. cpc = "setup" /\ UNCHANGED created /\ created = <<>>
    BY <1>6 DEF SetupFullnode, At
  <2>2. \/ UNCHANGED fullnodes
        \/ /\ NextNode /\ lib' = Configured.utils /\ genesis.file = "file" /\ ~ Panics
           /\ \/ fullnodes' = Append(fullnodes, Node(Account # ZeroAccount)) /\ NoFault
              \/ fullnodes' = Append(fullnodes, Node(FALSE)) /\ Fault
    BY <1>6 DEF SetupFullnode
  <2>3. CASE UNCHANGED fullnodes
    BY <1>2, <2>1, <2>3
  <2>4. CASE fullnodes' = Append(fullnodes, Node(Account # ZeroAccount)) /\ NoFault /\ ~ UNCHANGED fullnodes
    BY <1>1, <1>4, <1>6, <1>e, <2>1, <2>2, <2>4
  <2>5. CASE fullnodes' = Append(fullnodes, Node(FALSE)) /\ Fault /\ ~ UNCHANGED fullnodes
    BY <1>1, <1>4, <1>6, <1>e, <2>1, <2>2, <2>5
  <2> QED BY <2>2, <2>3, <2>4, <2>5
<1>7. CASE CreateNode
  <2>1. UNCHANGED fullnodes
    BY <1>7 DEF CreateNode, fields
  <2>2. \/ created' = <<>>
        \/ NextNode /\ lib' = Configured.utils /\ NoFault /\ created' = Append(created, Node(FALSE))
    BY <1>7 DEF CreateNode
  <2>3. CASE NextNode /\ lib' = Configured.utils /\ NoFault /\ created' = Append(created, Node(FALSE))
    BY <1>1, <1>5, <1>7, <2>1, <2>3
  <2> QED BY <1>3, <2>1, <2>2, <2>3
<1>8. CASE Invoke
  BY <1>3, <1>8 DEF Invoke, fields
<1>9. CASE \/ Construct \/ Finalize \/ GenerateAccounts \/ GetIPs \/ GenerateKeys
           \/ SetupGenesis \/ PartDone \/ CreateDone \/ UNCHANGED chainVars
  BY <1>2, <1>9 DEF Construct, Finalize, GenerateAccounts, GetIPs, GenerateKeys,
     SetupGenesis, PartDone, CreateDone, chainVars, fields
<1> QED BY <1>6, <1>7, <1>8, <1>9 DEF Next, Chain, vars

\* No step passes over a node, not even the one to the faulty nodes.
LEMMA PositionStep ==
  ASSUME CallInv, [Next]_vars, Constructing' \/ HasIps, cpc' # "idle"
  PROVE  /\ Position \in Nat /\ Position' \in Nat
         /\ ccall = "none" => Position' = 0
         /\ ccall # "none" => ccall' = ccall
         /\ ccall # "none" /\ (SetupFullnode \/ CreateNode) => Position' = Position + 1 /\ NextNode
         /\ ccall # "none" /\ ~ (SetupFullnode \/ CreateNode) => Position' = Position
<1>t. /\ normal \in Nat \ {0} /\ index \in Nat /\ fresh \in Nat /\ opts \in {"normal", "faulty"}
      /\ Position \in Nat
  <2>1. /\ normal \in Nat \ {0} /\ index \in Nat /\ fresh \in Nat /\ opts \in {"normal", "faulty"}
    BY ShapesAssumption DEF CallInv
  <2>2. FirstOfPart \in Nat
    BY <2>1 DEF FirstOfPart
  <2> QED BY <2>1, <2>2 DEF Position
<1>p. /\ SetupFullnode => /\ cpc = "setup" /\ fresh' = fresh + 1 /\ FirstOfPart + index < EndOfPart
                          /\ UNCHANGED <<kind, normal, opts, ccall>>
                          /\ NextNode \/ cpc' = "idle"
      /\ CreateNode => /\ cpc = "create" /\ fresh' = fresh + 1 /\ UNCHANGED <<kind, normal, opts, ccall>>
                       /\ NextNode \/ cpc' = "idle"
  BY DEF SetupFullnode, CreateNode, At, Return, Take, input, fields
<1>s. SetupFullnode => ~ CreateNode
  BY <1>p
<1>u. ASSUME UNCHANGED <<kind, normal, opts, ccall>>
      PROVE  UNCHANGED FirstOfPart
  BY <1>u DEF FirstOfPart, TwoParts, Constructing
<1>1. CASE UNCHANGED chainVars
  <2>1. /\ UNCHANGED <<kind, normal, opts, ccall, index, cpc, fresh>>
    BY <1>1 DEF chainVars, input, fields
  <2>2. ~ SetupFullnode /\ ~ CreateNode /\ ccall # "none"
    BY <1>t, <1>p, <2>1 DEF CallInv
  <2> QED BY <1>t, <1>u, <2>1, <2>2 DEF Position
<1>2. CASE Construct \/ Invoke \/ Finalize
  <2>1. ~ Invoke /\ ~ Finalize
    BY DEF Invoke, Finalize, Constructing, HasIps
  <2>2. ccall = "none" /\ index' = index /\ opts' = opts
    BY <1>2, <2>1 DEF Construct, fields
  <2>3. index = 0 /\ opts = "normal"
    BY <2>2 DEF CallInv
  <2> QED BY <1>t, <2>2, <2>3 DEF Position, FirstOfPart
<1>3. CASE GenerateAccounts \/ GenerateKeys \/ SetupGenesis
  <2>1. UNCHANGED <<kind, normal, opts, ccall, index>> /\ cpc \in Earlier
    BY <1>3 DEF GenerateAccounts, GenerateKeys, SetupGenesis, At, input, fields, Earlier
  <2>2. ~ SetupFullnode /\ ~ CreateNode /\ ccall # "none"
    BY <1>p, <2>1 DEF CallInv, Earlier
  <2> QED BY <1>t, <1>u, <2>1, <2>2 DEF Position
<1>4. CASE GetIPs
  <2>1. UNCHANGED <<kind, normal, opts, ccall>> /\ cpc = "ips" /\ index' = 0
    BY <1>4 DEF GetIPs, At, input, fields
  <2>2. ~ SetupFullnode /\ ~ CreateNode /\ ccall = "New" /\ index = 0
    BY <1>p, <2>1 DEF CallInv, Constructing, HasIps, Earlier
  <2> QED BY <1>t, <1>u, <2>1, <2>2 DEF Position
<1>5. CASE SetupFullnode \/ CreateNode
  <2>1. UNCHANGED <<kind, normal, opts, ccall>> /\ NextNode /\ ccall # "none"
    BY <1>5, <1>p DEF CallInv
  <2> QED BY <1>t, <1>u, <1>5, <2>1 DEF Position, FirstOfPart, NextNode
<1>6. CASE PartDone
  <2>1. /\ UNCHANGED <<kind, normal, ccall>> /\ cpc = "setup" /\ TwoParts /\ opts = "normal"
        /\ opts' = "faulty" /\ index' = 0 /\ FirstOfPart + index = EndOfPart
    BY <1>6 DEF PartDone, At, Goto, Return, input
  <2>2. ~ SetupFullnode /\ ~ CreateNode /\ ccall # "none"
    BY <1>t, <1>p, <2>1 DEF CallInv, Earlier
  <2>3. Position = normal /\ Position' = normal
    BY <1>t, <2>1 DEF Position, FirstOfPart, EndOfPart, TwoParts, Constructing
  <2> QED BY <1>t, <2>1, <2>2, <2>3
<1>7. CASE CreateDone
  BY <1>7 DEF CreateDone, Return
<1> QED
  BY <1>1, <1>2, <1>3, <1>4, <1>5, <1>6, <1>7 DEF Next, Chain, vars

\* The parts of the nodes, at first and in every step.
LEMMA PartsInvInit == Init => PartsInv
<1> SUFFICES ASSUME Init PROVE PartsInv
  OBVIOUS
<1>1. fullnodes = <<>> /\ created = <<>> /\ ccall = "none"
  BY DEF Init, ChainInit
<1>2. IsSequence(<<>>) /\ Len(<<>>) = 0
  BY DEF IsSequence
<1>3. Len(Nodes) = 0
  BY <1>1, <1>2, ConcatIndices DEF Nodes, Joined
<1> QED BY <1>1, <1>2, <1>3 DEF PartsInv, Constructing

\* Every step keeps the nodes of the chain before those of CreateNodes.
LEMMA PartsInvNext == CallInv /\ PartsInv /\ [Next]_vars => PartsInv'
<1> SUFFICES ASSUME CallInv, PartsInv, [Next]_vars PROVE PartsInv'
  OBVIOUS
<1>s. cpc = "setup" => created = <<>>
  BY DEF PartsInv, CallInv
<1>n. /\ Len(fullnodes) \in Nat /\ Len(created) \in Nat /\ Len(Nodes) = Len(fullnodes) + Len(created)
      /\ IsSequence(fullnodes') /\ IsSequence(created')
  BY <1>s, NodesStep DEF PartsInv
<1>c. \/ UNCHANGED ccall
      \/ Construct \/ Finalize \/ Invoke
  BY DEF Next, Chain, vars, chainVars, GenerateAccounts, GetIPs, GenerateKeys,
     SetupGenesis, SetupFullnode, PartDone, CreateNode, CreateDone, At
<1>1. ccall' \in {"none", "New", "AddFullnodes"} => created' = <<>>
  <2>1. CASE UNCHANGED ccall
    <3>1. ccall' \in {"none", "New", "AddFullnodes"} => ~ CreateNode
      BY <2>1 DEF CreateNode, At, CallInv
    <3> QED BY <1>s, <2>1, <3>1, NodesStep DEF PartsInv
  <2>2. CASE Construct \/ Finalize \/ Invoke
    BY <2>2 DEF Construct, Finalize, Invoke, PartsInv
  <2> QED BY <1>c, <2>1, <2>2
<1>2. ccall' = "none" => fullnodes' = <<>>
  <2>1. CASE UNCHANGED ccall
    <3>1. ccall = "none" => ~ (SetupFullnode \/ CreateNode)
      BY DEF SetupFullnode, CreateNode, At, CallInv
    <3> QED BY <1>s, <2>1, <3>1, NodesStep DEF PartsInv
  <2>2. CASE Construct \/ Finalize \/ Invoke
    BY <2>2 DEF Construct, Finalize, Invoke
  <2> QED BY <1>c, <2>1, <2>2
<1>3. Constructing' /\ cpc' # "idle" => Len(fullnodes') = Position'
  <2> SUFFICES ASSUME Constructing', cpc' # "idle" PROVE Len(fullnodes') = Position'
    OBVIOUS
  <2>1. CASE ccall = "none"
    <3>1. ~ (SetupFullnode \/ CreateNode)
      BY <2>1 DEF SetupFullnode, CreateNode, At, CallInv
    <3>2. fullnodes' = fullnodes /\ fullnodes = <<>>
      BY <1>s, <2>1, <3>1, NodesStep DEF PartsInv
    <3>3. Len(fullnodes') = 0
      BY <3>2
    <3> QED BY <2>1, <3>3, PositionStep
  <2>2. CASE ccall # "none"
    <3>1. ccall = "New" /\ cpc # "idle"
      <4>1. ccall' = "New" /\ ~ Construct /\ ~ Finalize /\ ~ Invoke
        BY <2>2 DEF Constructing, Construct, Finalize, Invoke
      <4>2. cpc = "idle" => cpc' = "idle"
        BY <4>1 DEF Next, Chain, vars, chainVars, GenerateAccounts, GetIPs, GenerateKeys,
           SetupGenesis, SetupFullnode, PartDone, CreateNode, CreateDone, At
      <4> QED BY <1>c, <4>1, <4>2
    <3>2. Len(fullnodes) = Position
      BY <3>1 DEF PartsInv, Constructing
    <3>3. ~ CreateNode
      BY <3>1 DEF CreateNode, At, CallInv
    <3>4. CASE SetupFullnode
      <4>1. Position' = Position + 1 /\ NextNode
        BY <2>2, <3>4, PositionStep
      <4>2. Len(fullnodes') = Len(fullnodes) + 1
        <5>1. fullnodes' # fullnodes
          <6>1. index' # index
            BY <4>1 DEF NextNode, CallInv
          <6>2. \E files : fullnodes' = Append(fullnodes, Node(files))
            BY <3>4, <6>1 DEF SetupFullnode
          <6> QED BY <6>2, <1>n, AppendSequence DEF PartsInv
        <5> QED BY <1>s, <3>3, <5>1, NodesStep DEF PartsInv
      <4> QED BY <3>2, <4>1, <4>2
    <3>5. CASE ~ SetupFullnode
      <4>1. fullnodes' = fullnodes
        BY <1>s, <3>3, <3>5, NodesStep DEF PartsInv
      <4> QED BY <2>2, <3>2, <3>3, <3>5, <4>1, PositionStep
    <3> QED BY <3>4, <3>5
  <2> QED BY <2>1, <2>2
<1>4. ASSUME NEW i \in 1 .. Len(Nodes')
      PROVE  /\ Nodes'[i].role \in Roles
             /\ i <= Len(fullnodes') <=> Nodes'[i].role # "CreateNodes"
  <2>1. CASE UNCHANGED fullnodes /\ Kept
    <3>1. i \in 1 .. Len(Nodes) /\ Nodes'[i] = Nodes[i]
      BY <1>n, <2>1 DEF Kept
    <3> QED BY <2>1, <3>1 DEF PartsInv
  <2>2. ASSUME NEW files, Grown(Node(files)),
               \/ SetupFullnode /\ UNCHANGED created /\ Len(fullnodes') = Len(fullnodes) + 1
               \/ CreateNode /\ UNCHANGED fullnodes
        PROVE  /\ Nodes'[i].role \in Roles
               /\ i <= Len(fullnodes') <=> Nodes'[i].role # "CreateNodes"
    <3>1. CASE i \in 1 .. Len(Nodes)
      <4>1. Nodes'[i] = Nodes[i]
        BY <2>2, <3>1 DEF Grown
      <4>2. CASE SetupFullnode /\ Len(fullnodes') = Len(fullnodes) + 1
        <5>1. Len(created) = 0
          BY <1>s, <4>2 DEF SetupFullnode, At
        <5> QED BY <1>n, <3>1, <4>1, <4>2, <5>1 DEF PartsInv
      <4>3. CASE UNCHANGED fullnodes
        BY <3>1, <4>1, <4>3 DEF PartsInv
      <4> QED BY <2>2, <4>2, <4>3
    <3>2. CASE i = Len(Nodes) + 1
      <4>1. Nodes'[i] = Node(files) /\ Nodes'[i].role = IF Constructing THEN opts ELSE ccall
        BY <2>2, <3>2, NodeFields DEF Grown
      <4>2. CASE SetupFullnode /\ Len(fullnodes') = Len(fullnodes) + 1
        <5>1. ccall \in {"New", "AddFullnodes"} /\ opts \in {"normal", "faulty"}
          BY <4>2 DEF SetupFullnode, At, CallInv
        <5>2. Len(created) = 0
          BY <1>s, <4>2 DEF SetupFullnode, At
        <5> QED BY <1>n, <3>2, <4>1, <4>2, <5>1, <5>2 DEF Roles, Constructing
      <4>3. CASE CreateNode /\ UNCHANGED fullnodes
        <5>1. ccall = "CreateNodes"
          BY <4>3 DEF CreateNode, At, CallInv
        <5> QED BY <1>n, <3>2, <4>1, <4>3, <5>1 DEF Roles, Constructing
      <4> QED BY <2>2, <4>2, <4>3
    <3>3. i \in 1 .. Len(Nodes) \/ i = Len(Nodes) + 1
      BY <1>n, <2>2 DEF Grown
    <3> QED BY <3>1, <3>2, <3>3
  <2> QED BY <1>s, <2>1, <2>2, NodesStep DEF PartsInv
<1> QED BY <1>n, <1>1, <1>2, <1>3, <1>4 DEF PartsInv

-----------------------------------------------------------------------------
(* What the flags of a node say                                            *)

\* It holds at first, and every step keeps it.
LEMMA DataInvInit == Init => DataInv
<1> SUFFICES ASSUME Init PROVE DataInv
  OBVIOUS
<1>1. fullnodes = <<>> /\ created = <<>> /\ lib = DefaultUtils
  BY DEF Init, ChainInit
<1>2. IsSequence(<<>>) /\ Len(<<>>) = 0
  BY DEF IsSequence
<1>3. Len(Nodes) = 0
  BY <1>1, <1>2, ConcatIndices DEF Nodes, Joined
<1> QED BY <1>1, <1>3 DEF DataInv, DefaultUtils

\* Every step keeps the one data directory.
LEMMA DataInvNext == CallInv /\ PartsInv /\ DataInv /\ [Next]_vars => DataInv'
<1> SUFFICES ASSUME CallInv, PartsInv, DataInv, [Next]_vars PROVE DataInv'
  OBVIOUS
<1>s. cpc = "setup" => created = <<>>
  BY DEF PartsInv, CallInv
<1>n. Len(fullnodes) \in Nat /\ Len(created) \in Nat /\ Len(Nodes) = Len(fullnodes) + Len(created)
  BY <1>s, NodesStep DEF PartsInv
<1>d. DOMAIN lib = Shared
  BY DEF DataInv
<1>1. lib' = lib \/ (lib' = Configured.utils /\ DataNode(Configured))
  <2>1. CASE SetupFullnode
    <3>1. ccall # "CreateNodes"
      BY <2>1 DEF SetupFullnode, At, CallInv
    <3> QED BY <1>d, <2>1, <3>1, ChainConfigured DEF SetupFullnode
  <2>2. CASE CreateNode
    <3>1. cpc = "create"
      BY <2>2 DEF CreateNode, At
    <3> QED BY <1>d, <2>2, <3>1, ExternalConfigured DEF CreateNode
  <2>3. CASE ~ SetupFullnode /\ ~ CreateNode
    BY <2>3 DEF Next, Chain, vars, chainVars, Construct, Invoke, Finalize, GenerateAccounts, GetIPs,
       GenerateKeys, SetupGenesis, PartDone, CreateDone
  <2> QED BY <2>1, <2>2, <2>3
<1>2. DOMAIN lib' = Shared /\ (lib["datadir"] = "/data" => lib'["datadir"] = "/data")
  BY <1>1, <1>d DEF DataNode, Draft
<1>3. CASE Kept
  <2>1. \A i \in 1 .. Len(Nodes') : i \in 1 .. Len(Nodes) /\ Nodes'[i] = Nodes[i]
    BY <1>n, <1>3 DEF Kept
  <2> QED BY <1>2, <2>1 DEF DataInv
<1>4. ASSUME NEW files \in BOOLEAN, Grown(Node(files)), lib' = Configured.utils, DataNode(Configured)
      PROVE  DataInv'
  <2>1. lib'["datadir"] = "/data"
    BY <1>4 DEF DataNode
  <2>2. \A i \in 1 .. Len(Nodes) : Nodes'[i] = Nodes[i]
    BY <1>4 DEF Grown
  <2>3. \A i \in 1 .. Len(Nodes') : i \in 1 .. Len(Nodes) \/ i = Len(Nodes) + 1
    BY <1>n, <1>4 DEF Grown
  <2> DEFINE n == Nodes'[Len(Nodes) + 1]
  <2>4. n = Node(files)
    BY <1>4 DEF Grown
  <2>5. /\ n.mount = "/data" /\ DOMAIN n.eth = Fields /\ n.files \in BOOLEAN
        /\ IsSequence(n.flags) /\ FlagsSay(n.flags, "/data")
        /\ \E k \in 1 .. Len(n.flags) : n.flags[k][1] = "datadir"
    BY <1>4, <2>4, NodeFields DEF DataNode, Draft
  <2> HIDE DEF n
  <2>6. ASSUME NEW i \in 1 .. Len(Nodes')
        PROVE  /\ Nodes'[i].mount = "/data"
               /\ DOMAIN Nodes'[i].eth = Fields /\ Nodes'[i].files \in BOOLEAN
               /\ IsSequence(Nodes'[i].flags) /\ FlagsSay(Nodes'[i].flags, "/data")
               /\ \E k \in 1 .. Len(Nodes'[i].flags) : Nodes'[i].flags[k][1] = "datadir"
    <3>1. CASE i \in 1 .. Len(Nodes)
      BY <2>2, <3>1 DEF DataInv
    <3>2. CASE i = Len(Nodes) + 1
      BY <2>5, <3>2 DEF n
    <3> QED BY <2>3, <3>1, <3>2
  <2> QED BY <1>2, <2>1, <2>6 DEF DataInv
<1>5. CASE SetupFullnode /\ lib' = Configured.utils
  <2>1. ccall # "CreateNodes"
    BY <1>5 DEF SetupFullnode, At, CallInv
  <2>2. DataNode(Configured)
    BY <1>d, <2>1, ChainConfigured
  <2>3. (Account # ZeroAccount) \in BOOLEAN /\ FALSE \in BOOLEAN
    OBVIOUS
  <2>4. ~ CreateNode
    BY <1>5 DEF SetupFullnode, CreateNode, At
  <2> QED BY <1>s, <1>3, <1>4, <1>5, <2>2, <2>3, <2>4, NodesStep DEF PartsInv
<1>6. CASE CreateNode /\ lib' = Configured.utils
  <2>1. cpc = "create"
    BY <1>6 DEF CreateNode, At
  <2>2. DataNode(Configured)
    BY <1>d, <2>1, ExternalConfigured
  <2>3. ~ SetupFullnode
    BY <2>1 DEF SetupFullnode, At
  <2> QED BY <1>s, <1>3, <1>4, <1>6, <2>2, <2>3, NodesStep DEF PartsInv
<1> QED BY <1>s, <1>3, <1>5, <1>6, NodesStep DEF PartsInv

\* Every node is one of Nodes.
LEMMA NodesOf ==
  ASSUME PartsInv
  PROVE  /\ \A n \in ToSet(fullnodes) \cup ToSet(created) : \E i \in 1 .. Len(Nodes) : n = Nodes[i]
         /\ \A n \in ToSet(fullnodes) : \E i \in 1 .. Len(Nodes) : n = Nodes[i] /\ i <= Len(fullnodes)
         /\ \A i \in 1 .. Len(fullnodes) : i \in 1 .. Len(Nodes) /\ Nodes[i] = fullnodes[i]
         /\ DOMAIN Nodes = 1 .. Len(Nodes) /\ DOMAIN fullnodes = 1 .. Len(fullnodes)
         /\ Len(Nodes) \in Nat /\ Len(fullnodes) \in Nat
<1>1. Joined(Nodes, fullnodes, created)
  BY ConcatIndices DEF PartsInv, Nodes
<1>2. /\ DOMAIN Nodes = 1 .. Len(Nodes) /\ DOMAIN fullnodes = 1 .. Len(fullnodes)
      /\ DOMAIN created = 1 .. Len(created) /\ Len(Nodes) \in Nat
      /\ Len(fullnodes) \in Nat /\ Len(created) \in Nat
  BY <1>1, AppendSequence DEF PartsInv, Joined
<1>3. \A i \in 1 .. Len(fullnodes) : i \in 1 .. Len(Nodes) /\ Nodes[i] = fullnodes[i]
  BY <1>1, <1>2 DEF Joined
<1>4. \A i \in 1 .. Len(created) : Len(fullnodes) + i \in 1 .. Len(Nodes) /\ Nodes[Len(fullnodes) + i] = created[i]
  BY <1>1, <1>2 DEF Joined
<1>5. \A n \in ToSet(fullnodes) : \E i \in 1 .. Len(fullnodes) : n = fullnodes[i]
  BY <1>2 DEF ToSet
<1>6. \A n \in ToSet(created) : \E i \in 1 .. Len(created) : n = created[i]
  BY <1>2 DEF ToSet
<1>7. \A n \in ToSet(fullnodes) : \E i \in 1 .. Len(Nodes) : n = Nodes[i] /\ i <= Len(fullnodes)
  BY <1>2, <1>3, <1>5
<1>8. \A n \in ToSet(created) : \E i \in 1 .. Len(Nodes) : n = Nodes[i]
  BY <1>4, <1>6
<1> QED BY <1>2, <1>3, <1>7, <1>8

\* All the invariants of a chain.
Base == VaultInv /\ SizeInv /\ CallInv /\ TakenInv /\ PartsInv

\* They always hold.
LEMMA BaseAlways == Spec => []Base
<1>1. Init => Base
  BY VaultInvInit, SizeInvInit, CallInvInit, PartsInvInit DEF Base
<1>2. Base /\ [Next]_vars => Base'
  BY VaultInvNext, SizeInvNext, CallInvNext, TakenInvNext, PartsInvNext DEF Base
<1> QED BY <1>1, <1>2, PTL DEF Spec

\* The directory a container mounts is the one its flags say, and the password
\* file is in it, however the calls shared the flag library.
THEOREM MountIsFlag == Spec => []FlagsMatchMount
<1>1. Base /\ DataInv /\ [Next]_vars => DataInv'
  BY DataInvNext DEF Base
<1>2. Base /\ DataInv => FlagsMatchMount
  <2> SUFFICES ASSUME PartsInv, DataInv, NEW n \in ToSet(fullnodes) \cup ToSet(created)
               PROVE  /\ Arguments(n, "datadir") = {lib["datadir"]} /\ n.mount = lib["datadir"]
                      /\ \A p \in Arguments(n, "password") : p[1] = lib["datadir"]
    BY DEF FlagsMatchMount, Base
  <2>1. PICK i \in 1 .. Len(Nodes) : n = Nodes[i]
    BY NodesOf
  <2>2. /\ lib["datadir"] = "/data" /\ n.mount = "/data"
        /\ IsSequence(n.flags) /\ FlagsSay(n.flags, "/data")
        /\ \E k \in 1 .. Len(n.flags) : n.flags[k][1] = "datadir"
    BY <2>1 DEF DataInv
  <2>3. DOMAIN n.flags = 1 .. Len(n.flags)
    BY <2>2, AppendSequence
  <2> QED BY <2>2, <2>3 DEF FlagsSay, Arguments
<1> QED BY <1>1, <1>2, DataInvInit, BaseAlways, PTL DEF Spec

-----------------------------------------------------------------------------
(* Nothing panics as long as nothing fails                                 *)

\* A failure is counted.
LEMMA FaultsCount ==
  ASSUME SizeInv, [Next]_vars
  PROVE  /\ faults' = 0 => faults = 0
         /\ Fault => faults' # 0
<1>1. faults \in Nat
  BY VaultAssumption DEF SizeInv
<1>2. Fault \/ NoFault
  <2>1. CASE Chain
    BY <2>1 DEF Chain, Construct, Invoke, Finalize, GenerateAccounts, GetIPs, GenerateKeys,
       SetupGenesis, SetupFullnode, PartDone, CreateNode, CreateDone, InitFails
  <2>2. CASE Vaults
    BY <2>2 DEF Vaults, NewVaultNetwork, StartVaults, StopVaults, FinalizeVaults,
       VaultSteps, WaitBoxFails, KeygenExits, VaultCrashes, GetFreeHosts, Prepare, SetupDone,
       CreateBox, StartBox, AttachBox, WaitBox, KillBox, RemoveBox, StartVault, StopVault
  <2>3. CASE UNCHANGED vars
    BY <2>3 DEF vars, NoFault
  <2> QED BY <2>1, <2>2, <2>3 DEF Next
<1> QED BY <1>1, <1>2 DEF Fault, NoFault

\* It holds at first, and every step keeps it.
LEMMA FaultlessInvInit == Init => FaultlessInv
  BY DEF Init, VaultInit, ChainInit, FaultlessInv, NoAccounts

\* Without failures there are accounts and vaults for as many nodes as the chain
\* began with.
LEMMA Enough ==
  ASSUME Base, FaultlessInv, faults = 0, cpc = "setup", count <= Total, FirstOfPart + index < EndOfPart
  PROVE  ~ Panics /\ Account # ZeroAccount
<1>1. /\ Len(accounts) = Total /\ Len(keys) = count /\ count <= Total /\ count \in Nat
      /\ ccall # "none" /\ Total \in Nat /\ normal \in Nat /\ index \in Nat
  <2>2. normal \in Nat /\ Total \in Nat
    BY ShapesAssumption DEF Base, CallInv, Total
  <2>1. ccall # "none" /\ count \in Nat /\ index \in Nat
    BY <2>2, CallsAssumption DEF Base, CallInv
  <2>3. Len(accounts) = Total /\ Len(keys) = count
    BY <2>1 DEF FaultlessInv, NoAccounts
  <2> QED BY <2>1, <2>2, <2>3
<1>2. EndOfPart <= Total /\ FirstOfPart \in Nat /\ EndOfPart \in Nat
  <2>1. normal <= Total
    BY ShapesAssumption DEF Base, CallInv, Total
  <2> QED BY <1>1, <2>1 DEF EndOfPart, FirstOfPart
<1>3. Position + 1 <= Len(accounts) /\ Position \in Nat
  BY <1>1, <1>2 DEF Position
<1>4. Account = accounts[Position + 1]
  BY <1>1, <1>2, <1>3 DEF Account, Offset, Position
<1>5. accounts[Position + 1] >= 1
  BY <1>1, <1>3 DEF Base, TakenInv, Taken
<1>6. Capacity(Len(accounts)) \in Nat /\ Capacity(Len(accounts)) >= Len(accounts)
  BY <1>1, CapacitySuffices
<1>7. IsSmilo => Len(vaults) = Total
  BY <1>1 DEF Base, SizeInv, Started
<1>8. ~ Panics
  BY <1>1, <1>2, <1>3, <1>6, <1>7 DEF Panics, Offset, Position, VaultIndex
<1> QED BY <1>4, <1>5, <1>8 DEF ZeroAccount

\* Without a failure every step finds as many accounts and keys as it needs.
LEMMA FaultlessInvNext == Base /\ FaultlessInv /\ [Next]_vars => FaultlessInv'
<1> SUFFICES ASSUME Base, FaultlessInv, [Next]_vars, faults' = 0
             PROVE  /\ vresult' # "panic" /\ (cresult' = "panic" => TooMany')
                    /\ ~ NoAccounts' => Len(accounts') = Total'
                    /\ cpc' \in {"genesis", "setup"} => Len(keys') = count'
  BY DEF FaultlessInv
<1>t. /\ SizeInv /\ CallInv /\ PartsInv /\ faults = 0 /\ ~ Fault
      /\ vresult # "panic" /\ (cresult = "panic" => TooMany) /\ (cpc # "idle" => cresult = "busy")
      /\ ~ NoAccounts => Len(accounts) = Total
      /\ cpc \in {"genesis", "setup"} => Len(keys) = count
  BY FaultsCount DEF Base, FaultlessInv, CallInv
<1>f. fresh \in Nat \ {0} /\ count \in Nat
  BY <1>t, ShapesAssumption, CallsAssumption DEF CallInv, Total
<1>s. \A n \in Nat : Take(n) => Len(Some(n)) = n
  BY <1>f, SomeAreNew
<1> USE DEF At, Goto, Return, input, fields, Earlier
<1>0. ASSUME UNCHANGED <<kind, normal, faulty, accounts>>, ~ NoAccounts' => ~ NoAccounts
      PROVE  ~ NoAccounts' => Len(accounts') = Total'
  BY <1>0, <1>t DEF Total
<1>1. CASE UNCHANGED chainVars
  <2>1. vresult' # "panic"
    BY <1>1, <1>t DEF Next, Chain, vars, vaultVars, Vaults, NewVaultNetwork, StartVaults, StopVaults,
       FinalizeVaults, VInvoke, VAt, VGoto, VReturn, NextVault, EndLoop, StopFails,
       VaultSteps, WaitBoxFails, KeygenExits, VaultCrashes, GetFreeHosts, Prepare, SetupDone,
       CreateBox, StartBox, AttachBox, WaitBox, KillBox, RemoveBox, StartVault, StopVault
  <2> QED BY <1>1, <1>t, <2>1 DEF chainVars, NoAccounts, Constructing, TwoParts, Total, TooMany
<1>v. ASSUME Chain PROVE vresult' = vresult \/ UNCHANGED chainVars
  BY DEF Next, vars, vaultVars
<1>2. CASE (Construct \/ Invoke \/ Finalize) /\ ~ UNCHANGED chainVars
  <2>1. Construct \/ Invoke \/ Finalize => Chain
    BY DEF Chain
  <2> QED BY <1>2, <1>0, <1>t, <1>v, <2>1 DEF Construct, Invoke, Finalize, CallInv, NoAccounts, Constructing, TwoParts
<1>3. CASE GenerateAccounts /\ ~ UNCHANGED chainVars
  <2>1. accounts' = Some(count) /\ Take(count) /\ count = Total /\ UNCHANGED <<cresult, normal, faulty, count>>
    BY <1>3, <1>t DEF GenerateAccounts, CallInv
  <2>2. cpc' \notin {"genesis", "setup"} /\ vresult' = vresult /\ cresult = "busy"
    BY <1>3, <1>t, <1>v DEF GenerateAccounts, Chain
  <2> QED BY <1>f, <1>s, <1>t, <2>1, <2>2 DEF Total
<1>4. CASE GetIPs /\ ~ UNCHANGED chainVars
  BY <1>4, <1>0, <1>t, <1>v DEF GetIPs, Chain, NoAccounts, Constructing, TwoParts, CallInv
<1>5. CASE GenerateKeys /\ ~ UNCHANGED chainVars
  <2>1. keys' = Some(count) /\ Take(count) /\ UNCHANGED count /\ vresult' = vresult
    BY <1>5, <1>t, <1>v DEF GenerateKeys, Chain
  <2>2. Len(keys') = count'
    BY <1>f, <1>s, <2>1
  <2>3. ~ NoAccounts
    BY <1>5, <1>t DEF GenerateKeys, NoAccounts, CallInv
  <2> QED BY <1>5, <1>0, <1>t, <2>1, <2>2, <2>3 DEF GenerateKeys
<1>6. CASE SetupGenesis /\ ~ UNCHANGED chainVars
  <2>1. Len(keys) = count /\ count >= 1 /\ keys # <<>>
    <3>1. Len(keys) = count /\ count >= 1
      BY <1>6, <1>t DEF SetupGenesis, CallInv
    <3> QED BY <3>1
  <2>2. ~ NoAccounts
    BY <1>6, <1>t DEF SetupGenesis, NoAccounts, CallInv
  <2>3. /\ UNCHANGED <<cresult, keys, count, kind, normal, faulty, accounts>> /\ vresult' = vresult
        /\ cresult = "busy"
    BY <1>6, <1>t, <1>v, <2>1 DEF SetupGenesis, Chain
  <2> QED BY <1>0, <1>t, <2>1, <2>2, <2>3
<1>7. CASE SetupFullnode /\ ~ UNCHANGED chainVars
  <2>1. count <= Total => ~ Panics
    BY <1>7, <1>t, Enough DEF SetupFullnode
  <2>2. ~ NoAccounts
    BY <1>7, <1>t DEF SetupFullnode, NoAccounts, CallInv
  <2>3. UNCHANGED <<keys, count, kind, normal, faulty, accounts>> /\ vresult' = vresult /\ cpc = "setup"
    BY <1>7, <1>v DEF SetupFullnode, Chain
  <2>4. cresult' = "panic" => TooMany'
    <3>1. cresult' = "panic" => Panics
      BY <1>7, <1>t DEF SetupFullnode, Failure, NextNode
    <3>2. count > Total => TooMany'
      <4>1. Total \in Nat /\ (Constructing => count = Total) /\ ccall \in {"New", "AddFullnodes"}
        BY <1>t, <2>3, ShapesAssumption DEF CallInv, Total
      <4>2. UNCHANGED <<ccall, Total>>
        BY <1>7, <2>3 DEF SetupFullnode, Total
      <4> QED BY <2>3, <4>1, <4>2 DEF TooMany, Constructing
    <3>3. Total \in Nat
      BY <1>t, ShapesAssumption DEF CallInv, Total
    <3> QED BY <1>f, <2>1, <3>1, <3>2, <3>3
  <2> QED BY <1>0, <1>t, <2>2, <2>3, <2>4
<1>8. CASE (PartDone \/ CreateDone) /\ ~ UNCHANGED chainVars
  <2>1. ~ NoAccounts /\ (cpc' = "setup" => cpc = "setup") /\ cresult' # "panic" /\ cpc' # "genesis"
    BY <1>8, <1>t DEF PartDone, CreateDone, NoAccounts, CallInv
  <2>2. UNCHANGED <<keys, count, kind, normal, faulty, accounts>> /\ vresult' = vresult
    BY <1>8, <1>v DEF PartDone, CreateDone, Chain
  <2> QED BY <1>0, <1>t, <2>1, <2>2
<1>9. CASE CreateNode /\ ~ UNCHANGED chainVars
  <2>1. ~ NoAccounts /\ cpc' \in {"create", "idle"} /\ cresult' # "panic"
    BY <1>9, <1>t DEF CreateNode, NoAccounts, CallInv, NextNode
  <2>2. UNCHANGED <<keys, count, kind, normal, faulty, accounts>> /\ vresult' = vresult
    BY <1>9, <1>v DEF CreateNode, Chain
  <2> QED BY <1>0, <1>t, <2>1, <2>2
<1> QED
  BY <1>1, <1>2, <1>3, <1>4, <1>5, <1>6, <1>7, <1>8, <1>9 DEF Next, Chain, vars

\* At first there are no nodes.
LEMMA NoNodesAtFirst ==
  ASSUME Init
  PROVE  Len(Nodes) = 0
<1>1. fullnodes = <<>> /\ created = <<>>
  BY DEF Init, ChainInit
<1>2. IsSequence(<<>>) /\ Len(<<>>) = 0
  BY DEF IsSequence
<1> QED BY <1>1, <1>2, ConcatIndices DEF Nodes, Joined

\* The nodes that are there, before and after a step, and what one that is added
\* is given.
LEMMA OldAndNew ==
  ASSUME Base, DOMAIN lib = Shared, [Next]_vars
  PROVE  \/ Kept /\ UNCHANGED fullnodes /\ \A i \in 1 .. Len(Nodes') : i \in 1 .. Len(Nodes)
         \/ /\ \A i \in 1 .. Len(Nodes') : i \in 1 .. Len(Nodes) \/ i = Len(Nodes) + 1
            /\ cpc' # "idle" /\ UNCHANGED <<kind, normal, faulty, accounts, genesis, ips, keys, ccall, opts, cpc>>
            /\ fresh' = fresh + 1 /\ Position \in Nat /\ Position' = Position + 1 /\ Len(Nodes) \in Nat
            /\ Configured.eth["dataDir"] = fresh /\ Configured.eth["ip"] = ips[Position + 1]
            /\ \/ /\ cpc = "setup" /\ ccall \in {"New", "AddFullnodes"}
                  /\ FirstOfPart + index < EndOfPart /\ genesis.file = "file"
                  /\ \E files : Grown(Node(files)) /\ (faults' = 0 => files = (Account # ZeroAccount))
                  /\ Configured.eth["key"] = keys[Position + 1] /\ Configured.eth["accounts"] = <<Account>>
                  /\ IsSmilo => Configured.eth["dockerEnv"] = VaultIndex /\ Configured.eth["dockerBinds"] = VaultIndex
                  /\ Constructing => Len(Nodes) = Position
                  /\ SetupFullnode
               \/ /\ cpc = "create" /\ ccall = "CreateNodes" /\ Grown(Node(FALSE)) /\ index < count
                  /\ Configured.eth["key"] = Unset /\ UNCHANGED fullnodes
                  /\ CreateNode
<1>t. CallInv /\ PartsInv /\ SizeInv
  BY DEF Base
<1>s. cpc = "setup" => created = <<>>
  BY <1>t DEF PartsInv, CallInv
<1>n. /\ Len(fullnodes) \in Nat /\ Len(created) \in Nat /\ Len(Nodes) = Len(fullnodes) + Len(created)
  BY <1>s, <1>t, NodesStep DEF PartsInv
<1>1. CASE UNCHANGED fullnodes /\ Kept
  <2>1. \A i \in 1 .. Len(Nodes') : i \in 1 .. Len(Nodes)
    BY <1>1, <1>n DEF Kept
  <2> QED BY <1>1, <2>1
<1> DEFINE Shift ==
  /\ cpc' # "idle" /\ UNCHANGED <<kind, normal, faulty, accounts, genesis, ips, keys, ccall, opts, cpc>>
  /\ fresh' = fresh + 1 /\ Position \in Nat /\ Position' = Position + 1 /\ Len(Nodes) \in Nat
<1>2. ASSUME SetupFullnode, NextNode, NEW files, Grown(Node(files)), faults' = 0 => files = (Account # ZeroAccount),
             genesis.file = "file"
      PROVE  /\ Shift /\ cpc = "setup" /\ ccall \in {"New", "AddFullnodes"}
             /\ Configured.eth["dataDir"] = fresh /\ Configured.eth["ip"] = ips[Position + 1]
             /\ FirstOfPart + index < EndOfPart
             /\ Configured.eth["key"] = keys[Position + 1] /\ Configured.eth["accounts"] = <<Account>>
             /\ IsSmilo => Configured.eth["dockerEnv"] = VaultIndex /\ Configured.eth["dockerBinds"] = VaultIndex
             /\ Constructing => Len(Nodes) = Position
             /\ \A i \in 1 .. Len(Nodes') : i \in 1 .. Len(Nodes) \/ i = Len(Nodes) + 1
  <2>1. cpc = "setup" /\ cpc' = cpc /\ ccall \in {"New", "AddFullnodes"} /\ FirstOfPart + index < EndOfPart
    BY <1>2, <1>t DEF SetupFullnode, At, NextNode, CallInv
  <2>2. Shift
    <3>1. Position \in Nat /\ Position' = Position + 1
      BY <1>2, <1>t, <2>1, PositionStep DEF HasIps
    <3>2. UNCHANGED <<kind, normal, faulty, accounts, genesis, ips, keys, ccall, opts>> /\ fresh' = fresh + 1
      BY <1>2 DEF SetupFullnode, At, Take, input
    <3> QED BY <1>n, <2>1, <3>1, <3>2
  <2>3. Constructing => Len(Nodes) = Position
    BY <1>n, <1>s, <1>t, <2>1 DEF PartsInv
  <2>4. \A i \in 1 .. Len(Nodes') : i \in 1 .. Len(Nodes) \/ i = Len(Nodes) + 1
    BY <1>2, <1>n DEF Grown
  <2>5. /\ Configured.eth["dataDir"] = fresh /\ Configured.eth["ip"] = ips[Position + 1]
        /\ Configured.eth["key"] = keys[Position + 1] /\ Configured.eth["accounts"] = <<Account>>
        /\ IsSmilo => Configured.eth["dockerEnv"] = VaultIndex /\ Configured.eth["dockerBinds"] = VaultIndex
    BY <1>t, <2>1, ChainConfigured
  <2> HIDE DEF Shift
  <2> QED BY <2>1, <2>2, <2>3, <2>4, <2>5
<1>3. ASSUME CreateNode, NextNode, Grown(Node(FALSE)), UNCHANGED fullnodes
      PROVE  /\ Shift /\ cpc = "create" /\ ccall = "CreateNodes" /\ index < count
             /\ Configured.eth["dataDir"] = fresh /\ Configured.eth["ip"] = ips[Position + 1]
             /\ Configured.eth["key"] = Unset
             /\ \A i \in 1 .. Len(Nodes') : i \in 1 .. Len(Nodes) \/ i = Len(Nodes) + 1
  <2>1. cpc = "create" /\ cpc' = cpc /\ ccall = "CreateNodes" /\ index < count
    BY <1>3, <1>t DEF CreateNode, At, NextNode, CallInv
  <2>2. Shift
    <3>1. Position \in Nat /\ Position' = Position + 1
      BY <1>3, <1>t, <2>1, PositionStep DEF HasIps
    <3>2. UNCHANGED <<kind, normal, faulty, accounts, genesis, ips, keys, ccall, opts>> /\ fresh' = fresh + 1
      BY <1>3 DEF CreateNode, At, Take, input, fields
    <3> QED BY <1>n, <2>1, <3>1, <3>2
  <2>3. \A i \in 1 .. Len(Nodes') : i \in 1 .. Len(Nodes) \/ i = Len(Nodes) + 1
    BY <1>3, <1>n DEF Grown
  <2>4. /\ Configured.eth["dataDir"] = fresh /\ Configured.eth["ip"] = ips[Position + 1]
        /\ Configured.eth["key"] = Unset
    BY <1>t, <2>1, ExternalConfigured
  <2> HIDE DEF Shift
  <2> QED BY <2>1, <2>2, <2>3, <2>4
<1>4. Fault => faults' # 0
  BY <1>t, FaultsCount
<1>5. \/ UNCHANGED fullnodes /\ Kept
      \/ /\ SetupFullnode /\ NextNode /\ genesis.file = "file"
         /\ \E files : Grown(Node(files)) /\ (faults' = 0 => files = (Account # ZeroAccount))
      \/ /\ CreateNode /\ NextNode /\ UNCHANGED fullnodes /\ Grown(Node(FALSE))
  <2> DEFINE known == Account # ZeroAccount
  <2>1. \/ UNCHANGED fullnodes /\ Kept
        \/ /\ SetupFullnode /\ NextNode /\ genesis.file = "file"
           /\ Grown(Node(known)) \/ (Grown(Node(FALSE)) /\ Fault)
        \/ /\ CreateNode /\ NextNode /\ UNCHANGED fullnodes /\ Grown(Node(FALSE))
    BY <1>s, <1>t, NodesStep DEF PartsInv
  <2> HIDE DEF known
  <2>2. CASE Grown(Node(known))
    <3>1. \E files : Grown(Node(files)) /\ (faults' = 0 => files = known)
      BY <2>2
    <3> QED BY <2>1, <3>1 DEF known
  <2>3. CASE Grown(Node(FALSE)) /\ Fault
    <3>1. \E files : Grown(Node(files)) /\ (faults' = 0 => files = known)
      BY <1>4, <2>3
    <3> QED BY <2>1, <3>1 DEF known
  <2> QED BY <2>1, <2>2, <2>3
<1>6. CASE /\ SetupFullnode /\ NextNode /\ genesis.file = "file"
           /\ \E files : Grown(Node(files)) /\ (faults' = 0 => files = (Account # ZeroAccount))
  <2>1. PICK files : Grown(Node(files)) /\ (faults' = 0 => files = (Account # ZeroAccount))
    BY <1>6
  <2> QED BY <1>2, <1>6, <2>1
<1>7. CASE CreateNode /\ NextNode /\ UNCHANGED fullnodes /\ Grown(Node(FALSE))
  BY <1>3, <1>7
<1> QED BY <1>1, <1>5, <1>6, <1>7

\* Every node gets what belongs to its place, and keeps it.
LEMMA PlaceInvInit == Init => PlaceInv
  BY NoNodesAtFirst DEF PlaceInv

\* Every step gives the node it makes what comes in its place.
LEMMA PlaceInvNext ==
  Base /\ FaultlessInv /\ DOMAIN lib = Shared /\ PlaceInv /\ [Next]_vars => PlaceInv'
<1> SUFFICES ASSUME Base, FaultlessInv, DOMAIN lib = Shared, PlaceInv, [Next]_vars PROVE PlaceInv'
  OBVIOUS
<1>t. CallInv /\ PartsInv /\ SizeInv /\ TakenInv /\ (faults' = 0 => faults = 0)
  BY FaultsCount DEF Base
<1>n. /\ Len(fullnodes) \in Nat /\ Len(created) \in Nat /\ Len(Nodes) = Len(fullnodes) + Len(created)
  BY <1>t, NodesStep DEF PartsInv, CallInv
<1> DEFINE Old(i) ==
             /\ Nodes[i].role # "CreateNodes" =>
                  \E a \in ToSet(accounts') \cup {ZeroAccount} : Nodes[i].eth["accounts"] = <<a>>
             /\ Nodes[i].role # "CreateNodes" /\ faults' = 0 =>
                  \/ Nodes[i].files
                  \/ Nodes[i].role = "AddFullnodes" /\ Nodes[i].eth["accounts"] = <<ZeroAccount>>
             /\ Nodes[i].role \in FirstNodes =>
                  /\ Nodes[i].eth["accounts"] = <<IF i <= Len(accounts') THEN accounts'[i] ELSE ZeroAccount>>
                  /\ Constructing' /\ cpc' = "setup" => Nodes[i].eth["key"] = keys'[i]
             /\ IsSmilo' /\ Nodes[i].role \in FirstNodes =>
                  LET vault == IF Nodes[i].role = "normal" THEN i ELSE i - normal'
                  IN  Nodes[i].eth["dockerEnv"] = vault /\ Nodes[i].eth["dockerBinds"] = vault
<1>1. ASSUME NEW i \in 1 .. Len(Nodes) PROVE Old(i)
  <2>1. UNCHANGED <<accounts, kind>>
    <3>1. CASE GenerateAccounts
      <4>1. Constructing /\ cpc \in Earlier
        BY <1>t, <3>1 DEF GenerateAccounts, At, CallInv, Earlier
      <4>2. Position = 0 /\ Len(fullnodes) = Position /\ Len(created) = 0
        BY <1>t, <4>1 DEF CallInv, PartsInv, Position, FirstOfPart, Constructing, Earlier
      <4> QED BY <1>n, <4>2
    <3>2. CASE ~ GenerateAccounts
      BY <3>2 DEF Next, Chain, vars, chainVars, Construct, Invoke, Finalize, GetIPs,
         GenerateKeys, SetupGenesis, SetupFullnode, PartDone, CreateNode, CreateDone, fields, At, input
    <3> QED BY <3>1, <3>2
  <2>2. ASSUME Constructing', cpc' = "setup" PROVE Constructing /\ cpc = "setup" /\ keys' = keys
    <3>1. Constructing /\ cpc # "idle" /\ (cpc = "setup" \/ cpc = "genesis") /\ keys' = keys
      <4>1. \/ SetupGenesis \/ SetupFullnode \/ PartDone \/ UNCHANGED chainVars
        BY <2>2, <1>t DEF Next, Chain, vars, Construct, Invoke, Finalize, GetIPs, GenerateAccounts, GenerateKeys,
           CreateNode, CreateDone, At, Goto, Return, Constructing, NextNode, CallInv
      <4> QED BY <4>1, <2>2 DEF SetupGenesis, SetupFullnode, PartDone, At, Constructing, chainVars
    <3>2. CASE cpc = "genesis"
      <4>1. Position = 0 /\ Len(fullnodes) = Position /\ Len(created) = 0
        BY <1>t, <3>1, <3>2 DEF CallInv, PartsInv, Position, FirstOfPart, Constructing, Earlier
      <4> QED BY <1>n, <4>1
    <3> QED BY <3>1, <3>2
  <2>3. (IsSmilo' <=> IsSmilo) /\ normal' = normal
    <3>1. normal' = normal
      BY DEF Next, Chain, vars, chainVars, Construct, Invoke, Finalize, GetIPs, GenerateAccounts,
         GenerateKeys, SetupGenesis, SetupFullnode, PartDone, CreateNode, CreateDone, At, input
    <3> QED BY <2>1, <3>1 DEF IsSmilo
  <2> QED BY <1>t, <2>1, <2>2, <2>3 DEF PlaceInv, AccountOf, VaultOf
<1>2. CASE Kept /\ UNCHANGED fullnodes /\ \A i \in 1 .. Len(Nodes') : i \in 1 .. Len(Nodes)
  <2>1. \A i \in 1 .. Len(Nodes') : Nodes'[i] = Nodes[i] /\ Old(i)
    BY <1>1, <1>2 DEF Kept
  <2> HIDE DEF Old
  <2>2. \A i \in 1 .. Len(Nodes') : Nodes'[i] = Nodes[i] /\ Old(i)
    BY <2>1
  <2> QED BY <2>2 DEF PlaceInv, Old, AccountOf, VaultOf
<1> DEFINE HasAccount(n) ==
             n.role # "CreateNodes" =>
               \E a \in ToSet(accounts') \cup {ZeroAccount} : n.eth["accounts"] = <<a>>
           HasFiles(n) ==
             n.role # "CreateNodes" /\ faults' = 0 =>
               n.files \/ (n.role = "AddFullnodes" /\ n.eth["accounts"] = <<ZeroAccount>>)
           InPlace(n, i) ==
             n.role \in FirstNodes =>
               /\ n.eth["accounts"] = <<IF i <= Len(accounts') THEN accounts'[i] ELSE ZeroAccount>>
               /\ Constructing' /\ cpc' = "setup" => n.eth["key"] = keys'[i]
           Vlt(role, i) == IF role = "normal" THEN i ELSE i - normal'
           HasVault(n, i) ==
             IsSmilo' /\ n.role \in FirstNodes =>
               /\ n.eth["dockerEnv"] = Vlt(n.role, i)
               /\ n.eth["dockerBinds"] = Vlt(n.role, i)
           New(n, i) == HasAccount(n) /\ HasFiles(n) /\ InPlace(n, i) /\ HasVault(n, i)
<1>3. ASSUME NEW n, Grown(n), \A i \in 1 .. Len(Nodes') : i \in 1 .. Len(Nodes) \/ i = Len(Nodes) + 1,
             New(n, Len(Nodes) + 1)
      PROVE  PlaceInv'
  <2>1. /\ \A i \in 1 .. Len(Nodes) : Nodes'[i] = Nodes[i] /\ Old(i)
        /\ Nodes'[Len(Nodes) + 1] = n
    BY <1>1, <1>3 DEF Grown
  <2>2. ASSUME NEW i \in 1 .. Len(Nodes') PROVE New(Nodes'[i], i)
    <3>1. CASE i \in 1 .. Len(Nodes)
      BY <2>1, <3>1
    <3>2. CASE i = Len(Nodes) + 1
      <4> HIDE DEF New
      <4> QED BY <1>3, <2>1, <3>2
    <3> QED BY <1>3, <3>1, <3>2
  <2> QED BY <2>2 DEF PlaceInv, AccountOf, VaultOf
<1>4. ASSUME cpc = "setup", ccall \in {"New", "AddFullnodes"},
             UNCHANGED <<kind, normal, faulty, accounts, keys, ccall, opts>>,
             FirstOfPart + index < EndOfPart, Position \in Nat,
             NEW files, Grown(Node(files)), faults' = 0 => files = (Account # ZeroAccount),
             Configured.eth["key"] = keys[Position + 1], Configured.eth["accounts"] = <<Account>>,
             IsSmilo => Configured.eth["dockerEnv"] = VaultIndex /\ Configured.eth["dockerBinds"] = VaultIndex,
             Constructing => Len(Nodes) = Position
      PROVE  New(Node(files), Len(Nodes) + 1)
  <2> DEFINE n == Node(files)
  <2>1. n.eth = Configured.eth /\ n.files = files /\ n.role = IF Constructing THEN opts ELSE ccall
    BY NodeFields
  <2> HIDE DEF n
  <2>2. faults' = 0 => n.files \/ (n.role = "AddFullnodes" /\ n.eth["accounts"] = <<ZeroAccount>>)
    <3>1. CASE Constructing
      <4>1. count <= Total
        BY <1>t, <3>1, ShapesAssumption DEF CallInv, Total
      <4> QED BY <1>4, <1>t, <2>1, <4>1, Enough
    <3>2. CASE ~ Constructing
      BY <1>4, <2>1, <3>2 DEF Constructing
    <3> QED BY <3>1, <3>2
  <2>3. Account = AccountOf(Position + 1)
    <3>1. index \in Nat /\ FirstOfPart \in Nat /\ Len(accounts) \in Nat
      BY <1>t, ShapesAssumption DEF CallInv, FirstOfPart
    <3> QED BY <3>1 DEF Account, Offset, AccountOf, Position
  <2>4. Account \in ToSet(accounts) \cup {ZeroAccount}
    <3>1. Len(accounts) \in Nat /\ DOMAIN accounts = 1 .. Len(accounts)
      BY <1>t DEF CallInv
    <3>2. AccountOf(Position + 1) = ZeroAccount \/ Position + 1 \in DOMAIN accounts
      BY <1>4, <3>1 DEF AccountOf
    <3>3. Position + 1 \in DOMAIN accounts => AccountOf(Position + 1) = accounts[Position + 1]
      BY <3>1 DEF AccountOf
    <3> QED BY <2>3, <3>2, <3>3 DEF ToSet
  <2>5. ASSUME n.role \in FirstNodes
        PROVE  /\ Constructing /\ n.role = opts
               /\ n.eth["accounts"] = <<AccountOf(Len(Nodes) + 1)>>
               /\ n.eth["key"] = keys'[Len(Nodes) + 1]
    <3>1. Constructing
      BY <1>4, <2>1, <2>5 DEF FirstNodes
    <3>2. AccountOf(Len(Nodes) + 1) = Account
      <4>1. Len(Nodes) + 1 = Position + 1
        BY <1>4, <3>1
      <4> QED BY <1>4, <2>3, <4>1 DEF AccountOf
    <3> QED BY <1>4, <2>1, <3>1, <3>2
  <2>6. HasVault(n, Len(Nodes) + 1)
    <3> SUFFICES ASSUME IsSmilo', n.role \in FirstNodes
                 PROVE  /\ n.eth["dockerEnv"] = Vlt(n.role, Len(Nodes) + 1)
                        /\ n.eth["dockerBinds"] = Vlt(n.role, Len(Nodes) + 1)
      <4> HIDE DEF Vlt
      <4> QED OBVIOUS
    <3>1. Constructing /\ n.role = opts /\ IsSmilo /\ normal' = normal
      BY <1>4, <2>5 DEF IsSmilo
    <3>2. Len(Nodes) = Position /\ normal \in Nat /\ index \in Nat
      BY <1>4, <1>t, <3>1, ShapesAssumption DEF CallInv
    <3>3. FirstOfPart = IF n.role = "normal" THEN 0 ELSE normal
      BY <1>t, <3>1 DEF FirstOfPart, TwoParts, CallInv
    <3>4. VaultIndex = IF n.role = "normal" THEN Len(Nodes) + 1 ELSE (Len(Nodes) + 1) - normal
      BY <3>2, <3>3 DEF VaultIndex, Position
    <3>5. VaultIndex = Vlt(n.role, Len(Nodes) + 1)
      BY <3>1, <3>4
    <3>6. n.eth["dockerEnv"] = VaultIndex /\ n.eth["dockerBinds"] = VaultIndex
      BY <1>4, <2>1, <3>1
    <3> HIDE DEF Vlt
    <3> QED BY <3>5, <3>6
  <2> SUFFICES New(n, Len(Nodes) + 1)
    BY DEF n
  <2>7. HasAccount(n)
    BY <1>4, <2>1, <2>4
  <2>8. InPlace(n, Len(Nodes) + 1)
    BY <1>4, <2>5 DEF AccountOf
  <2>9. HasFiles(n)
    BY <2>2
  <2> HIDE DEF HasAccount, HasFiles, InPlace, HasVault
  <2> QED BY <2>6, <2>7, <2>8, <2>9
<1>5. ASSUME ccall = "CreateNodes"
      PROVE  New(Node(FALSE), Len(Nodes) + 1)
  <2> DEFINE n == Node(FALSE)
  <2>1. n.role = "CreateNodes"
    BY <1>5, NodeFields DEF Constructing
  <2> HIDE DEF n
  <2>2. New(n, Len(Nodes) + 1)
    BY <2>1 DEF FirstNodes
  <2> QED BY <2>2 DEF n
<1> HIDE DEF New, Old, Vlt, HasAccount, HasFiles, InPlace, HasVault
<1> QED BY <1>2, <1>3, <1>4, <1>5, OldAndNew

\* What the nodes hold.
FilledInv == DataInv /\ FaultlessInv /\ PlaceInv

\* It always holds.
LEMMA FilledAlways == Spec => [](Base /\ FilledInv)
<1>1. Init => FilledInv
  BY DataInvInit, FaultlessInvInit, PlaceInvInit DEF FilledInv
<1>2. Base /\ FilledInv /\ [Next]_vars => FilledInv'
  BY DataInvNext, FaultlessInvNext, PlaceInvNext DEF Base, FilledInv, DataInv
<1> QED BY <1>1, <1>2, BaseAlways, PTL DEF Spec

\* As long as nothing fails, no index of the vaults is out of range, and of the
\* chain only those of an AddFullnodes that asks for more nodes than the chain
\* began with: for fewer, and for the constructors, there are accounts and vaults
\* enough.
THEOREM OnlyFailuresPanic == Spec => []PanicsAreFailures
<1>1. Base /\ FilledInv => PanicsAreFailures
  <2> SUFFICES ASSUME Base, FilledInv, faults = 0
               PROVE  /\ vresult # "panic"
                      /\ cresult = "panic" => ccall = "AddFullnodes" /\ count > Total
                      /\ \A n \in ToSet(fullnodes) :
                           n.files \/ (n.role = "AddFullnodes" /\ n.eth["accounts"] = <<ZeroAccount>>)
    BY DEF PanicsAreFailures
  <2>1. PartsInv
    BY DEF Base
  <2>2. \A n \in ToSet(fullnodes) : \E i \in 1 .. Len(Nodes) : n = Nodes[i] /\ i <= Len(fullnodes)
    BY <2>1, NodesOf
  <2> QED BY <2>1, <2>2 DEF FilledInv, FaultlessInv, TooMany, PlaceInv, PartsInv
<1> QED BY <1>1, FilledAlways, PTL

-----------------------------------------------------------------------------
(* No two nodes share anything                                             *)

\* Nodes are apart at first, there being none.
LEMMA ApartInvInit == Init => ApartInv
  BY NoNodesAtFirst DEF ApartInv

\* Indices behind a position.
LEMMA Behind ==
  /\ \A p \in Nat, l \in Nat : \A q \in {p, p + 1} : \A k \in q + 1 .. l : k \in p + 1 .. l
  /\ \A q \in Nat, n \in Nat : \A k \in q + 1 .. n : k \in 1 .. n
  /\ \A q \in Nat : \A k \in q + 1 .. 0 : FALSE
  OBVIOUS

\* A position is a number after a step, too.
LEMMA PositionNumber ==
  ASSUME normal' \in Nat, index' \in Nat
  PROVE  Position' \in Nat
<1>1. \A f, i \in Nat : f + i \in Nat
  OBVIOUS
<1>2. FirstOfPart' \in Nat
  BY DEF FirstOfPart
<1>3. Position' = FirstOfPart' + index'
  BY DEF Position
<1> QED BY <1>1, <1>2, <1>3, Zenon

\* Every step keeps them apart: what a node gets has been taken for it alone.
LEMMA ApartInvNext == Base /\ DOMAIN lib = Shared /\ ApartInv /\ [Next]_vars => ApartInv'
<1> SUFFICES ASSUME Base, DOMAIN lib = Shared, ApartInv, [Next]_vars PROVE ApartInv'
  OBVIOUS
<1>t. /\ CallInv /\ PartsInv /\ TakenInv /\ fresh \in Nat \ {0} /\ count \in Nat
      /\ Len(ips) \in Nat /\ Len(keys) \in Nat /\ index \in Nat
  BY ShapesAssumption, CallsAssumption DEF Base, CallInv, Total
<1>n. Len(Nodes) \in Nat
  BY <1>t, NodesOf
<1>f. fresh' \in Nat /\ fresh' >= fresh
  BY <1>t, TakenStep
\* What the next nodes are given is what was free before, or new.
<1>1. ASSUME HasIps'
      PROVE  \A k \in Position' + 1 .. Len(ips') :
               \/ ips'[k] >= fresh
               \/ HasIps /\ k \in Position + 1 .. Len(ips) /\ ips'[k] = ips[k]
  <2>1. CASE GetIPs
    <3>1. CASE ips' = Some(count) /\ Take(count)
      <4>1. normal' \in Nat /\ index' \in Nat
        BY <1>t, <2>1, ShapesAssumption DEF GetIPs, CallInv, At, input
      <4>2. Position' \in Nat
        BY <4>1, PositionNumber
      <4>3. Len(ips') = count /\ \A k \in 1 .. count : ips'[k] >= fresh
        BY <1>t, <3>1, SomeAreNew
      <4> QED BY <1>t, <4>2, <4>3, Behind, Zenon
    <3>2. CASE Return(Failure)
      BY <1>1, <3>2 DEF HasIps, Return
    <3> QED BY <2>1, <3>1, <3>2 DEF GetIPs
  <2>2. CASE ~ GetIPs
    <3>1. ips' = ips /\ cpc' # "idle"
      BY <1>1, <2>2 DEF HasIps, Next, Chain, vars, chainVars, Construct, Invoke, Finalize, GenerateAccounts,
         GenerateKeys, SetupGenesis, SetupFullnode, PartDone, CreateNode, CreateDone
    <3>2. HasIps /\ ccall # "none"
      <4>1. CASE UNCHANGED chainVars
        BY <1>1, <1>t, <4>1 DEF chainVars, input, HasIps, TwoParts, Constructing, CallInv
      <4>2. CASE Construct \/ Invoke \/ Finalize
        BY <1>1, <4>2 DEF Construct, Invoke, Finalize, HasIps, TwoParts, Constructing, input
      <4>3. CASE GenerateAccounts
        BY <1>1, <1>t, <4>3 DEF GenerateAccounts, HasIps, TwoParts, Constructing, input, At, Goto, CallInv
      <4>4. CASE \/ GenerateKeys \/ SetupGenesis \/ SetupFullnode \/ PartDone \/ CreateNode \/ CreateDone
        BY <1>t, <4>4 DEF GenerateKeys, SetupGenesis, SetupFullnode, PartDone, CreateNode, CreateDone, HasIps, At, CallInv
      <4> QED BY <2>2, <4>1, <4>2, <4>3, <4>4 DEF Next, Chain, vars
    <3>3. Position \in Nat /\ Position' \in {Position, Position + 1}
      BY <3>1, <3>2, PositionStep, <1>t
    <3>4. \A k \in Position' + 1 .. Len(ips) : k \in Position + 1 .. Len(ips)
      BY <1>t, <3>3, Behind
    <3> QED BY <3>1, <3>2, <3>4
  <2> QED BY <2>1, <2>2
<1>2. ASSUME cpc' \in {"genesis", "setup"}
      PROVE  \A k \in Position' + 1 .. Len(keys') :
               \/ keys'[k] >= fresh
               \/ cpc \in {"genesis", "setup"} /\ k \in Position + 1 .. Len(keys) /\ keys'[k] = keys[k]
  <2>h. HasIps' 
    BY <1>2 DEF HasIps
  <2>1. CASE GenerateKeys
    <3>1. Position' \in Nat
      <4>1. normal' \in Nat /\ index' \in Nat
        BY <1>t, <2>1, ShapesAssumption DEF GenerateKeys, CallInv, At, input
      <4> QED BY <4>1, PositionNumber
    <3>2. CASE keys' = Some(count) /\ Take(count)
      <4>1. Len(keys') = count /\ \A k \in 1 .. count : keys'[k] >= fresh
        BY <1>t, <3>2, SomeAreNew
      <4> QED BY <1>t, <3>1, <4>1, Behind, Zenon
    <3>3. CASE keys' = <<>>
      <4>1. Len(keys') = 0
        BY <3>3
      <4> QED BY <3>1, <4>1, Behind, Zenon
    <3> QED BY <2>1, <3>2, <3>3 DEF GenerateKeys
  <2>2. CASE ~ GenerateKeys
    <3>1. keys' = keys /\ cpc \in {"genesis", "setup"} /\ cpc' # "idle"
      BY <1>2, <2>2 DEF Next, Chain, vars, chainVars, Construct, Invoke, Finalize, GenerateAccounts, GetIPs,
         SetupGenesis, SetupFullnode, PartDone, CreateNode, CreateDone, At, Goto, Return, TwoParts, NextNode
    <3>2. HasIps /\ ccall # "none"
      BY <1>t, <3>1 DEF HasIps, CallInv
    <3>3. Position \in Nat /\ Position' \in {Position, Position + 1}
      BY <1>t, <3>1, <3>2, PositionStep
    <3>4. \A k \in Position' + 1 .. Len(keys) : k \in Position + 1 .. Len(keys)
      BY <1>t, <3>3, Behind
    <3> QED BY <3>1, <3>4
  <2> QED BY <2>1, <2>2
\* A node that is apart from them stays so.
<1> DEFINE Distant(a) ==
             /\ a["ip"] \in 1 .. fresh' - 1 /\ a["dataDir"] \in 1 .. fresh' - 1
             /\ a["key"] = Unset \/ a["key"] \in 1 .. fresh' - 1
             /\ HasIps' => \A k \in Position' + 1 .. Len(ips') : a["ip"] # ips'[k]
             /\ cpc' \in {"genesis", "setup"} =>
                  \A k \in Position' + 1 .. Len(keys') : a["key"] = Unset \/ a["key"] # keys'[k]
<1>3. ASSUME NEW i \in 1 .. Len(Nodes) PROVE Distant(Nodes[i].eth)
  <2> DEFINE a == Nodes[i].eth
  <2>1. /\ a["ip"] \in 1 .. fresh - 1 /\ a["dataDir"] \in 1 .. fresh - 1
        /\ a["key"] = Unset \/ a["key"] \in 1 .. fresh - 1
        /\ HasIps => \A k \in Position + 1 .. Len(ips) : a["ip"] # ips[k]
        /\ cpc \in {"genesis", "setup"} =>
             \A k \in Position + 1 .. Len(keys) : a["key"] = Unset \/ a["key"] # keys[k]
    BY DEF ApartInv
  <2> HIDE DEF a
  <2>2. HasIps' => \A k \in Position' + 1 .. Len(ips') : a["ip"] # ips'[k]
    BY <1>1, <1>t, <2>1
  <2>3. cpc' \in {"genesis", "setup"} =>
          \A k \in Position' + 1 .. Len(keys') : a["key"] = Unset \/ a["key"] # keys'[k]
    BY <1>2, <1>t, <2>1
  <2>4. /\ a["ip"] \in 1 .. fresh' - 1 /\ a["dataDir"] \in 1 .. fresh' - 1
        /\ a["key"] = Unset \/ a["key"] \in 1 .. fresh' - 1
    BY <1>f, <1>t, <2>1
  <2> QED BY <2>2, <2>3, <2>4 DEF a
<1>4. CASE Kept /\ \A i \in 1 .. Len(Nodes') : i \in 1 .. Len(Nodes)
  <2>1. \A i \in 1 .. Len(Nodes') : Nodes'[i] = Nodes[i] /\ i \in 1 .. Len(Nodes)
    BY <1>4 DEF Kept
  <2> HIDE DEF Distant
  <2>2. \A i \in 1 .. Len(Nodes') : Distant(Nodes'[i].eth)
    BY <1>3, <2>1
  <2>3. \A i, j \in 1 .. Len(Nodes') : i # j => Apart(Nodes'[i].eth, Nodes'[j].eth)
    BY <2>1 DEF ApartInv
  <2> QED BY <2>2, <2>3 DEF ApartInv, Apart, Distant
<1>5. ASSUME NEW n, Grown(n), \A i \in 1 .. Len(Nodes') : i \in 1 .. Len(Nodes) \/ i = Len(Nodes) + 1,
             Distant(n.eth),
             \A i \in 1 .. Len(Nodes) : Apart(Nodes[i].eth, n.eth) /\ Apart(n.eth, Nodes[i].eth)
      PROVE  ApartInv'
  <2>1. (\A i \in 1 .. Len(Nodes) : Nodes'[i] = Nodes[i]) /\ Nodes'[Len(Nodes) + 1] = n
    BY <1>5 DEF Grown
  <2> HIDE DEF Distant
  <2>2. \A i \in 1 .. Len(Nodes') : Distant(Nodes'[i].eth)
    BY <1>3, <1>5, <2>1
  <2>3. \A i, j \in 1 .. Len(Nodes') : i # j => Apart(Nodes'[i].eth, Nodes'[j].eth)
    BY <1>5, <2>1 DEF ApartInv
  <2> QED BY <2>2, <2>3 DEF ApartInv, Apart, Distant
<1>6. ASSUME NEW n, n.eth = Configured.eth, fresh' = fresh + 1, Position \in Nat, Position' = Position + 1,
             HasIps, Position + 1 \in 1 .. Len(ips), UNCHANGED <<ips, keys, cpc, ccall>>,
             Configured.eth["dataDir"] = fresh, Configured.eth["ip"] = ips[Position + 1],
             \/ Configured.eth["key"] = Unset
             \/ /\ Configured.eth["key"] = keys[Position + 1]
                /\ cpc \in {"genesis", "setup"} /\ Position + 1 \in 1 .. Len(keys)
      PROVE  /\ Distant(n.eth)
             /\ \A i \in 1 .. Len(Nodes) : Apart(Nodes[i].eth, n.eth) /\ Apart(n.eth, Nodes[i].eth)
  <2> DEFINE b == n.eth
  <2>1. /\ b["dataDir"] = fresh /\ b["ip"] = ips[Position + 1]
        /\ \/ b["key"] = Unset
           \/ /\ b["key"] = keys[Position + 1] /\ cpc \in {"genesis", "setup"}
              /\ Position + 1 \in 1 .. Len(keys)
    BY <1>6
  <2> HIDE DEF b
  <2>2. Taken(ips) /\ Taken(keys)
    BY <1>t DEF TakenInv
  <2>3. Distant(b)
    <3>1. b["ip"] \in 1 .. fresh' - 1 /\ b["dataDir"] \in 1 .. fresh' - 1
      BY <1>6, <1>t, <2>1, <2>2 DEF Taken
    <3>2. b["key"] = Unset \/ b["key"] \in 1 .. fresh' - 1
      BY <1>6, <1>t, <2>1, <2>2 DEF Taken
    <3>3. \A k \in Position' + 1 .. Len(ips') : b["ip"] # ips'[k]
      BY <1>6, <1>t, <2>1, <2>2 DEF Taken
    <3>4. cpc' \in {"genesis", "setup"} =>
            \A k \in Position' + 1 .. Len(keys') : b["key"] = Unset \/ b["key"] # keys'[k]
      BY <1>6, <1>t, <2>1, <2>2 DEF Taken
    <3> QED BY <3>1, <3>2, <3>3, <3>4
  <2>4. ASSUME NEW i \in 1 .. Len(Nodes) PROVE Apart(Nodes[i].eth, b) /\ Apart(b, Nodes[i].eth)
    <3> DEFINE a == Nodes[i].eth
    <3>1. /\ a["ip"] \in 1 .. fresh - 1 /\ a["dataDir"] \in 1 .. fresh - 1
          /\ a["key"] = Unset \/ a["key"] \in 1 .. fresh - 1
          /\ HasIps => \A k \in Position + 1 .. Len(ips) : a["ip"] # ips[k]
          /\ cpc \in {"genesis", "setup"} =>
               \A k \in Position + 1 .. Len(keys) : a["key"] = Unset \/ a["key"] # keys[k]
      BY DEF ApartInv
    <3> HIDE DEF a
    <3>2. a["ip"] # b["ip"] /\ a["dataDir"] # b["dataDir"]
      BY <1>6, <1>t, <2>1, <3>1
    <3>3. a["key"] # b["key"] \/ (a["key"] = Unset /\ b["key"] = Unset)
      BY <1>6, <1>t, <2>1, <3>1
    <3> QED BY <3>2, <3>3 DEF Apart, a
  <2> QED BY <2>3, <2>4 DEF b
<1> HIDE DEF Distant
<1>7. CASE /\ fresh' = fresh + 1 /\ Position \in Nat /\ Position' = Position + 1
           /\ UNCHANGED <<ips, keys, cpc, ccall>>
           /\ Configured.eth["dataDir"] = fresh /\ Configured.eth["ip"] = ips[Position + 1]
           /\ \A i \in 1 .. Len(Nodes') : i \in 1 .. Len(Nodes) \/ i = Len(Nodes) + 1
           /\ \/ /\ cpc = "setup" /\ FirstOfPart + index < EndOfPart
                 /\ \E files : Grown(Node(files))
                 /\ Configured.eth["key"] = keys[Position + 1]
              \/ /\ cpc = "create" /\ ccall = "CreateNodes" /\ Grown(Node(FALSE)) /\ index < count
                 /\ Configured.eth["key"] = Unset
  <2>1. HasIps /\ Len(ips) = count
    BY <1>7, <1>t DEF HasIps, CallInv
  <2>2. CASE cpc = "setup"
    <3>1. PICK files : Grown(Node(files))
      BY <1>7, <2>2
    <3>2. Position + 1 \in 1 .. Len(keys) /\ Len(keys) <= count
      <4>1. normal \in Nat /\ faulty \in Nat /\ (TwoParts => Len(keys) = Total)
        BY <1>t, <2>2, ShapesAssumption DEF CallInv, TwoParts
      <4>2. Len(keys) <= count
        BY <1>t, <2>2 DEF CallInv
      <4>3. EndOfPart <= Len(keys) /\ EndOfPart \in Nat
        BY <1>t, <4>1 DEF EndOfPart, Total
      <4>4. Position < EndOfPart
        BY <1>7, <2>2 DEF Position
      <4> QED BY <1>7, <1>t, <4>2, <4>3, <4>4
    <3>3. Node(files).eth = Configured.eth
      BY NodeFields
    <3>4. Configured.eth["key"] = keys[Position + 1]
      BY <1>7, <2>2
    <3>5. Position + 1 \in 1 .. Len(ips)
      BY <1>t, <2>1, <3>2
    <3> DEFINE n == Node(files)
    <3> HIDE DEF n
    <3>6. Grown(n) /\ n.eth = Configured.eth
      BY <3>1, <3>3 DEF n
    <3> QED BY <1>5, <1>6, <1>7, <2>1, <2>2, <3>2, <3>4, <3>5, <3>6
  <2>3. CASE cpc = "create"
    <3>1. Position = index /\ Position + 1 \in 1 .. Len(ips)
      BY <1>7, <1>t, <2>1, <2>3 DEF Position, FirstOfPart, TwoParts, Constructing
    <3>2. Node(FALSE).eth = Configured.eth
      BY NodeFields
    <3> DEFINE n == Node(FALSE)
    <3> HIDE DEF n
    <3>3. Grown(n) /\ n.eth = Configured.eth /\ Configured.eth["key"] = Unset
      BY <1>7, <2>3, <3>2 DEF n
    <3> QED BY <1>5, <1>6, <1>7, <2>1, <3>1, <3>3
  <2> QED BY <1>7, <2>2, <2>3
<1> QED BY <1>4, <1>7, OldAndNew

\* No two places get the same account.
LEMMA AccountsDiffer ==
  ASSUME CallInv, TakenInv, NEW i \in Nat \ {0}, NEW j \in Nat \ {0}, i # j,
         AccountOf(i) = AccountOf(j)
  PROVE  AccountOf(i) = ZeroAccount
<1>1. Len(accounts) \in Nat /\ Taken(accounts)
  BY DEF CallInv, TakenInv
<1>2. \A k \in Nat \ {0} : k <= Len(accounts) => k \in 1 .. Len(accounts) /\ AccountOf(k) = accounts[k] /\ accounts[k] # 0
  BY <1>1 DEF Taken, AccountOf, CallInv
<1>3. \A k \in Nat \ {0} : ~ (k <= Len(accounts)) => AccountOf(k) = ZeroAccount
  BY DEF AccountOf
<1>4. CASE i <= Len(accounts) /\ j <= Len(accounts)
  BY <1>1, <1>2, <1>4 DEF Taken
<1> QED BY <1>2, <1>3, <1>4 DEF ZeroAccount

\* No two nodes have an address, a key or a directory in common, no two of a
\* constructor an account, and no two of the same part of it, normal or faulty, a
\* vault.
THEOREM NothingShared == Spec => []OwnIdentity
<1>1. ASSUME Base, FilledInv, ApartInv PROVE OwnIdentity
  <2>t. CallInv /\ TakenInv /\ PartsInv /\ PlaceInv
    BY <1>1 DEF Base, FilledInv
  <2>d. DOMAIN Nodes = 1 .. Len(Nodes) /\ Len(Nodes) \in Nat
    BY <2>t, NodesOf
  <2> DEFINE a(i) == Nodes[i].eth
             role(i) == Nodes[i].role
             First(i) == role(i) \in {"normal", "faulty"}
  <2>1. ASSUME NEW i \in 1 .. Len(Nodes), NEW j \in 1 .. Len(Nodes), i # j
        PROVE  Apart(a(i), a(j))
    BY <1>1, <2>1 DEF ApartInv
  <2>2. ASSUME NEW i \in 1 .. Len(Nodes), NEW j \in 1 .. Len(Nodes), i # j, First(i), First(j)
        PROVE  a(i)["accounts"] # a(j)["accounts"] \/ a(i)["accounts"] = <<ZeroAccount>>
    <3>1. a(i)["accounts"] = <<AccountOf(i)>> /\ a(j)["accounts"] = <<AccountOf(j)>>
      BY <2>2, <2>t DEF PlaceInv, FirstNodes
    <3>2. AccountOf(i) = AccountOf(j) => AccountOf(i) = ZeroAccount
      BY <2>2, <2>d, <2>t, AccountsDiffer
    <3>3. \A x, y : <<x>> = <<y>> => x = y
      OBVIOUS
    <3> HIDE DEF a
    <3> QED BY <3>1, <3>2, <3>3
  <2>3. ASSUME IsSmilo, NEW i \in 1 .. Len(Nodes), First(i)
        PROVE  a(i)["dockerEnv"] = VaultOf(role(i), i) /\ a(i)["dockerBinds"] = VaultOf(role(i), i)
    BY <2>3, <2>t DEF PlaceInv, FirstNodes
  <2>5. \A r, i, j : i \in Nat /\ j \in Nat /\ i # j => VaultOf(r, i) # VaultOf(r, j)
    <3>1. normal \in Nat
      BY <2>t, ShapesAssumption DEF CallInv
    <3> QED BY <3>1 DEF VaultOf
  <2>4. \A i, j \in 1 .. Len(Nodes) : i # j =>
          /\ a(i)["ip"] # a(j)["ip"] /\ a(i)["dataDir"] # a(j)["dataDir"]
          /\ a(i)["key"] # a(j)["key"] \/ a(i)["key"] = Unset
          /\ {role(i), role(j)} \subseteq {"normal", "faulty"} =>
               a(i)["accounts"] # a(j)["accounts"] \/ a(i)["accounts"] = <<ZeroAccount>>
          /\ IsSmilo /\ role(i) \in {"normal", "faulty"} =>
               /\ a(i)["dockerEnv"] = a(i)["dockerBinds"]
               /\ role(j) = role(i) => a(i)["dockerBinds"] # a(j)["dockerBinds"]
    <3> HIDE DEF a, role
    <3> QED BY <2>1, <2>2, <2>3, <2>5, <2>d DEF Apart
  <2> QED BY <2>4, <2>d DEF OwnIdentity, Nodes
<1>2. Base /\ FilledInv /\ ApartInv /\ [Next]_vars => ApartInv'
  BY ApartInvNext DEF FilledInv, DataInv
<1> QED BY <1>1, <1>2, ApartInvInit, FilledAlways, PTL DEF Spec

-----------------------------------------------------------------------------
(* The genesis knows the nodes                                             *)

\* The genesis is made at most once, before there are nodes.
LEMMA FileInvInit == Init => FileInv
<1> SUFFICES ASSUME Init PROVE FileInv
  OBVIOUS
<1>1. genesis = NoGenesis /\ fullnodes = <<>> /\ ccall = "none"
  BY DEF Init, ChainInit
<1> QED BY <1>1 DEF FileInv, NoGenesis, Constructing

\* Every step keeps the genesis, which is made from all accounts and keys.
LEMMA FileInvNext == CallInv /\ FileInv /\ [Next]_vars => FileInv'
<1> SUFFICES ASSUME CallInv, FileInv, [Next]_vars PROVE FileInv'
  OBVIOUS
<1>1. CASE /\ UNCHANGED <<genesis, accounts, fullnodes, ccall>>
           /\ cpc' \in Earlier => cpc \in Earlier
           /\ cpc' = "setup" => cpc = "setup" /\ UNCHANGED keys
  BY <1>1 DEF FileInv, Constructing
<1>2. CASE UNCHANGED chainVars
  BY <1>1, <1>2 DEF chainVars, fields
<1>3. CASE GetIPs \/ GenerateKeys \/ PartDone \/ CreateNode \/ CreateDone
  <2>1. UNCHANGED <<genesis, accounts, fullnodes, ccall>>
    BY <1>3 DEF GetIPs, GenerateKeys, PartDone, CreateNode, CreateDone, At, fields
  <2>2. cpc' \in Earlier => cpc \in Earlier
    BY <1>3 DEF GetIPs, GenerateKeys, PartDone, CreateNode, CreateDone, At, Goto, Return, NextNode, Earlier
  <2>3. cpc' = "setup" => cpc = "setup" /\ UNCHANGED keys
    BY <1>3 DEF GetIPs, GenerateKeys, PartDone, CreateNode, CreateDone, At, Goto, Return, NextNode
  <2> QED BY <1>1, <2>1, <2>2, <2>3
<1>4. CASE Construct
  <2>1. /\ UNCHANGED <<genesis, accounts, fullnodes>> /\ ccall = "none" /\ cpc' # "setup"
    BY <1>4 DEF Construct, fields
  <2> QED BY <2>1 DEF FileInv
<1>5. CASE Invoke
  BY <1>5 DEF Invoke, fields, FileInv, Constructing
<1>6. CASE Finalize
  <2>1. /\ genesis' = [genesis EXCEPT !.file = IF @ = "file" THEN "gone" ELSE @]
        /\ UNCHANGED <<accounts, fullnodes>> /\ ccall' = "Finalize" /\ ccall # "none"
    BY <1>6 DEF Finalize
  <2>2. /\ DOMAIN genesis' = DOMAIN genesis /\ genesis'.alloc = genesis.alloc /\ genesis'.smilo = genesis.smilo
        /\ genesis'.file = IF genesis.file = "file" THEN "gone" ELSE genesis.file
    BY <2>1 DEF FileInv
  <2> QED BY <2>1, <2>2, FileNames DEF FileInv, Constructing
<1>7. CASE GenerateAccounts
  <2>1. /\ UNCHANGED <<genesis, fullnodes, ccall>> /\ cpc = "accounts" /\ cpc' \in Earlier
    BY <1>7 DEF GenerateAccounts, At, Goto, Earlier
  <2>2. genesis.file = NoFile
    BY <2>1 DEF FileInv, CallInv, Earlier
  <2> QED BY <2>1, <2>2 DEF FileInv, Constructing, Earlier
<1>8. CASE SetupGenesis
  <2>1. /\ UNCHANGED <<accounts, fullnodes, keys, ccall>> /\ cpc = "genesis" /\ cpc' \in {"idle", "setup"}
        /\ \/ genesis.file # NoFile /\ UNCHANGED genesis
           \/ genesis.file = NoFile /\ \E file \in {"file", "relative", NoFile} : genesis' = NewGenesis(file)
    BY <1>8 DEF SetupGenesis, At, Goto, Return, NeedsGenesis
  <2>2. CASE genesis.file # NoFile /\ UNCHANGED genesis
    BY <2>1, <2>2 DEF FileInv, Constructing, CallInv, Earlier
  <2>3. CASE genesis.file = NoFile
    <3>1. PICK file \in {"file", "relative", NoFile} : genesis' = NewGenesis(file)
      BY <2>1, <2>3
    <3>2. IsSmilo \in BOOLEAN
      BY DEF IsSmilo
    <3>3. /\ DOMAIN genesis' = {"file", "number", "fullnodes", "alloc", "smilo"}
          /\ genesis'.file = file /\ genesis'.smilo \in BOOLEAN
          /\ genesis'.fullnodes = ToSet(keys) /\ genesis'.alloc = ToSet(keys) \cup ToSet(accounts)
      BY <3>1, <3>2 DEF NewGenesis, GenesisKeys, Alloc
    <3>4. fullnodes = <<>> /\ ccall # "none" /\ cpc' \notin Earlier
      BY <2>1, <2>3 DEF FileInv, CallInv, Earlier
    <3> QED BY <2>1, <3>3, <3>4 DEF FileInv
  <2> QED BY <2>1, <2>2, <2>3
<1>9. CASE SetupFullnode
  <2>1. /\ UNCHANGED <<genesis, accounts, keys, ccall>> /\ cpc = "setup" /\ cpc' \in {"idle", "setup"}
        /\ UNCHANGED fullnodes \/ genesis.file = "file"
    BY <1>9 DEF SetupFullnode, At, Return, NextNode
  <2>2. CASE UNCHANGED fullnodes
    BY <1>1, <2>1, <2>2 DEF Earlier
  <2>3. CASE genesis.file = "file"
    BY <2>1, <2>3, FileNames DEF FileInv, Constructing, Earlier
  <2> QED BY <2>1, <2>2, <2>3
<1> QED
  BY <1>2, <1>3, <1>4, <1>5, <1>6, <1>7, <1>8, <1>9 DEF Next, Chain, vars

\* It knows no nodes at first, there being none.
LEMMA KnownInvInit == Init => KnownInv
<1> SUFFICES ASSUME Init PROVE KnownInv
  OBVIOUS
<1>1. FirstOnes = {} /\ Len(Nodes) = 0
  BY NoNodesAtFirst DEF FirstOnes
<1> QED BY <1>1 DEF KnownInv

\* The call of the constructor that ends well has made a node for each key.
LEMMA Complete ==
  ASSUME Base, PlaceInv, FileInv, KnownInv, Constructing, PartDone, cresult' = "nil"
  PROVE  genesis.fullnodes = {Nodes[i].eth["key"] : i \in FirstOnes}
<1>1. /\ CallInv /\ PartsInv /\ cpc = "setup" /\ FirstOfPart + index = EndOfPart
      /\ ~ (TwoParts /\ opts = "normal")
  BY DEF Base, PartDone, At, Goto, CallInv
<1>2. Len(fullnodes) = Len(keys)
  BY <1>1 DEF PartsInv, Position, EndOfPart
<1>3. Len(Nodes) = Len(fullnodes)
  <2>1. Joined(Nodes, fullnodes, created)
    BY <1>1, ConcatIndices DEF PartsInv, Nodes
  <2>2. Len(created) = 0
    BY <1>1 DEF PartsInv, Constructing
  <2>3. Len(fullnodes) \in Nat /\ Len(Nodes) = Len(fullnodes) + Len(created)
    BY <1>1, <2>1, NodesOf DEF Joined
  <2> QED BY <2>2, <2>3
<1>4. FirstOnes = 1 .. Len(keys) /\ DOMAIN keys = 1 .. Len(keys)
  BY <1>1, <1>2, <1>3 DEF KnownInv, CallInv
<1>5. \A i \in FirstOnes : Nodes[i].eth["key"] = keys[i]
  BY <1>1 DEF FirstOnes, PlaceInv
<1>6. genesis.fullnodes = {keys[i] : i \in DOMAIN keys}
  BY <1>1 DEF FileInv, ToSet
<1> HIDE DEF FirstOnes
<1> QED BY <1>4, <1>5, <1>6

\* Every step keeps it.
LEMMA KnownInvNext ==
  Base /\ DOMAIN lib = Shared /\ PlaceInv /\ FileInv /\ KnownInv /\ [Next]_vars => KnownInv'
<1> SUFFICES ASSUME Base, DOMAIN lib = Shared, PlaceInv, FileInv, KnownInv, [Next]_vars PROVE KnownInv'
  OBVIOUS
<1>t. CallInv /\ PartsInv /\ Len(Nodes) \in Nat /\ Len(fullnodes) \in Nat
  BY NodesOf DEF Base
<1>f. \A i \in FirstOnes : i \in 1 .. Len(Nodes) /\ i <= Len(fullnodes)
  BY <1>t DEF FirstOnes, PartsInv, FirstNodes
<1>1. CASE Kept /\ UNCHANGED fullnodes /\ \A i \in 1 .. Len(Nodes') : i \in 1 .. Len(Nodes)
  <2>1. /\ FirstOnes' = FirstOnes /\ \A i \in FirstOnes : Nodes'[i] = Nodes[i]
    <3>1. \A i \in 1 .. Len(Nodes') : i \in 1 .. Len(Nodes) /\ Nodes'[i] = Nodes[i]
      BY <1>1 DEF Kept
    <3>2. \A i \in FirstOnes : i \in 1 .. Len(Nodes')
      BY <1>1, <1>f, <1>t DEF Kept
    <3> QED BY <3>1, <3>2 DEF FirstOnes
  <2>2. Constructing' => FirstOnes' = 1 .. Len(Nodes')
    <3>1. CASE Constructing
      <4>1. FirstOnes = 1 .. Len(Nodes)
        BY <3>1 DEF KnownInv
      <4>2. FirstOnes' \subseteq 1 .. Len(Nodes')
        BY DEF FirstOnes
      <4> QED BY <1>1, <2>1, <4>1, <4>2
    <3>2. CASE ~ Constructing /\ Constructing'
      <4>1. ccall = "none"
        BY <3>2 DEF Constructing, Next, Chain, vars, chainVars, Construct, Invoke, Finalize, GenerateAccounts,
           GetIPs, GenerateKeys, SetupGenesis, SetupFullnode, PartDone, CreateNode, CreateDone, At
      <4>2. Len(fullnodes) = 0 /\ Len(created) = 0
        BY <1>t, <4>1 DEF PartsInv
      <4>3. Joined(Nodes, fullnodes, created)
        BY <1>t, ConcatIndices DEF PartsInv, Nodes
      <4>4. Len(Nodes) = 0
        BY <4>2, <4>3 DEF Joined
      <4>5. ~ \E i : i \in 1 .. Len(Nodes')
        BY <1>1, <4>4
      <4> QED BY <4>5 DEF FirstOnes
    <3> QED BY <3>1, <3>2
  <2>3. \/ genesis'.alloc = genesis.alloc /\ genesis'.fullnodes = genesis.fullnodes
        \/ FirstOnes = {}
    <3>1. CASE SetupGenesis /\ genesis.file = NoFile
      <4>1. Len(fullnodes) = 0
        BY <3>1 DEF FileInv
      <4>2. \A i \in FirstOnes : FALSE
        BY <1>f, <4>1
      <4> QED BY <4>2
    <3>2. CASE ~ (SetupGenesis /\ genesis.file = NoFile) /\ ~ Finalize
      <4>1. UNCHANGED genesis
        BY <3>2 DEF Next, Chain, vars, chainVars, fields, Construct, Invoke, GenerateAccounts, GetIPs,
           GenerateKeys, SetupGenesis, NeedsGenesis, SetupFullnode, PartDone, CreateNode, CreateDone
      <4> QED BY <4>1
    <3>3. CASE Finalize
      BY <3>3 DEF Finalize, FileInv
    <3> QED BY <3>1, <3>2, <3>3
  <2>4. Constructed' => Constructed \/ (Constructing /\ PartDone /\ cresult' = "nil")
    <3>1. CASE Construct
      BY <3>1 DEF Construct, Constructed
    <3>2. CASE Invoke \/ Finalize
      BY <3>2 DEF Invoke, Finalize, Constructed, Constructing
    <3>3. CASE UNCHANGED chainVars
      BY <3>3 DEF chainVars, Constructed
    <3>4. CASE PartDone
      BY <3>4 DEF PartDone, At, Constructed, Constructing
    <3>5. CASE GenerateAccounts \/ GetIPs \/ GenerateKeys \/ SetupGenesis
      <4>1. cpc \in Earlier /\ ccall' = ccall
        BY <3>5 DEF GenerateAccounts, GetIPs, GenerateKeys, SetupGenesis, At, Earlier
      <4>2. cresult = "busy" /\ ccall # "none"
        BY <1>t, <4>1 DEF CallInv, Earlier
      <4>3. ccall = "New" => cresult' # "nil"
        BY <3>5, <4>2 DEF GenerateAccounts, GetIPs, GenerateKeys, SetupGenesis, Goto, Return, Failure
      <4> QED BY <4>1, <4>2, <4>3 DEF Constructed
    <3>6. CASE SetupFullnode \/ CreateNode \/ CreateDone
      <4>1. cpc \in {"setup", "create"} /\ ccall' = ccall /\ (cpc = "create" => ccall = "CreateNodes")
        BY <1>t, <3>6 DEF SetupFullnode, CreateNode, CreateDone, At, CallInv
      <4>2. cresult = "busy" /\ ccall # "none"
        BY <1>t, <4>1 DEF CallInv
      <4>3. ccall = "New" => cresult' # "nil"
        BY <1>t, <3>6, <4>1, <4>2 DEF SetupFullnode, CreateNode, CreateDone, At, NextNode, Return, Failure
      <4> QED BY <4>1, <4>2, <4>3 DEF Constructed
    <3> QED BY <3>1, <3>2, <3>3, <3>4, <3>5, <3>6 DEF Next, Chain, vars
  <2>5. \A i \in FirstOnes' : Nodes'[i].eth["key"] \in genesis'.alloc
    BY <2>1, <2>3 DEF KnownInv
  <2>6. Constructed' /\ FirstOnes' # {} => genesis'.fullnodes = {Nodes'[i].eth["key"] : i \in FirstOnes'}
    <3>1. Constructed' /\ FirstOnes # {} => genesis.fullnodes = {Nodes[i].eth["key"] : i \in FirstOnes}
      BY <2>4, Complete DEF KnownInv
    <3> QED BY <2>1, <2>3, <3>1
  <2> QED BY <2>2, <2>5, <2>6 DEF KnownInv
<1>2. ASSUME NEW n, Grown(n), \A i \in 1 .. Len(Nodes') : i \in 1 .. Len(Nodes) \/ i = Len(Nodes) + 1,
             UNCHANGED <<genesis, ccall>>, n.role \notin FirstNodes, ~ Constructing, ccall # "none"
      PROVE  KnownInv'
  <2>1. /\ FirstOnes' = FirstOnes /\ \A i \in FirstOnes : Nodes'[i] = Nodes[i]
    BY <1>2, <1>t DEF FirstOnes, Grown
  <2> QED BY <1>2, <2>1 DEF KnownInv, Constructing, Constructed
<1>3. ASSUME NEW n, Grown(n), \A i \in 1 .. Len(Nodes') : i \in 1 .. Len(Nodes) \/ i = Len(Nodes) + 1,
             UNCHANGED <<genesis, ccall>>, n.role \in FirstNodes, Constructing, cresult' # "nil",
             n.eth["key"] \in genesis.alloc
      PROVE  KnownInv'
  <2>1. \A i \in 1 .. Len(Nodes) : Nodes'[i] = Nodes[i] /\ Nodes[i].role \in FirstNodes
                                     /\ Nodes[i].eth["key"] \in genesis.alloc
    BY <1>3 DEF FirstOnes, Grown, KnownInv
  <2>2. \A i \in 1 .. Len(Nodes') : Nodes'[i].role \in FirstNodes /\ Nodes'[i].eth["key"] \in genesis.alloc
    BY <1>3, <2>1 DEF Grown
  <2>3. FirstOnes' = 1 .. Len(Nodes')
    BY <2>2 DEF FirstOnes
  <2> QED BY <1>3, <2>2, <2>3 DEF KnownInv, Constructing, Constructed
<1>4. CASE /\ \A i \in 1 .. Len(Nodes') : i \in 1 .. Len(Nodes) \/ i = Len(Nodes) + 1
           /\ cpc' # "idle" /\ UNCHANGED <<genesis, keys, ccall>> /\ Position \in Nat
           /\ cpc = "setup" /\ ccall \in {"New", "AddFullnodes"} /\ FirstOfPart + index < EndOfPart
           /\ \E files : Grown(Node(files))
           /\ Configured.eth["key"] = keys[Position + 1] /\ SetupFullnode
  <2>1. PICK files : Grown(Node(files))
    BY <1>4
  <2> DEFINE n == Node(files)
  <2>2. n.eth = Configured.eth /\ n.role = IF Constructing THEN opts ELSE ccall
    BY NodeFields
  <2> HIDE DEF n
  <2>3. Grown(n)
    BY <2>1 DEF n
  <2>4. CASE Constructing
    <3>1. n.role \in FirstNodes
      BY <1>t, <2>2, <2>4 DEF FirstNodes, CallInv
    <3>2. cresult' # "nil"
      BY <1>4, <1>t DEF SetupFullnode, Return, NextNode, CallInv
    <3>3. Position + 1 \in 1 .. Len(keys)
      <4>1. normal \in Nat /\ faulty \in Nat /\ (TwoParts => Len(keys) = Total) /\ Len(keys) \in Nat
        BY <1>4, <1>t, ShapesAssumption DEF CallInv, TwoParts
      <4>2. EndOfPart <= Len(keys) /\ EndOfPart \in Nat
        BY <4>1 DEF EndOfPart, Total
      <4>3. Position < EndOfPart
        BY <1>4 DEF Position
      <4> QED BY <1>4, <4>1, <4>2, <4>3
    <3>4. DOMAIN keys = 1 .. Len(keys) /\ ToSet(keys) \subseteq genesis.alloc
      BY <1>4, <1>t, <2>4 DEF CallInv, FileInv
    <3>5. n.eth["key"] \in genesis.alloc
      BY <1>4, <2>2, <3>3, <3>4 DEF ToSet
    <3> QED BY <1>3, <1>4, <2>3, <2>4, <3>1, <3>2, <3>5
  <2>5. CASE ~ Constructing
    <3>1. n.role \notin FirstNodes
      BY <1>4, <2>2, <2>5 DEF FirstNodes, Constructing
    <3> QED BY <1>2, <1>4, <2>3, <2>5, <3>1
  <2> QED BY <2>4, <2>5
<1>5. CASE /\ \A i \in 1 .. Len(Nodes') : i \in 1 .. Len(Nodes) \/ i = Len(Nodes) + 1
           /\ UNCHANGED <<genesis, ccall>> /\ ccall = "CreateNodes" /\ Grown(Node(FALSE))
  <2> DEFINE n == Node(FALSE)
  <2>1. ~ Constructing /\ n.role \notin FirstNodes
    BY <1>5, NodeFields DEF FirstNodes, Constructing
  <2> HIDE DEF n
  <2>2. Grown(n)
    BY <1>5 DEF n
  <2> QED BY <1>2, <1>5, <2>1, <2>2
<1> QED BY <1>1, <1>4, <1>5, OldAndNew

\* The genesis of a chain lists the keys of the nodes its constructor made, all of
\* them, and knows the accounts of those that were added.
THEOREM GenesisIsOfTheNodes == Spec => []GenesisKnowsNodes
<1>1. ASSUME Base, FilledInv, FileInv, KnownInv PROVE GenesisKnowsNodes
  <2>t. PartsInv /\ PlaceInv
    BY <1>1 DEF Base, FilledInv
  <2>1. \A n \in ToSet(fullnodes) : \E i \in 1 .. Len(Nodes) : n = Nodes[i] /\ i <= Len(fullnodes)
    BY <2>t, NodesOf
  <2>2. \A i \in FirstOnes : Nodes[i] \in Initial
    <3>1. ASSUME NEW i \in FirstOnes PROVE Nodes[i] \in Initial
      <4>1. i \in 1 .. Len(Nodes) /\ Nodes[i].role \in {"normal", "faulty"} /\ i <= Len(fullnodes)
        BY <2>t DEF FirstOnes, FirstNodes, PartsInv
      <4>2. i \in DOMAIN fullnodes /\ Nodes[i] = fullnodes[i]
        BY <2>t, <4>1, NodesOf
      <4> QED BY <4>1, <4>2 DEF Initial, ToSet
    <3> QED BY <3>1
  <2>3. \A n \in Initial : \E i \in FirstOnes : n = Nodes[i]
    BY <2>1 DEF Initial, FirstOnes, FirstNodes
  <2>4. {n.eth["key"] : n \in Initial} = {Nodes[i].eth["key"] : i \in FirstOnes}
    BY <2>2, <2>3
  <2>5. Constructed /\ Initial # {} => genesis.fullnodes = {n.eth["key"] : n \in Initial}
    BY <1>1, <2>3, <2>4 DEF KnownInv
  <2>6. \A n \in Initial : n.eth["key"] \in genesis.alloc
    BY <1>1, <2>3 DEF KnownInv
  <2>7. ASSUME NEW n \in ToSet(fullnodes)
        PROVE  ToSet(n.eth["accounts"]) \subseteq genesis.alloc \cup {ZeroAccount}
    <3>1. PICK i \in 1 .. Len(Nodes) : n = Nodes[i] /\ i <= Len(fullnodes)
      BY <2>1
    <3>2. PICK a \in ToSet(accounts) \cup {ZeroAccount} : n.eth["accounts"] = <<a>>
      BY <2>t, <3>1 DEF PlaceInv, PartsInv
    <3>3. fullnodes # <<>>
      <4>1. fullnodes = <<>> => ToSet(fullnodes) = {}
        BY DEF ToSet
      <4> QED BY <4>1
    <3>4. a \in genesis.alloc \cup {ZeroAccount}
      BY <1>1, <3>2, <3>3 DEF FileInv
    <3> DEFINE s == n.eth["accounts"]
    <3> HIDE DEF s
    <3>5. s = <<a>>
      BY <3>2 DEF s
    <3>6. ToSet(s) = {a}
      BY <3>5 DEF ToSet
    <3> QED BY <3>4, <3>6 DEF s
  <2> QED BY <2>5, <2>6, <2>7 DEF GenesisKnowsNodes
<1>2. Base /\ FileInv /\ [Next]_vars => FileInv'
  BY FileInvNext DEF Base
<1>3. Base /\ FilledInv /\ FileInv /\ KnownInv /\ [Next]_vars => KnownInv'
  BY KnownInvNext DEF FilledInv, DataInv
<1> QED BY <1>1, <1>2, <1>3, FileInvInit, KnownInvInit, FilledAlways, PTL DEF Spec

\* The variables of the chain and of its vaults have their types.
THEOREM ProvisionTypeCorrect == Spec => []TypeOK
<1>1. ASSUME Base, FilledInv, FileInv PROVE TypeOK
  <2>t. VaultInv /\ SizeInv /\ CallInv /\ PartsInv /\ DataInv
    BY <1>1 DEF Base, FilledInv
  <2>1. VaultTypeOK
    BY <2>t DEF VaultTypeOK, VaultInv, PhaseInv, BoxInv, SizeInv, Vault, Making, Started
  <2>2. \A n \in ToSet(fullnodes) \cup ToSet(created) :
          DOMAIN n.eth = Fields /\ n.role \in Roles /\ n.files \in BOOLEAN
    BY <2>t, NodesOf DEF DataInv, PartsInv
  <2>3. /\ genesis.file \in {"file", "gone", "relative", NoFile} /\ genesis.smilo \in BOOLEAN
        /\ DOMAIN lib = Shared
    BY <1>1, <2>t DEF FileInv, DataInv
  <2>4. count \in 0 .. Total + Excess
    BY <2>t DEF CallInv
  <2> QED BY <2>t, <2>1, <2>2, <2>3, <2>4 DEF TypeOK, CallInv, Earlier
<1>2. Base /\ FileInv /\ [Next]_vars => FileInv'
  BY FileInvNext DEF Base
<1> QED BY <1>1, <1>2, FileInvInit, FilledAlways, PTL DEF Spec

=============================================================================

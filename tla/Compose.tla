------------------------------- MODULE Compose -------------------------------
(***************************************************************************)
(* The docker-compose files of docker/compose: sport.go, for a chain, and  *)
(* smilo.go, for a chain with a vault per node.  A file is built in loops: *)
(* the nodes, whose addresses replace the placeholders in a list that all  *)
(* share, then the vaults, then what each vault knows of the others.  The  *)
(* templates copy the result.  An address is its last byte; nodes, and so  *)
(* their vaults, are counted from 0.                                       *)
(***************************************************************************)
EXTENDS Integers, SequencesExt

CONSTANT FileSizes  \* numbers of nodes to make a file for

\* Vaults have addresses from 100 on: 90 nodes fit between 10 and them.
ASSUME SizesAssumption == FileSizes \subseteq 1 .. 90

VARIABLES
  number, withVaults,  \* arguments of New
  stage,               \* which loop is running
  staticNodes,         \* the list of nodes, as far as it has been filled in
  services,            \* sport.Services
  vaultServices,       \* the vaults of smilo.init
  smiloServices        \* smilo.SmiloServices: a node and a vault each

composeVars == <<number, withVaults, stage, staticNodes, services, vaultServices,
                 smiloServices>>

Placeholder == 0  \* "0.0.0.0"
Elsewhere == 250  \* a node of the list that is not of this file
StatsIP == 9
StatsPort == 3000

FullnodeIP(i) == i + 10
Port(i) == 30303 + i
RPCPort(i) == 8545 + i

VaultIPClose(i) == i + 20  \* mutant: the vaults come too early
VaultIP(i) == i + 100
VaultPort(i) == 10000 + i

ReplaceEvery(list, ip) ==  \* mutant: -1 in the place of 1
  [k \in DOMAIN list |-> IF list[k] = Placeholder THEN ip ELSE list[k]]

\* strings.Replace(staticNodes, "0.0.0.0", ip, 1)
ReplaceFirst(list, ip) ==
  LET k == SelectInSeq(list, LAMBDA host : host = Placeholder)
  IN IF k = 0 THEN list ELSE [list EXCEPT ![k] = ip]

NewFullnode(i) ==
  [Identity |-> i, Port |-> Port(i), RPCPort |-> RPCPort(i), IP |-> FullnodeIP(i),
   StaticNodes |-> <<>>]

NewVault(i) ==
  [Identity |-> i, IP |-> VaultIP(i), Port |-> VaultPort(i), OtherNodes |-> <<>>]

Host(v) == <<v.IP, v.Port>>

-----------------------------------------------------------------------------
ComposeInit ==
  /\ number = 0 /\ withVaults = FALSE /\ stage = "none" /\ staticNodes = <<>>
  /\ services = <<>> /\ vaultServices = <<>> /\ smiloServices = <<>>

\* New is given a list with a placeholder for every node of the file, and may
\* be others between them.
NewCompose ==
  /\ stage = "none" /\ stage' = "fullnodes"
  /\ number' \in FileSizes /\ withVaults' \in BOOLEAN
  /\ \E k \in {0, 1, number'} :
       staticNodes' = [i \in 1 .. k |-> Placeholder] \o <<Elsewhere>>
                        \o [i \in 1 .. number' - k |-> Placeholder]
  /\ UNCHANGED <<services, vaultServices, smiloServices>>

AddService ==
  LET s == NewFullnode(Len(services)) IN
  /\ stage = "fullnodes" /\ Len(services) < number
  /\ staticNodes' = ReplaceFirst(staticNodes, s.IP)
  /\ services' = Append(services, s)
  /\ UNCHANGED <<number, withVaults, stage, vaultServices, smiloServices>>

UpdateStaticNodes ==
  /\ stage = "fullnodes" /\ Len(services) = number
  /\ services' = [k \in DOMAIN services |-> [services[k] EXCEPT !.StaticNodes = staticNodes]]
  /\ stage' = IF withVaults THEN "vaults" ELSE "done"
  /\ UNCHANGED <<number, withVaults, staticNodes, vaultServices, smiloServices>>

AddVault ==
  /\ stage = "vaults" /\ Len(vaultServices) < number
  /\ vaultServices' =
       Append(vaultServices, NewVault(services[Len(vaultServices) + 1].Identity))
  /\ UNCHANGED <<number, withVaults, stage, staticNodes, services, smiloServices>>

\* The hosts of the vaults other than the k-th, in order.
OthersOf(k) ==
  [j \in 1 .. number - 1 |-> Host(vaultServices[IF j < k THEN j ELSE j + 1])]

AddSmiloService ==
  LET k == Len(smiloServices) + 1 IN
  /\ stage = "vaults" /\ Len(vaultServices) = number /\ k <= number
  /\ vaultServices' = [vaultServices EXCEPT ![k].OtherNodes = OthersOf(k)]
  /\ smiloServices' = Append(smiloServices, [node |-> k, vault |-> k])
  /\ UNCHANGED <<number, withVaults, stage, staticNodes, services>>

SmiloDone ==
  /\ stage = "vaults" /\ Len(smiloServices) = number
  /\ stage' = "done"
  /\ UNCHANGED <<number, withVaults, staticNodes, services, vaultServices, smiloServices>>

\* The volumes that the template declares.
PrintVolumes == 0 .. number - 1

ComposeNext == \/ NewCompose \/ AddService \/ UpdateStaticNodes
               \/ AddVault \/ AddSmiloService \/ SmiloDone

ComposeSpec == ComposeInit /\ [][ComposeNext]_composeVars

-----------------------------------------------------------------------------
(* Properties                                                              *)

AddressesDiffer ==
  /\ \A i, j \in DOMAIN services : i # j => services[i].IP # services[j].IP
  /\ \A i, j \in DOMAIN vaultServices : i # j => vaultServices[i].IP # vaultServices[j].IP
  /\ \A i \in DOMAIN services, j \in DOMAIN vaultServices : services[i].IP # vaultServices[j].IP
  /\ \A i \in DOMAIN services : services[i].IP \in 2 .. 254 \ {StatsIP}
  /\ \A i \in DOMAIN vaultServices : vaultServices[i].IP \in 2 .. 254 \ {StatsIP}

Published(s) == {s.Port, s.RPCPort}

PortsDiffer ==
  /\ \A i, j \in DOMAIN services : i # j => Published(services[i]) \cap Published(services[j]) = {}
  /\ \A i, j \in DOMAIN vaultServices : i # j => vaultServices[i].Port # vaultServices[j].Port
  /\ \A i \in DOMAIN services, j \in DOMAIN vaultServices :
       vaultServices[j].Port \notin Published(services[i])
  /\ \A i \in DOMAIN services :
       StatsPort \notin Published(services[i]) /\ services[i].Port # services[i].RPCPort
  /\ \A i \in DOMAIN vaultServices : vaultServices[i].Port # StatsPort

\* The services of a file have different addresses of hosts in its subnet, for
\* those of the nodes do not reach those of the vaults, and the ports that it
\* publishes on the host are different, too.
NothingCollides == AddressesDiffer /\ PortsDiffer

\* The addresses of the nodes, in order, with a host that is elsewhere after k.
ListWith(k) ==
  [j \in 1 .. number + 1 |-> IF j = k + 1 THEN Elsewhere
                             ELSE services[IF j <= k THEN j ELSE j - 1].IP]

\* In a finished file the services know each other.  Every node has the same
\* list: the placeholders have become the addresses of the nodes, in order, and
\* the host that is elsewhere has stayed.  Each vault knows the address and port
\* of every other vault, once, and not its own, although each was set while the
\* others were not complete; and it shares a declared volume with its node.
ServicesKnowEachOther ==
  stage = "done" =>
    /\ \E k \in 0 .. number : \A i \in DOMAIN services : services[i].StaticNodes = ListWith(k)
    /\ withVaults => Len(smiloServices) = number
    /\ \A s \in ToSet(smiloServices) :
         LET v == vaultServices[s.vault] IN
         /\ ToSet(v.OtherNodes) = {Host(w) : w \in ToSet(vaultServices) \ {v}}
         /\ Len(v.OtherNodes) = number - 1
         /\ v.Identity = services[s.node].Identity /\ v.Identity \in PrintVolumes

=============================================================================

---------------------------- MODULE ComposeProofs ----------------------------
(***************************************************************************)
(* Addresses and ports of a compose file never collide as long as its      *)
(* nodes fit below the vaults, and always do when they no longer fit.      *)
(***************************************************************************)
EXTENDS Compose, SequenceTheorems, TLAPS

-----------------------------------------------------------------------------
(* The inductive invariant                                                 *)

Service == [Identity : Nat, Port : Nat, RPCPort : Nat, IP : Nat, StaticNodes : Seq(Nat)]

VaultFields == {"Identity", "IP", "Port", "OtherNodes"}

\* The k-th node has what is computed from k - 1.
NodeInv ==
  /\ staticNodes \in Seq(Nat) /\ services \in Seq(Service) /\ Len(services) <= number
  /\ \A k \in 1 .. Len(services) :
       /\ services[k].Identity = k - 1 /\ services[k].IP = FullnodeIP(k - 1)
       /\ services[k].Port = Port(k - 1) /\ services[k].RPCPort = RPCPort(k - 1)

\* The k-th vault has what is computed from k - 1, whatever it knows of others.
VaultInv ==
  /\ \E S : vaultServices \in Seq(S)
  /\ Len(vaultServices) <= number
  /\ \A k \in 1 .. Len(vaultServices) :
       /\ DOMAIN vaultServices[k] = VaultFields
       /\ vaultServices[k].IP = VaultIP(k - 1)
       /\ vaultServices[k].Port = VaultPort(k - 1)

\* There are no more of either than fit.
SizeInv ==
  /\ number \in 0 .. 90
  /\ stage = "none" => services = <<>> /\ vaultServices = <<>>
  /\ stage = "vaults" => Len(services) = number
  /\ smiloServices \in Seq([node : Nat, vault : Nat])

ComposeInv == NodeInv /\ VaultInv /\ SizeInv

\* It holds when no file has been begun.
LEMMA ComposeInvInit == ComposeInit => ComposeInv
  BY DEF ComposeInit, ComposeInv, NodeInv, VaultInv, SizeInv

\* A placeholder is replaced by an address: the list remains a list.
LEMMA ReplaceFirstType ==
  ASSUME NEW list \in Seq(Nat), NEW ip \in Nat PROVE ReplaceFirst(list, ip) \in Seq(Nat)
<1> DEFINE k == SelectInSeq(list, LAMBDA host : host = Placeholder)
<1>1. ReplaceFirst(list, ip) = IF k = 0 THEN list ELSE [list EXCEPT ![k] = ip]
  BY DEF ReplaceFirst
<1> HIDE DEF k
<1>2. [list EXCEPT ![k] = ip] \in Seq(Nat)
  <2>1. Len(list) \in Nat /\ list \in [1 .. Len(list) -> Nat]
    BY LenProperties
  <2>2. [list EXCEPT ![k] = ip] \in [1 .. Len(list) -> Nat]
    BY <2>1
  <2> QED BY <2>1, <2>2, SeqDef
<1> QED BY <1>1, <1>2

\* Every iteration of the loops keeps it.
LEMMA ComposeInvNext == ComposeInv /\ [ComposeNext]_composeVars => ComposeInv'
<1> SUFFICES ASSUME ComposeInv, [ComposeNext]_composeVars PROVE ComposeInv'
  OBVIOUS
<1> USE DEF ComposeInv, SizeInv
<1>1. CASE NewCompose
  <2>1. PICK k \in {0, 1, number'} :
          staticNodes' = [i \in 1 .. k |-> Placeholder] \o <<Elsewhere>>
                           \o [i \in 1 .. number' - k |-> Placeholder]
    BY <1>1 DEF NewCompose
  <2>2. number' \in 1 .. 90
    BY <1>1, SizesAssumption DEF NewCompose
  <2>3. k \in Nat /\ number' - k \in Nat
    <3> DEFINE n == number'
    <3>1. n \in 1 .. 90 /\ k \in {0, 1, n} BY <2>2
    <3> HIDE DEF n
    <3>2. k \in Nat /\ n - k \in Nat BY <3>1
    <3> QED BY <3>2 DEF n
  <2>4. ASSUME NEW m \in Nat PROVE [i \in 1 .. m |-> Placeholder] \in Seq(Nat)
    <3> DEFINE f == [i \in 1 .. m |-> Placeholder]
    <3>1. f \in [1 .. m -> Nat]
      BY DEF Placeholder
    <3> HIDE DEF f
    <3>2. f \in UNION {[1 .. n -> Nat] : n \in Nat}
      BY <3>1
    <3>3. f \in Seq(Nat)
      BY <3>2, SeqDef
    <3> QED BY <3>3 DEF f
  <2>5. <<Elsewhere>> \in Seq(Nat)
    BY DEF Elsewhere
  <2>6. staticNodes' \in Seq(Nat)
    <3> DEFINE a == [i \in 1 .. k |-> Placeholder]
               b == [i \in 1 .. number' - k |-> Placeholder]
    <3>1. a \in Seq(Nat) /\ b \in Seq(Nat) BY <2>3, <2>4
    <3>2. staticNodes' = a \o <<Elsewhere>> \o b BY <2>1
    <3> HIDE DEF a, b
    <3>3. a \o <<Elsewhere>> \in Seq(Nat) BY <3>1, <2>5, ConcatProperties
    <3> QED BY <3>1, <3>2, <3>3, ConcatProperties
  <2>7. services = <<>> /\ vaultServices = <<>>
    BY <1>1 DEF NewCompose
  <2>8. UNCHANGED <<services, vaultServices, smiloServices>> /\ stage' = "fullnodes"
    BY <1>1 DEF NewCompose
  <2>9. NodeInv'
    <3>1. services' = <<>> /\ Len(services') = 0 /\ services' \in Seq(Service)
      BY <2>7, <2>8
    <3>2. \A j \in 1 .. Len(services') : FALSE
      BY <3>1
    <3>3. 0 <= number'
      BY <2>2
    <3> QED BY <2>6, <3>1, <3>2, <3>3 DEF NodeInv
  <2>10. VaultInv'
    BY <2>2, <2>7, <2>8 DEF VaultInv
  <2>11. SizeInv'
    BY <2>2, <2>8
  <2> QED BY <2>9, <2>10, <2>11
<1>2. CASE AddService
  <2> DEFINE i == Len(services)
             s == NewFullnode(i)
  <2>1. /\ i \in Nat /\ i < number /\ stage # "none" /\ stage # "vaults"
        /\ services' = Append(services, s)
        /\ staticNodes' = ReplaceFirst(staticNodes, s.IP)
        /\ UNCHANGED <<number, stage, vaultServices, smiloServices>>
    BY <1>2 DEF AddService, NodeInv
  <2>2. /\ s \in Service /\ s.Identity = i /\ s.IP = FullnodeIP(i) /\ s.Port = Port(i) /\ s.RPCPort = RPCPort(i)
        /\ s.IP \in Nat
    BY <2>1 DEF NewFullnode, Service, FullnodeIP, Port, RPCPort
  <2> HIDE DEF s
  <2>3. staticNodes' \in Seq(Nat)
    BY <2>1, <2>2, ReplaceFirstType DEF NodeInv
  <2>4. /\ services' \in Seq(Service) /\ Len(services') = i + 1 /\ services'[i + 1] = s
        /\ \A k \in 1 .. i : services'[k] = services[k]
    BY <2>1, <2>2 DEF NodeInv
  <2>5. ASSUME NEW k \in 1 .. i + 1
        PROVE  /\ services'[k].Identity = k - 1 /\ services'[k].IP = FullnodeIP(k - 1)
               /\ services'[k].Port = Port(k - 1) /\ services'[k].RPCPort = RPCPort(k - 1)
    <3>0. i \in Nat BY <2>1
    <3> HIDE DEF i
    <3>1. CASE k = i + 1
      <4>1. k - 1 = i BY <3>0, <3>1
      <4> QED BY <2>2, <2>4, <3>1, <4>1
    <3>2. CASE k # i + 1
      <4>1. k \in 1 .. i BY <3>0, <3>2
      <4>2. services'[k] = services[k] BY <2>4, <4>1
      <4>3. k \in 1 .. Len(services) BY <4>1 DEF i
      <4> QED BY <4>2, <4>3 DEF NodeInv
    <3> QED BY <3>1, <3>2
  <2>6. NodeInv'
    <3>1. number' = number /\ i + 1 <= number BY <2>1
    <3> QED BY <2>3, <2>4, <2>5, <3>1 DEF NodeInv
  <2> QED BY <2>1, <2>6 DEF VaultInv
<1>3. CASE UpdateStaticNodes
  <2>1. /\ services \in Seq(Service) /\ staticNodes \in Seq(Nat)
        /\ services' = [k \in 1 .. Len(services) |->
                          [services[k] EXCEPT !.StaticNodes = staticNodes]]
        /\ \A k \in 1 .. Len(services) : services[k] \in Service
    BY <1>3 DEF UpdateStaticNodes, NodeInv
  <2>2. \A k \in 1 .. Len(services) :
          /\ services'[k] \in Service
          /\ services'[k].Identity = services[k].Identity
          /\ services'[k].IP = services[k].IP /\ services'[k].Port = services[k].Port
          /\ services'[k].RPCPort = services[k].RPCPort
    BY <2>1 DEF Service
  <2>3. services' \in Seq(Service) /\ Len(services') = Len(services)
    BY <2>1, <2>2
  <2>4. NodeInv'
    BY <1>3, <2>2, <2>3 DEF UpdateStaticNodes, NodeInv
  <2> QED BY <1>3, <2>3, <2>4 DEF UpdateStaticNodes, VaultInv
<1>4. CASE AddVault
  <2> DEFINE i == Len(vaultServices)
             v == NewVault(services[i + 1].Identity)
  <2>1. PICK S : vaultServices \in Seq(S)
    BY DEF VaultInv
  <2>2. /\ i \in Nat /\ i < number /\ Len(services) = number /\ stage = "vaults"
        /\ vaultServices' = Append(vaultServices, v)
        /\ UNCHANGED <<number, stage, staticNodes, services, smiloServices>>
    BY <1>4, <2>1 DEF AddVault
  <2>3. services[i + 1].Identity = i
    <3>1. i + 1 \in 1 .. Len(services)
      BY <2>2
    <3> QED BY <2>2, <3>1 DEF NodeInv
  <2>4. DOMAIN v = VaultFields /\ v.IP = VaultIP(i) /\ v.Port = VaultPort(i)
    BY <2>3 DEF NewVault, VaultFields
  <2> HIDE DEF v
  <2>5. vaultServices \in Seq(S \cup {v}) /\ v \in S \cup {v}
    BY <2>1
  <2>6. /\ vaultServices' \in Seq(S \cup {v}) /\ Len(vaultServices') = i + 1
        /\ vaultServices'[i + 1] = v
        /\ \A k \in 1 .. i : vaultServices'[k] = vaultServices[k]
    BY <2>2, <2>5
  <2>7. VaultInv'
    BY <2>2, <2>4, <2>6 DEF VaultInv
  <2>8. NodeInv' BY <2>2 DEF NodeInv
  <2> QED BY <2>2, <2>7, <2>8
<1>5. CASE AddSmiloService
  <2> DEFINE j == Len(smiloServices) + 1
             v == [vaultServices[j] EXCEPT !.OtherNodes = OthersOf(j)]
  <2>1. PICK S : vaultServices \in Seq(S)
    BY DEF VaultInv
  <2>2. /\ j \in 1 .. Len(vaultServices) /\ stage = "vaults"
        /\ vaultServices' = [vaultServices EXCEPT ![j] = v]
        /\ smiloServices' = Append(smiloServices, [node |-> j, vault |-> j])
        /\ UNCHANGED <<number, stage, staticNodes, services>>
    BY <1>5, <2>1 DEF AddSmiloService
  <2>3. /\ DOMAIN v = VaultFields
        /\ v.IP = vaultServices[j].IP /\ v.Port = vaultServices[j].Port
    BY <2>2 DEF VaultInv, VaultFields
  <2> HIDE DEF v
  <2>4. vaultServices \in Seq(S \cup {v}) /\ v \in S \cup {v}
    BY <2>1
  <2>5. /\ vaultServices' \in Seq(S \cup {v}) /\ Len(vaultServices') = Len(vaultServices)
        /\ vaultServices'[j] = v
        /\ \A k \in 1 .. Len(vaultServices) : k # j => vaultServices'[k] = vaultServices[k]
    BY <2>2, <2>4
  <2>6. VaultInv'
    BY <2>2, <2>3, <2>5 DEF VaultInv
  <2>7. NodeInv' BY <2>2 DEF NodeInv
  <2>8. smiloServices' \in Seq([node : Nat, vault : Nat])
    BY <2>2
  <2> QED BY <2>2, <2>6, <2>7, <2>8
<1>6. CASE SmiloDone
  BY <1>6 DEF SmiloDone, NodeInv, VaultInv
<1>7. CASE UNCHANGED composeVars
  BY <1>7 DEF composeVars, NodeInv, VaultInv
<1> QED BY <1>1, <1>2, <1>3, <1>4, <1>5, <1>6, <1>7 DEF ComposeNext

-----------------------------------------------------------------------------
(* Results                                                                 *)

\* What is computed from different indices below 90 is different.
LEMMA InvImpliesDistinct == ComposeInv => NothingCollides
<1> SUFFICES ASSUME ComposeInv PROVE AddressesDiffer /\ PortsDiffer
  BY DEF NothingCollides
<1>1. ASSUME NEW k \in DOMAIN services PROVE k \in 1 .. Len(services) /\ k \in 1 .. 90
  <2> DEFINE n == Len(services)
  <2>1. services \in Seq(Service)
    BY DEF ComposeInv, NodeInv
  <2>2. n \in Nat /\ k \in 1 .. n
    BY <2>1, LenProperties
  <2>3. n <= number /\ number \in 0 .. 90
    BY DEF ComposeInv, NodeInv, SizeInv
  <2> HIDE DEF n
  <2>4. k \in 1 .. 90
    BY <2>2, <2>3
  <2> QED BY <2>2, <2>4 DEF n
<1>2. ASSUME NEW k \in DOMAIN services
      PROVE  /\ k \in 1 .. 90 /\ services[k].IP = k + 9
             /\ services[k].Port = k + 30302 /\ services[k].RPCPort = k + 8544
  BY <1>1 DEF ComposeInv, NodeInv, FullnodeIP, Port, RPCPort
<1>3. ASSUME NEW k \in DOMAIN vaultServices
      PROVE  k \in 1 .. 90 /\ vaultServices[k].IP = k + 99 /\ vaultServices[k].Port = k + 9999
  <2> DEFINE n == Len(vaultServices)
  <2>1. PICK S : vaultServices \in Seq(S)
    BY DEF ComposeInv, VaultInv
  <2>2. n \in Nat /\ k \in 1 .. n
    BY <2>1, LenProperties
  <2>3. n <= number /\ number \in 0 .. 90
    BY DEF ComposeInv, VaultInv, SizeInv
  <2>4. vaultServices[k].IP = VaultIP(k - 1) /\ vaultServices[k].Port = VaultPort(k - 1)
    BY <2>2 DEF ComposeInv, VaultInv
  <2> HIDE DEF n
  <2>5. k \in 1 .. 90
    BY <2>2, <2>3
  <2> QED BY <2>4, <2>5 DEF VaultIP, VaultPort
<1>4. AddressesDiffer
  <2>1. ASSUME NEW i \in DOMAIN services, NEW j \in DOMAIN services, i # j
        PROVE  services[i].IP # services[j].IP
    BY <1>2, <2>1
  <2>2. ASSUME NEW i \in DOMAIN vaultServices, NEW j \in DOMAIN vaultServices, i # j
        PROVE  vaultServices[i].IP # vaultServices[j].IP
    BY <1>3, <2>2
  <2>3. ASSUME NEW i \in DOMAIN services, NEW j \in DOMAIN vaultServices
        PROVE  services[i].IP # vaultServices[j].IP
    BY <1>2, <1>3
  <2>4. \A i \in DOMAIN services : services[i].IP \in 2 .. 254 \ {StatsIP}
    BY <1>2 DEF StatsIP
  <2>5. \A i \in DOMAIN vaultServices : vaultServices[i].IP \in 2 .. 254 \ {StatsIP}
    BY <1>3 DEF StatsIP
  <2> QED BY <2>1, <2>2, <2>3, <2>4, <2>5 DEF AddressesDiffer
<1>5. PortsDiffer
  <2>1. ASSUME NEW i \in DOMAIN services, NEW j \in DOMAIN services, i # j
        PROVE  Published(services[i]) \cap Published(services[j]) = {}
    BY <1>2, <2>1 DEF Published
  <2>2. ASSUME NEW i \in DOMAIN vaultServices, NEW j \in DOMAIN vaultServices, i # j
        PROVE  vaultServices[i].Port # vaultServices[j].Port
    BY <1>3, <2>2
  <2>3. ASSUME NEW i \in DOMAIN services, NEW j \in DOMAIN vaultServices
        PROVE  vaultServices[j].Port \notin Published(services[i])
    <3>1. vaultServices[j].Port # services[i].Port
      BY <1>2, <1>3
    <3>2. vaultServices[j].Port # services[i].RPCPort
      BY <1>2, <1>3
    <3> QED BY <3>1, <3>2 DEF Published
  <2>4. \A i \in DOMAIN services :
          StatsPort \notin Published(services[i]) /\ services[i].Port # services[i].RPCPort
    BY <1>2 DEF Published, StatsPort
  <2>5. \A i \in DOMAIN vaultServices : vaultServices[i].Port # StatsPort
    BY <1>3 DEF StatsPort
  <2> QED BY <2>1, <2>2, <2>3, <2>4, <2>5 DEF PortsDiffer
<1> QED BY <1>4, <1>5

\* The services of a file with at most 90 nodes have different addresses of
\* hosts, none of them the gateway's or that of the statistics, and the ports
\* that it publishes are different, at every point of its construction.
THEOREM Distinct == ComposeSpec => []NothingCollides
<1>1. ComposeSpec => []ComposeInv
  BY ComposeInvInit, ComposeInvNext, PTL DEF ComposeSpec
<1> QED BY <1>1, InvImpliesDistinct, PTL

\* From 91 nodes on the node with index 90 is given the address of the first
\* vault: the assumption on the number of nodes cannot be weakened.
THEOREM CollideFrom91 ==
  \A n \in Nat : n > 90 =>
    \E i, j \in 0 .. n - 1 : NewFullnode(i).IP = NewVault(j).IP
<1> SUFFICES ASSUME NEW n \in Nat, n > 90
             PROVE  \E i, j \in 0 .. n - 1 : NewFullnode(i).IP = NewVault(j).IP
  OBVIOUS
<1>1. 90 \in 0 .. n - 1 /\ 0 \in 0 .. n - 1 OBVIOUS
<1>2. NewFullnode(90).IP = 100 /\ NewVault(0).IP = 100
  BY DEF NewFullnode, NewVault, FullnodeIP, VaultIP
<1> QED BY <1>1, <1>2

-----------------------------------------------------------------------------
(* What the services know of each other                                    *)

\* The node whose address belongs in a list with a host elsewhere after k.
Place(k, j) == IF j <= k THEN j ELSE j - 1

\* Such a list, with the addresses of the first m nodes.
Filled(k, m) ==
  [j \in 1 .. number + 1 |-> IF j = k + 1 THEN Elsewhere
                             ELSE IF Place(k, j) <= m THEN FullnodeIP(Place(k, j) - 1)
                             ELSE Placeholder]

ListInv ==
  /\ stage \in {"none", "fullnodes", "vaults", "done"}
  /\ stage = "fullnodes" => \E k \in 0 .. number : staticNodes = Filled(k, Len(services))
  /\ stage \in {"vaults", "done"} =>
       /\ Len(services) = number
       /\ \E k \in 0 .. number : \A i \in 1 .. number : services[i].StaticNodes = Filled(k, number)

\* The first placeholder is the one of the next node.
LEMMA NextPlaceholder ==
  ASSUME number \in Nat, NEW k \in 0 .. number, NEW m \in 0 .. number - 1
  PROVE  ReplaceFirst(Filled(k, m), FullnodeIP(m)) = Filled(k, m + 1)
<1> DEFINE p == IF m < k THEN m + 1 ELSE m + 2
           list == Filled(k, m)
           I == {i \in 1 .. Len(list) : list[i] = Placeholder}
<1>1. p \in 1 .. number + 1 /\ p # k + 1 /\ Place(k, p) = m + 1
  BY DEF Place
<1>2. \A j \in 1 .. number + 1 : j # p /\ j # k + 1 => Place(k, j) # m + 1 /\ (j < p <=> Place(k, j) <= m)
  BY DEF Place
<1>3. \A j \in 1 .. number + 1 : j # k + 1 => Place(k, j) \in 1 .. number
  BY DEF Place
<1>4. \A i \in 0 .. number : FullnodeIP(i) # Placeholder /\ FullnodeIP(i) \in Nat
  BY DEF FullnodeIP, Placeholder
<1>5. Elsewhere # Placeholder /\ Elsewhere \in Nat /\ Placeholder \in Nat
  BY DEF Elsewhere, Placeholder
<1>6. /\ DOMAIN list = 1 .. number + 1
      /\ \A j \in 1 .. number + 1 :
           list[j] = IF j = k + 1 THEN Elsewhere
                     ELSE IF Place(k, j) <= m THEN FullnodeIP(Place(k, j) - 1) ELSE Placeholder
  BY DEF Filled
<1>7. Len(list) = number + 1
  BY DEF Filled
<1> HIDE DEF list, p
<1>8. p \in I /\ \A y \in I : p <= y
  <2>1. p \in I
    BY <1>1, <1>6, <1>7
  <2>2. ASSUME NEW y \in I PROVE p <= y
    <3>1. y \in 1 .. number + 1 /\ list[y] = Placeholder
      BY <1>7
    <3>2. y # k + 1
      BY <1>5, <1>6, <3>1
    <3>3. ~ (Place(k, y) <= m)
      <4>1. Place(k, y) <= m => list[y] = FullnodeIP(Place(k, y) - 1)
        BY <1>6, <3>1, <3>2
      <4>2. Place(k, y) - 1 \in 0 .. number
        BY <1>3, <3>1, <3>2
      <4> QED BY <1>4, <3>1, <4>1, <4>2
    <3> QED BY <1>1, <1>2, <3>1, <3>2, <3>3
  <2> QED BY <2>1, <2>2
<1>9. SelectInSeq(list, LAMBDA host : host = Placeholder) = p
  <2>1. I # {} /\ \A x \in I : (\A y \in I : x <= y) => x = p
    BY <1>1, <1>7, <1>8
  <2>2. Min(I) = p
    BY <1>8, <2>1 DEF Min
  <2> QED BY <2>1, <2>2 DEF SelectInSeq
<1>10. ReplaceFirst(list, FullnodeIP(m)) = [list EXCEPT ![p] = FullnodeIP(m)]
  <2>1. p # 0
    BY <1>1
  <2> DEFINE found == SelectInSeq(list, LAMBDA host : host = Placeholder)
  <2>2. ReplaceFirst(list, FullnodeIP(m)) = IF found = 0 THEN list ELSE [list EXCEPT ![found] = FullnodeIP(m)]
    BY DEF ReplaceFirst
  <2>3. found = p
    BY <1>9
  <2> HIDE DEF found
  <2> QED BY <2>1, <2>2, <2>3
<1> DEFINE new == [list EXCEPT ![p] = FullnodeIP(m)]
           next == Filled(k, m + 1)
<1>11. /\ DOMAIN next = 1 .. number + 1
       /\ \A j \in 1 .. number + 1 :
            next[j] = IF j = k + 1 THEN Elsewhere
                      ELSE IF Place(k, j) <= m + 1 THEN FullnodeIP(Place(k, j) - 1) ELSE Placeholder
  BY DEF Filled
<1>12. /\ DOMAIN new = 1 .. number + 1 /\ new[p] = FullnodeIP(m)
       /\ \A j \in 1 .. number + 1 : j # p => new[j] = list[j]
  BY <1>1, <1>6
<1>14. next = [j \in 1 .. number + 1 |-> next[j]] /\ new = [j \in 1 .. number + 1 |-> new[j]]
  BY <1>6 DEF Filled
<1> HIDE DEF new, next
<1>13. \A j \in 1 .. number + 1 : new[j] = next[j]
  <2>1. new[p] = next[p]
    BY <1>1, <1>11, <1>12
  <2>2. ASSUME NEW j \in 1 .. number + 1, j # p PROVE list[j] = next[j]
    <3>1. j # k + 1 => (Place(k, j) <= m + 1 <=> Place(k, j) <= m)
      BY <1>2, <1>3, <2>2
    <3> QED BY <1>6, <1>11, <2>2, <3>1
  <2> QED BY <1>12, <2>1, <2>2
<1>15. new = next
  BY <1>13, <1>14
<1> QED BY <1>10, <1>15 DEF new, next, list

\* The list that New is given.
LEMMA NewList ==
  ASSUME NEW n \in Nat, NEW k \in 0 .. n
  PROVE  [i \in 1 .. k |-> Placeholder] \o <<Elsewhere>> \o [i \in 1 .. n - k |-> Placeholder]
           = [j \in 1 .. n + 1 |-> IF j = k + 1 THEN Elsewhere ELSE Placeholder]
<1> DEFINE a == [i \in 1 .. k |-> Placeholder]
           b == [i \in 1 .. n - k |-> Placeholder]
           c == a \o <<Elsewhere>>
           d == c \o b
           list == [j \in 1 .. n + 1 |-> IF j = k + 1 THEN Elsewhere ELSE Placeholder]
<1>1. /\ a \in Seq(Nat) /\ Len(a) = k /\ b \in Seq(Nat) /\ Len(b) = n - k
      /\ (\A i \in 1 .. k : a[i] = Placeholder) /\ \A i \in 1 .. n - k : b[i] = Placeholder
  BY DEF Placeholder
<1>2. <<Elsewhere>> \in Seq(Nat) /\ Len(<<Elsewhere>>) = 1 /\ <<Elsewhere>>[1] = Elsewhere
  BY DEF Elsewhere
<1> HIDE DEF a, b
<1>3. /\ c \in Seq(Nat) /\ Len(c) = k + 1 /\ c[k + 1] = Elsewhere
      /\ \A i \in 1 .. k : c[i] = Placeholder
  BY <1>1, <1>2, ConcatProperties
<1> HIDE DEF c
<1>4. /\ d \in Seq(Nat) /\ Len(d) = n + 1
      /\ \A j \in 1 .. n + 1 : d[j] = IF j <= k + 1 THEN c[j] ELSE b[j - (k + 1)]
  BY <1>1, <1>3, ConcatProperties
<1> HIDE DEF d
<1>5. d = [j \in 1 .. n + 1 |-> d[j]]
  BY <1>4
<1>6. ASSUME NEW j \in 1 .. n + 1 PROVE d[j] = IF j = k + 1 THEN Elsewhere ELSE Placeholder
  <2>1. CASE j <= k
    BY <1>3, <1>4, <2>1
  <2>2. CASE j = k + 1
    BY <1>3, <1>4, <2>2
  <2>3. CASE j > k + 1
    <3>1. j - (k + 1) \in 1 .. n - k
      BY <2>3
    <3>2. b[j - (k + 1)] = Placeholder
      BY <1>1, <3>1
    <3>3. ~ (j <= k + 1) /\ j # k + 1
      BY <2>3
    <3> QED BY <1>4, <3>2, <3>3
  <2> QED BY <2>1, <2>2, <2>3
<1>7. d = list
  BY <1>5, <1>6
<1> QED BY <1>7 DEF a, b, c, d

\* There is no list at first.
LEMMA ListInvInit == ComposeInit => ListInv
  BY DEF ComposeInit, ListInv

\* Every iteration of the loops keeps the list of static nodes.
LEMMA ListInvNext == ComposeInv /\ ListInv /\ [ComposeNext]_composeVars => ListInv'
<1> SUFFICES ASSUME ComposeInv, ListInv, [ComposeNext]_composeVars PROVE ListInv'
  OBVIOUS
<1>t. /\ services \in Seq(Service) /\ Len(services) \in Nat /\ Len(services) <= number
      /\ DOMAIN services = 1 .. Len(services) /\ number \in 0 .. 90
  BY DEF ComposeInv, NodeInv, SizeInv
<1>1. CASE NewCompose
  <2>1. PICK k \in {0, 1, number'} :
          staticNodes' = [i \in 1 .. k |-> Placeholder] \o <<Elsewhere>>
                           \o [i \in 1 .. number' - k |-> Placeholder]
    BY <1>1 DEF NewCompose
  <2> DEFINE n == number'
  <2>2. n \in 1 .. 90
    BY <1>1, SizesAssumption DEF NewCompose
  <2>3. n \in Nat /\ k \in 0 .. n
    <3>1. k \in {0, 1, n}
      OBVIOUS
    <3> HIDE DEF n
    <3> QED BY <2>2, <3>1
  <2>4. staticNodes' = [j \in 1 .. n + 1 |-> IF j = k + 1 THEN Elsewhere ELSE Placeholder]
    <3>1. staticNodes' = [i \in 1 .. k |-> Placeholder] \o <<Elsewhere>>
                           \o [i \in 1 .. n - k |-> Placeholder]
      BY <2>1
    <3> HIDE DEF n
    <3> QED BY <2>3, <3>1, NewList
  <2>5. Filled(k, 0)' = [j \in 1 .. n + 1 |-> IF j = k + 1 THEN Elsewhere ELSE Placeholder]
    <3>1. Filled(k, 0)' =
            [j \in 1 .. n + 1 |-> IF j = k + 1 THEN Elsewhere
                                  ELSE IF Place(k, j) <= 0 THEN FullnodeIP(Place(k, j) - 1)
                                  ELSE Placeholder]
      BY DEF Filled
    <3> HIDE DEF n
    <3>2. \A j \in 1 .. n + 1 : j # k + 1 => ~ (Place(k, j) <= 0)
      BY <2>3 DEF Place
    <3> QED BY <3>1, <3>2
  <2>6. Len(services') = 0 /\ stage' = "fullnodes"
    BY <1>1 DEF NewCompose, ComposeInv, SizeInv
  <2>7. staticNodes' = Filled(k, Len(services))'
    BY <2>4, <2>5, <2>6
  <2> QED BY <2>3, <2>6, <2>7 DEF ListInv
<1>2. CASE AddService
  <2> DEFINE m == Len(services)
  <2>1. /\ stage = "fullnodes" /\ stage' = stage /\ number' = number /\ m \in 0 .. number - 1
        /\ staticNodes' = ReplaceFirst(staticNodes, FullnodeIP(m))
        /\ services' = Append(services, NewFullnode(m))
    BY <1>2, <1>t DEF AddService, NewFullnode
  <2>2. Len(services') = m + 1
    BY <1>t, <2>1
  <2>3. PICK k \in 0 .. number : staticNodes = Filled(k, m)
    BY <2>1 DEF ListInv
  <2> HIDE DEF m
  <2>4. staticNodes' = Filled(k, m + 1)
    BY <1>t, <2>1, <2>3, NextPlaceholder
  <2>5. Filled(k, Len(services))' = Filled(k, m + 1)
    BY <2>1, <2>2 DEF Filled
  <2> QED BY <2>1, <2>4, <2>5 DEF ListInv
<1>3. CASE UpdateStaticNodes
  <2>1. /\ stage = "fullnodes" /\ stage' \in {"vaults", "done"} /\ number' = number /\ Len(services) = number
        /\ services' = [k \in DOMAIN services |-> [services[k] EXCEPT !.StaticNodes = staticNodes]]
    BY <1>3 DEF UpdateStaticNodes
  <2>2. PICK k \in 0 .. number : staticNodes = Filled(k, number)
    BY <2>1 DEF ListInv
  <2>3. Len(services') = number
    BY <1>t, <2>1
  <2>4. \A i \in 1 .. number : services'[i].StaticNodes = staticNodes
    BY <1>t, <2>1 DEF Service
  <2>5. Filled(k, number)' = Filled(k, number)
    BY <2>1 DEF Filled
  <2> QED BY <2>1, <2>2, <2>3, <2>4, <2>5 DEF ListInv
<1>4. CASE /\ UNCHANGED <<number, services, staticNodes>>
           /\ stage' \in {"none", "fullnodes", "vaults", "done"}
           /\ stage' = stage \/ (stage = "vaults" /\ stage' = "done")
  <2>1. \A k, m : Filled(k, m)' = Filled(k, m)
    BY <1>4 DEF Filled
  <2>2. CASE stage' = "fullnodes"
    <3>1. PICK k \in 0 .. number : staticNodes = Filled(k, Len(services))
      BY <1>4, <2>2 DEF ListInv
    <3>2. Filled(k, Len(services))' = Filled(k, Len(services))
      BY <1>4 DEF Filled
    <3> QED BY <1>4, <2>2, <3>1, <3>2 DEF ListInv
  <2>3. CASE stage' \in {"vaults", "done"}
    <3>1. PICK k \in 0 .. number : \A i \in 1 .. number : services[i].StaticNodes = Filled(k, number)
      BY <1>4, <2>3 DEF ListInv
    <3>2. Filled(k, number)' = Filled(k, number)
      BY <1>4 DEF Filled
    <3> QED BY <1>4, <2>3, <3>1, <3>2 DEF ListInv
  <2> QED BY <1>4, <2>2, <2>3 DEF ListInv
<1> QED
  BY <1>1, <1>2, <1>3, <1>4 DEF ComposeNext, AddVault, AddSmiloService, SmiloDone, composeVars, ListInv

\* What a vault knows: the hosts of the others, which do not change.
HostOf(k) == <<VaultIP(k - 1), VaultPort(k - 1)>>
HostsBut(k) == [j \in 1 .. number - 1 |-> HostOf(IF j < k THEN j ELSE j + 1)]

KnowInv ==
  /\ withVaults \in BOOLEAN
  /\ stage \in {"none", "fullnodes"} => vaultServices = <<>> /\ smiloServices = <<>>
  /\ stage = "done" /\ ~ withVaults => smiloServices = <<>>
  /\ stage = "done" /\ withVaults => Len(smiloServices) = number
  /\ stage = "vaults" => withVaults
  /\ Len(smiloServices) = 0 \/ Len(vaultServices) = number
  /\ Len(smiloServices) <= number
  /\ \A k \in 1 .. Len(vaultServices) : vaultServices[k].Identity = k - 1
  /\ \A k \in 1 .. Len(smiloServices) :
       /\ smiloServices[k] = [node |-> k, vault |-> k]
       /\ vaultServices[k].OtherNodes = HostsBut(k)

\* There are no vaults at first.
LEMMA KnowInvInit == ComposeInit => KnowInv
<1> SUFFICES ASSUME ComposeInit PROVE KnowInv
  OBVIOUS
<1>1. /\ vaultServices = <<>> /\ smiloServices = <<>> /\ withVaults = FALSE /\ stage = "none" /\ number = 0
  BY DEF ComposeInit
<1>2. Len(vaultServices) = 0 /\ Len(smiloServices) = 0
  BY <1>1
<1>3. withVaults \in BOOLEAN
  BY <1>1
<1> QED BY <1>1, <1>2, <1>3 DEF KnowInv

\* Every iteration of the loops keeps what the vaults know of each other.
LEMMA KnowInvNext == ComposeInv /\ ListInv /\ KnowInv /\ [ComposeNext]_composeVars => KnowInv'
<1> SUFFICES ASSUME ComposeInv, ListInv, KnowInv, [ComposeNext]_composeVars PROVE KnowInv'
  OBVIOUS
<1>s. PICK S : vaultServices \in Seq(S)
  BY DEF ComposeInv, VaultInv
<1>t. /\ Len(vaultServices) \in Nat /\ DOMAIN vaultServices = 1 .. Len(vaultServices)
      /\ Len(vaultServices) <= number /\ number \in 0 .. 90 /\ Len(smiloServices) \in Nat
      /\ smiloServices \in Seq([node : Nat, vault : Nat])
  BY <1>s DEF ComposeInv, VaultInv, SizeInv
<1>b. UNCHANGED number => \A k : HostsBut(k)' = HostsBut(k)
  BY DEF HostsBut
<1>1. CASE NewCompose
  <2>1. /\ stage' = "fullnodes" /\ withVaults' \in BOOLEAN /\ vaultServices' = <<>> /\ smiloServices' = <<>>
    BY <1>1 DEF NewCompose, KnowInv
  <2>2. number' \in 1 .. 90
    BY <1>1, SizesAssumption DEF NewCompose
  <2>3. Len(vaultServices') = 0 /\ Len(smiloServices') = 0
    BY <2>1
  <2>4. 0 <= number'
    BY <2>2
  <2> QED BY <2>1, <2>3, <2>4 DEF KnowInv
<1>2. CASE AddService
  <2>1. UNCHANGED <<number, withVaults, stage, vaultServices, smiloServices>>
    BY <1>2 DEF AddService
  <2> QED BY <1>b, <2>1 DEF KnowInv
<1>3. CASE UpdateStaticNodes
  <2>1. /\ stage = "fullnodes" /\ stage' = (IF withVaults THEN "vaults" ELSE "done")
        /\ UNCHANGED <<number, withVaults, vaultServices, smiloServices>>
    BY <1>3 DEF UpdateStaticNodes
  <2> QED BY <1>b, <2>1 DEF KnowInv
<1>4. CASE AddVault
  <2> DEFINE i == Len(vaultServices)
             v == NewVault(services[i + 1].Identity)
  <2>1. /\ i < number /\ stage = "vaults" /\ Len(services) = number
        /\ vaultServices' = Append(vaultServices, v)
        /\ UNCHANGED <<number, withVaults, stage, smiloServices>>
    BY <1>4 DEF AddVault, ListInv
  <2>2. v.Identity = i
    <3>1. i + 1 \in 1 .. Len(services)
      BY <1>t, <2>1
    <3> QED BY <1>t, <3>1 DEF ComposeInv, NodeInv, NewVault
  <2> HIDE DEF v
  <2>3. /\ Len(vaultServices') = i + 1 /\ vaultServices'[i + 1] = v
        /\ \A k \in 1 .. i : vaultServices'[k] = vaultServices[k]
    <3>1. vaultServices \in Seq(S \cup {v}) /\ v \in S \cup {v}
      BY <1>s
    <3> QED BY <2>1, <3>1
  <2>4. Len(smiloServices) = 0
    BY <1>t, <2>1 DEF KnowInv
  <2>5. \A k \in 1 .. i + 1 : vaultServices'[k].Identity = k - 1
    <3>1. ASSUME NEW k \in 1 .. i + 1 PROVE vaultServices'[k].Identity = k - 1
      <4>1. CASE k \in 1 .. i
        BY <2>3, <4>1 DEF KnowInv
      <4>2. CASE k = i + 1
        BY <1>t, <2>2, <2>3, <4>2
      <4> QED BY <1>t, <4>1, <4>2
    <3> QED BY <3>1
  <2> QED BY <1>t, <2>1, <2>3, <2>4, <2>5 DEF KnowInv
<1>5. CASE AddSmiloService
  <2> DEFINE j == Len(smiloServices) + 1
             w == OthersOf(j)
  <2>1. /\ j \in 1 .. number /\ stage = "vaults" /\ Len(vaultServices) = number
        /\ vaultServices' = [vaultServices EXCEPT ![j].OtherNodes = w]
        /\ smiloServices' = Append(smiloServices, [node |-> j, vault |-> j])
        /\ UNCHANGED <<number, withVaults, stage>>
    BY <1>5, <1>t DEF AddSmiloService
  <2>2. w = HostsBut(j)
    <3>1. \A k \in 1 .. number : Host(vaultServices[k]) = HostOf(k)
      BY <2>1 DEF Host, HostOf, ComposeInv, VaultInv
    <3>2. \A n \in 1 .. number - 1 : (IF n < j THEN n ELSE n + 1) \in 1 .. number
      BY <1>t, <2>1
    <3> QED BY <3>1, <3>2 DEF OthersOf, HostsBut
  <2> HIDE DEF w
  <2>3. /\ Len(smiloServices') = j /\ smiloServices'[j] = [node |-> j, vault |-> j]
        /\ \A k \in 1 .. j - 1 : smiloServices'[k] = smiloServices[k]
    BY <1>t, <2>1
  <2>4. /\ Len(vaultServices') = number /\ vaultServices'[j].OtherNodes = w
        /\ \A k \in 1 .. number : k # j => vaultServices'[k] = vaultServices[k]
        /\ \A k \in 1 .. number : vaultServices'[k].Identity = vaultServices[k].Identity
    <3>0. DOMAIN vaultServices[j] = VaultFields
      BY <2>1 DEF ComposeInv, VaultInv
    <3> DEFINE v == [vaultServices[j] EXCEPT !.OtherNodes = w]
    <3>1. vaultServices' = [vaultServices EXCEPT ![j] = v] /\ v.OtherNodes = w
             /\ v.Identity = vaultServices[j].Identity
      BY <2>1, <3>0 DEF VaultFields
    <3> HIDE DEF v
    <3>2. vaultServices \in Seq(S \cup {v}) /\ v \in S \cup {v}
      BY <1>s
    <3> QED BY <1>t, <2>1, <3>1, <3>2
  <2>5. \A k \in 1 .. j : smiloServices'[k] = [node |-> k, vault |-> k] /\ vaultServices'[k].OtherNodes = HostsBut(k)
    <3>1. ASSUME NEW k \in 1 .. j
          PROVE  smiloServices'[k] = [node |-> k, vault |-> k] /\ vaultServices'[k].OtherNodes = HostsBut(k)
      <4>1. CASE k = j
        BY <2>2, <2>3, <2>4, <4>1
      <4>2. CASE k # j
        <5>1. k \in 1 .. Len(smiloServices) /\ k \in 1 .. j - 1 /\ k \in 1 .. number
          BY <1>t, <2>1, <4>2
        <5> QED BY <2>3, <2>4, <4>2, <5>1 DEF KnowInv
      <4> QED BY <4>1, <4>2
    <3> QED BY <3>1
  <2>6. \A k \in 1 .. number : vaultServices'[k].Identity = k - 1
    BY <2>1, <2>4 DEF KnowInv
  <2> HIDE DEF j
  <2>7. HostsBut(0)' = HostsBut(0) /\ \A k : HostsBut(k)' = HostsBut(k)
    BY <1>b, <2>1
  <2> QED BY <1>t, <2>1, <2>3, <2>4, <2>5, <2>6, <2>7 DEF KnowInv
<1>6. CASE SmiloDone
  <2>1. /\ stage = "vaults" /\ Len(smiloServices) = number /\ stage' = "done"
        /\ UNCHANGED <<number, withVaults, vaultServices, smiloServices>>
    BY <1>6 DEF SmiloDone
  <2> QED BY <1>b, <2>1 DEF KnowInv
<1>7. CASE UNCHANGED composeVars
  BY <1>b, <1>7 DEF composeVars, KnowInv
<1> QED BY <1>1, <1>2, <1>3, <1>4, <1>5, <1>6, <1>7 DEF ComposeNext

\* In a finished file every node has the same list with the addresses of all, in
\* order, and every vault the hosts of all others, once.
THEOREM FinishedFileConnects == ComposeSpec => []ServicesKnowEachOther
<1>1. ASSUME ComposeInv, ListInv, KnowInv PROVE ServicesKnowEachOther
  <2> SUFFICES ASSUME stage = "done"
      PROVE  /\ \E k \in 0 .. number : \A i \in DOMAIN services : services[i].StaticNodes = ListWith(k)
             /\ withVaults => Len(smiloServices) = number
             /\ \A s \in ToSet(smiloServices) :
                  LET v == vaultServices[s.vault] IN
                  /\ ToSet(v.OtherNodes) = {Host(w) : w \in ToSet(vaultServices) \ {v}}
                  /\ Len(v.OtherNodes) = number - 1
                  /\ v.Identity = services[s.node].Identity /\ v.Identity \in PrintVolumes
    BY DEF ServicesKnowEachOther
  <2>t. /\ number \in 0 .. 90 /\ Len(services) = number /\ DOMAIN services = 1 .. number
        /\ DOMAIN smiloServices = 1 .. Len(smiloServices)
        /\ \A k \in 1 .. number : services[k].IP = FullnodeIP(k - 1) /\ services[k].Identity = k - 1
    <3>1. Len(services) = number
      BY <1>1 DEF ListInv
    <3>2. services \in Seq(Service) /\ smiloServices \in Seq([node : Nat, vault : Nat]) /\ number \in 0 .. 90
      BY <1>1 DEF ComposeInv, NodeInv, SizeInv
    <3>3. DOMAIN services = 1 .. number /\ DOMAIN smiloServices = 1 .. Len(smiloServices)
      BY <3>1, <3>2
    <3> QED BY <1>1, <3>1, <3>2, <3>3 DEF ComposeInv, NodeInv
  <2>1. \E k \in 0 .. number : \A i \in DOMAIN services : services[i].StaticNodes = ListWith(k)
    <3>1. PICK k \in 0 .. number : \A i \in 1 .. number : services[i].StaticNodes = Filled(k, number)
      BY <1>1 DEF ListInv
    <3>2. \A j \in 1 .. number + 1 : j # k + 1 => Place(k, j) \in 1 .. number
      BY <2>t DEF Place
    <3>3. Filled(k, number) = ListWith(k)
      BY <2>t, <3>2 DEF Filled, ListWith, Place
    <3> QED BY <2>t, <3>1, <3>3
  <2>2. ASSUME NEW k \in 1 .. Len(smiloServices)
        PROVE  LET v == vaultServices[k] IN
               /\ smiloServices[k] = [node |-> k, vault |-> k]
               /\ ToSet(v.OtherNodes) = {Host(w) : w \in ToSet(vaultServices) \ {v}}
               /\ Len(v.OtherNodes) = number - 1
               /\ v.Identity = services[k].Identity /\ v.Identity \in PrintVolumes
    <3>1. PICK S : vaultServices \in Seq(S)
      BY <1>1 DEF ComposeInv, VaultInv
    <3>2. /\ Len(vaultServices) = number /\ DOMAIN vaultServices = 1 .. number
          /\ k \in 1 .. number /\ smiloServices[k] = [node |-> k, vault |-> k]
          /\ vaultServices[k].OtherNodes = HostsBut(k) /\ vaultServices[k].Identity = k - 1
      BY <1>1, <2>t, <3>1 DEF KnowInv
    <3>3. \A i \in 1 .. number : Host(vaultServices[i]) = HostOf(i) /\ vaultServices[i].IP = i + 99
      BY <1>1, <3>2 DEF ComposeInv, VaultInv, Host, HostOf, VaultIP
    <3>4. \A i \in 1 .. number : i # k => vaultServices[i] # vaultServices[k]
      <4>1. \A i \in 1 .. number : i # k => vaultServices[i].IP # vaultServices[k].IP
        BY <2>t, <3>2, <3>3
      <4> QED BY <4>1, Zenon
    <3>5. {Host(w) : w \in ToSet(vaultServices) \ {vaultServices[k]}} = {HostOf(i) : i \in (1 .. number) \ {k}}
      <4>1. ToSet(vaultServices) = {vaultServices[i] : i \in 1 .. number}
        BY <3>2 DEF ToSet
      <4> QED BY <3>2, <3>3, <3>4, <4>1
    <3> DEFINE Other(j) == IF j < k THEN j ELSE j + 1
    <3>6. /\ \A j \in 1 .. number - 1 : Other(j) \in (1 .. number) \ {k}
          /\ \A i \in (1 .. number) \ {k} : \E j \in 1 .. number - 1 : i = Other(j)
      <4>1. \A j \in 1 .. number - 1 : Other(j) \in (1 .. number) \ {k}
        BY <2>t, <3>2
      <4>2. ASSUME NEW i \in (1 .. number) \ {k} PROVE \E j \in 1 .. number - 1 : i = Other(j)
        <5>1. CASE i < k
          <6>1. i \in 1 .. number - 1 /\ i = Other(i)
            BY <2>t, <3>2, <5>1
          <6> QED BY <6>1
        <5>2. CASE i > k
          <6>1. i - 1 \in 1 .. number - 1 /\ i = Other(i - 1)
            BY <2>t, <3>2, <5>2
          <6> QED BY <6>1
        <5> QED BY <2>t, <3>2, <5>1, <5>2
      <4> QED BY <4>1, <4>2
    <3> DEFINE known == HostsBut(k)
    <3>7. DOMAIN known = 1 .. number - 1 /\ \A j \in 1 .. number - 1 : known[j] = HostOf(Other(j))
      BY DEF HostsBut
    <3>8. Len(known) = number - 1
      BY <2>t, <3>2 DEF HostsBut
    <3> HIDE DEF known, Other
    <3>9. ToSet(known) = {HostOf(i) : i \in (1 .. number) \ {k}}
      BY <3>6, <3>7 DEF ToSet
    <3>10. k - 1 \in PrintVolumes
      BY <2>t, <3>2 DEF PrintVolumes
    <3> QED BY <2>t, <3>2, <3>5, <3>8, <3>9, <3>10 DEF known
  <2>3. withVaults => Len(smiloServices) = number
    BY <1>1 DEF KnowInv
  <2>4. ASSUME NEW s \in ToSet(smiloServices)
        PROVE  LET v == vaultServices[s.vault] IN
               /\ ToSet(v.OtherNodes) = {Host(w) : w \in ToSet(vaultServices) \ {v}}
               /\ Len(v.OtherNodes) = number - 1
               /\ v.Identity = services[s.node].Identity /\ v.Identity \in PrintVolumes
    <3>1. PICK k \in 1 .. Len(smiloServices) : s = smiloServices[k]
      BY <2>t DEF ToSet
    <3>2. s = [node |-> k, vault |-> k]
      BY <2>2, <3>1
    <3>3. s.vault = k /\ s.node = k
      BY <3>2
    <3> QED BY <2>2, <3>3
  <2> QED BY <2>1, <2>3, <2>4
<1>2. ComposeInit => ComposeInv /\ ListInv /\ KnowInv
  BY ComposeInvInit, ListInvInit, KnowInvInit
<1>3. ComposeInv /\ ListInv /\ KnowInv /\ [ComposeNext]_composeVars => (ComposeInv /\ ListInv /\ KnowInv)'
  BY ComposeInvNext, ListInvNext, KnowInvNext
<1> QED BY <1>1, <1>2, <1>3, PTL DEF ComposeSpec
====

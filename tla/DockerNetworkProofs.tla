------------------------ MODULE DockerNetworkProofs ------------------------
(***************************************************************************)
(* Theorems about DockerNetwork, for any number of processes, goroutines   *)
(* and calls and any byte size: the type invariant, and that no address is *)
(* given out twice.                                                        *)
(***************************************************************************)
EXTENDS DockerNetwork, TLAPS

USE ProcsAssumption, OctetsAssumption, RequestsAssumption

-----------------------------------------------------------------------------
(* Addresses                                                               *)

\* The loop of GetFreeIPAddrs turns an address into an address.
LEMMA IncAddrType == ASSUME NEW a \in Addr PROVE IncAddr(a) \in Addr
  BY DEF IncAddr, IncByte, Addr, Byte

\* The gateway of a subnet is an address.
LEMMA GatewayType == ASSUME NEW o \in Byte PROVE Gateway(o) \in Addr
  BY DEF Gateway, Addr, Byte

\* The address of no network is an address.
LEMMA ZeroType == Zero \in Addr
  BY DEF Zero, Addr, Byte

-----------------------------------------------------------------------------
(* Type correctness                                                        *)

\* The type invariant holds at first.
LEMMA TypeInit == Init => TypeOK
  BY ZeroType DEF Init, TypeOK, None

\* One step of the protocol of NewDockerNetwork and GetFreeIPAddrs keeps
\* every variable in its type.
LEMMA TypeNext == TypeOK /\ [Next]_vars => TypeOK'
<1> SUFFICES ASSUME TypeOK, [Next]_vars PROVE TypeOK'
  OBVIOUS
<1> USE DEF TypeOK, Goto, Free, Unlock, FirstIndex
<1>1. ASSUME NEW c \in Callers, NewDockerNetwork(c) PROVE TypeOK'
  BY <1>1 DEF NewDockerNetwork, netVars, reqVars
<1>2. ASSUME NEW c \in Callers, LockManager(c) PROVE TypeOK'
  BY <1>2 DEF LockManager, reqVars
<1>3. ASSUME NEW c \in Callers, NextOctet(c) PROVE TypeOK'
  BY <1>3 DEF NextOctet, reqVars
<1>4. ASSUME NEW c \in Callers, FormatSubnet(c) PROVE TypeOK'
  BY <1>4 DEF FormatSubnet, reqVars
<1>5. ASSUME NEW c \in Callers, NetworkCreated(c) PROVE TypeOK'
  <2>1. subnet[c] \in Byte
    BY <1>5 DEF NetworkCreated, Creatable
  <2> QED BY <1>5, <2>1, GatewayType DEF NetworkCreated, reqVars
<1>6. ASSUME NEW c \in Callers, NetworkCreateFails(c) PROVE TypeOK'
  BY <1>6 DEF NetworkCreateFails, Creatable, reqVars
<1>7. ASSUME NEW c \in Callers, NEW n \in Callers, Remove(c, n) PROVE TypeOK'
  BY <1>7 DEF Remove, reqVars
<1>8. ASSUME NEW c \in Callers, NEW n \in Callers, NEW k \in Nums,
             GetFreeIPAddrs(c, n, k) PROVE TypeOK'
  BY <1>8 DEF GetFreeIPAddrs, netVars
<1>9. ASSUME NEW c \in Callers, LockNetwork(c) PROVE TypeOK'
  BY <1>9 DEF LockNetwork, netVars
<1>10. ASSUME NEW c \in Callers, DupIP(c) PROVE TypeOK'
  BY <1>10 DEF DupIP, netVars
<1>11. ASSUME NEW c \in Callers, StoreIP(c) PROVE TypeOK'
  <2>1. ip'[c] \in Addr /\ ip' \in [Callers -> Addr]
    BY <1>11, IncAddrType DEF StoreIP
  <2>2. ipIndex' = [ipIndex EXCEPT ![work[c]] = ip'[c]] /\ ips' = [ips EXCEPT ![c] = Append(@, ip'[c])]
    BY <1>11 DEF StoreIP
  <2>3. ipIndex' \in [Callers -> Addr] /\ ips' \in [Callers -> Seq(Addr)]
    BY <2>1, <2>2
  <2> QED BY <1>11, <2>1, <2>3 DEF StoreIP, netVars
<1>12. ASSUME NEW c \in Callers, Return(c) PROVE TypeOK'
  <2>1. Result(c) \subseteq GivenType
    BY DEF Result, GivenType
  <2> QED BY <1>12, <2>1, ZeroType DEF Return, ForgetLocals, netVars
<1>13. CASE UNCHANGED vars
  BY <1>13 DEF vars, netVars, reqVars
<1> QED
  BY <1>1, <1>2, <1>3, <1>4, <1>5, <1>6, <1>7, <1>8, <1>9, <1>10, <1>11,
     <1>12, <1>13 DEF Next, Step

\* Type correctness of the network manager and the address allocator.
THEOREM TypeCorrect == Spec => []TypeOK
  BY TypeInit, TypeNext, PTL DEF Spec

-----------------------------------------------------------------------------
(* No address is given twice: the inductive invariant                      *)

\* a is an address of subnet o after its gateway.
AfterGateway(o, a) == Contains(o, a) /\ (a[3] > 0 \/ a[4] > 1)

\* a is the first address after subnet o: it is outside, and it is the next
\* subnet's network address unless o is the last value of a byte.
Spill(o, a) ==
  /\ a[3] = 0 /\ a[4] = 0
  /\ IF o < Base - 1 THEN a[1] = FirstOctet /\ a[2] = o + 1
                     ELSE a[1] # FirstOctet

\* In one subnet, a comes before b or is b.
NotAfter(a, b) == a[3] < b[3] \/ (a[3] = b[3] /\ a[4] <= b[4])

\* a has been passed by an index that stands at x: it was reached before.
Passed(o, a, x) ==
  \/ AfterGateway(o, a) /\ (Contains(o, x) => NotAfter(a, x))
  \/ Spill(o, a) /\ x = a

Creating(c) == pc[c] \in {"getSubnet", "nextOctet", "formatSubnet", "netCreate"}
InLoop(c) == pc[c] \in {"loop", "store"}

\* A goroutine in a critical section holds the mutex of that network, and
\* what it read there is still the index.
MutexInv ==
  \A c \in Callers :
    /\ InLoop(c) => mutex[work[c]] = c
    /\ pc[c] = "store" => /\ ip[c] = ipIndex[work[c]]
                          /\ Contains(ipv4Net[work[c]], ip[c])
    /\ ~ InLoop(c) => ips[c] = <<>>

\* A goroutine creates one network, and requests go to created networks.
CreateInv ==
  /\ \A c \in Callers : Creating(c) \/ try[c] = 0 => ipv4Net[c] = None
  /\ \A c \in Callers : pc[c] = "lock" \/ InLoop(c) => ipv4Net[work[c]] # None
  /\ \A g \in given : ipv4Net[g.net] # None

\* Networks that exist have different subnets: Docker holds each of them.
LiveInv ==
  /\ \A n \in live : ipv4Net[n] \in docker
  /\ \A n, m \in live : ipv4Net[n] = ipv4Net[m] => n = m

\* The index starts at the gateway and stays in the subnet until it spills.
IndexInv ==
  \A n \in Callers :
    ipv4Net[n] # None =>
      \/ Contains(ipv4Net[n], ipIndex[n])
         /\ (ipIndex[n][3] = 0 => ipIndex[n][4] >= 1)
      \/ Spill(ipv4Net[n], ipIndex[n])

\* Every address returned, or collected by a call under way, was passed.
PassedInv ==
  /\ \A g \in given : Passed(ipv4Net[g.net], g.ip, ipIndex[g.net])
  /\ \A c \in Callers : \A i \in DOMAIN ips[c] :
       Passed(ipv4Net[work[c]], ips[c][i], ipIndex[work[c]])

\* A network gives out pairwise different addresses.
FreshInv ==
  /\ \A g, h \in given : g.net = h.net /\ g.ip = h.ip => g = h
  /\ \A c \in Callers : \A i, j \in DOMAIN ips[c] :
       ips[c][i] = ips[c][j] => i = j
  /\ \A c \in Callers : \A i \in DOMAIN ips[c] : \A g \in given :
       g.net = work[c] => g.ip # ips[c][i]

IInv == /\ TypeOK /\ MutexInv /\ CreateInv /\ LiveInv
        /\ IndexInv /\ PassedInv /\ FreshInv

-----------------------------------------------------------------------------
(* Lemmas about addresses                                                  *)

\* Counting up from an address of the subnet gives a later address of it, or
\* the first address after it.
LEMMA IncAddrNext ==
  ASSUME NEW o \in Byte, NEW a \in Addr, Contains(o, a),
         a[3] = 0 => a[4] >= 1
  PROVE  \/ AfterGateway(o, IncAddr(a)) /\ ~ NotAfter(IncAddr(a), a)
            /\ NotAfter(a, IncAddr(a))
         \/ Spill(o, IncAddr(a))
<1> DEFINE b == IncAddr(a)
<1>1. a[1] \in Byte /\ a[2] \in Byte /\ a[3] \in Byte /\ a[4] \in Byte
  BY DEF Addr
<1>2. /\ b[4] = IncByte(a[4])
      /\ b[3] = IF a[4] = Base - 1 THEN IncByte(a[3]) ELSE a[3]
      /\ b[2] = IF a[4] = Base - 1 /\ a[3] = Base - 1 THEN IncByte(a[2]) ELSE a[2]
      /\ b[1] = IF a[4] = Base - 1 /\ a[3] = Base - 1 /\ a[2] = Base - 1
                  THEN IncByte(a[1]) ELSE a[1]
  <2>1. /\ (4 + 1) .. 4 = {}
        /\ (3 + 1) .. 4 = {4}
        /\ (2 + 1) .. 4 = {3, 4}
        /\ (1 + 1) .. 4 = {2, 3, 4}
    OBVIOUS
  <2> QED BY <2>1 DEF IncAddr
<1> HIDE DEF b
<1>3. CASE a[4] # Base - 1
  BY <1>1, <1>2, <1>3 DEF IncByte, Contains, AfterGateway, NotAfter, Byte, b
<1>4. CASE a[4] = Base - 1 /\ a[3] # Base - 1
  BY <1>1, <1>2, <1>4 DEF IncByte, Contains, AfterGateway, NotAfter, Byte, b
<1>5. CASE a[4] = Base - 1 /\ a[3] = Base - 1
  BY <1>1, <1>2, <1>5 DEF IncByte, Contains, Spill, Byte, b
<1> QED BY <1>3, <1>4, <1>5

\* An address after the subnet is not in it.
LEMMA SpillOutside ==
  ASSUME NEW o \in Byte, NEW a \in Addr, Spill(o, a) PROVE ~ Contains(o, a)
  BY DEF Spill, Contains, Byte, Addr

\* The next address differs from every address passed, and passes them too.
LEMMA PassedNext ==
  ASSUME NEW o \in Byte, NEW x \in Addr, Contains(o, x),
         x[3] = 0 => x[4] >= 1,
         NEW a \in Addr, Passed(o, a, x)
  PROVE  a # IncAddr(x) /\ Passed(o, a, IncAddr(x))
<1>1. AfterGateway(o, a) /\ NotAfter(a, x)
  BY SpillOutside DEF Passed
<1>2. IncAddr(x) \in Addr
  BY IncAddrType
<1>3. CASE Spill(o, IncAddr(x))
  BY <1>1, <1>2, <1>3, SpillOutside DEF Passed, AfterGateway
<1>4. CASE ~ NotAfter(IncAddr(x), x) /\ NotAfter(x, IncAddr(x))
  BY <1>1, <1>2, <1>4 DEF Passed, NotAfter, Addr, Byte
<1> QED BY <1>3, <1>4, IncAddrNext

\* The new address has itself been passed when the index stands at it.
LEMMA PassedSelf ==
  ASSUME NEW o \in Byte, NEW x \in Addr, Contains(o, x),
         x[3] = 0 => x[4] >= 1
  PROVE  Passed(o, IncAddr(x), IncAddr(x))
<1>1. IncAddr(x) \in Addr
  BY IncAddrType
<1> QED BY <1>1, IncAddrNext DEF Passed, NotAfter, Addr, Byte

\* Different subnets pass different addresses.
LEMMA PassedDisjoint ==
  ASSUME NEW o \in Byte, NEW q \in Byte, o # q,
         NEW a \in Addr, NEW x, NEW y, Passed(o, a, x), Passed(q, a, y)
  PROVE  FALSE
<1>1. a[1] \in Byte /\ a[2] \in Byte /\ a[3] \in Byte /\ a[4] \in Byte
  BY DEF Addr
<1> QED BY <1>1 DEF Passed, AfterGateway, Spill, Contains, Byte

\* An address passed is neither a gateway nor its own network's address.
LEMMA PassedNotReserved ==
  ASSUME NEW o \in Byte, NEW a \in Addr, NEW x, Passed(o, a, x)
  PROVE  /\ \A q \in Byte : a # Gateway(q)
         /\ a # NetworkAddr(o)
<1>1. a[1] \in Byte /\ a[2] \in Byte /\ a[3] \in Byte /\ a[4] \in Byte
  BY DEF Addr
<1>2. ASSUME NEW q \in Byte, a = Gateway(q) PROVE FALSE
  <2>1. a[1] = FirstOctet /\ a[2] = q /\ a[3] = 0 /\ a[4] = 1
    BY <1>2 DEF Gateway
  <2> QED BY <2>1, <1>1 DEF Passed, AfterGateway, Spill, Contains, Byte
<1>3. ASSUME a = NetworkAddr(o) PROVE FALSE
  <2>1. a[1] = FirstOctet /\ a[2] = o /\ a[3] = 0 /\ a[4] = 0
    BY <1>3 DEF NetworkAddr
  <2> QED BY <2>1, <1>1 DEF Passed, AfterGateway, Spill, Contains, Byte
<1> QED BY <1>2, <1>3

-----------------------------------------------------------------------------
(* The invariant is inductive                                              *)

\* There are no networks at first.
LEMMA InvInit == Init => IInv
<1> SUFFICES ASSUME Init PROVE IInv
  OBVIOUS
<1>1. TypeOK
  BY TypeInit
<1>2. MutexInv /\ CreateInv /\ LiveInv /\ IndexInv
  BY DEF Init, MutexInv, CreateInv, LiveInv, IndexInv, InLoop, Creating
<1>3. PassedInv /\ FreshInv
  BY DEF Init, PassedInv, FreshInv
<1> QED BY <1>1, <1>2, <1>3 DEF IInv

\* Creating a network: its subnet is one that Docker had not in use, and
\* nothing was given out by it before.
LEMMA InvCreated ==
  ASSUME IInv, TypeOK', NEW c \in Callers, NetworkCreated(c) PROVE IInv'
<1> USE DEF Goto, NetworkCreated, FirstIndex, reqVars
<1>1. /\ subnet[c] \in Byte /\ subnet[c] \notin docker /\ subnet[c] # None
      /\ ipv4Net[c] = None /\ pc[c] = "netCreate"
  BY DEF IInv, CreateInv, Creating, Creatable, None, Byte
<1>2. \A d \in Callers : InLoop(d) => work[d] # c
  BY <1>1 DEF IInv, CreateInv
<1>3. \A d \in Callers : InLoop(d)' <=> InLoop(d)
  BY <1>1 DEF InLoop, IInv, TypeOK
<1>4. MutexInv'
  BY <1>1, <1>2, <1>3 DEF IInv, TypeOK, MutexInv, InLoop
<1>5. CreateInv'
  BY <1>1 DEF IInv, TypeOK, CreateInv, Creating, InLoop, GivenType
<1>6. LiveInv'
  BY <1>1 DEF IInv, TypeOK, LiveInv
<1>7. IndexInv'
  BY <1>1 DEF IInv, TypeOK, IndexInv, Contains, Gateway
<1>8. PassedInv'
  <2>1. \A g \in given : g.net # c /\ g.net \in Callers
    BY <1>1 DEF IInv, CreateInv, TypeOK, GivenType
  <2>2. \A d \in Callers : work[d] = c => ips[d] = <<>>
    BY <1>2 DEF IInv, MutexInv
  <2>3. \A n \in Callers : n # c => ipv4Net'[n] = ipv4Net[n] /\ ipIndex'[n] = ipIndex[n]
    BY DEF IInv, TypeOK
  <2>4. \A g \in given : Passed(ipv4Net'[g.net], g.ip, ipIndex'[g.net])
    BY <2>1, <2>3 DEF IInv, PassedInv
  <2>5. ASSUME NEW d \in Callers, NEW i \in DOMAIN ips[d]
        PROVE  Passed(ipv4Net'[work[d]], ips[d][i], ipIndex'[work[d]])
    <3>1. work[d] # c /\ work[d] \in Callers
      <4>1. DOMAIN <<>> = {}
        OBVIOUS
      <4> QED BY <2>2, <4>1 DEF IInv, TypeOK
    <3> QED BY <3>1, <2>3 DEF IInv, PassedInv
  <2> QED BY <2>4, <2>5 DEF PassedInv
<1>9. FreshInv'
  BY DEF IInv, FreshInv
<1> QED BY <1>4, <1>5, <1>6, <1>7, <1>8, <1>9 DEF IInv

\* Storing the next address: it lies behind everything given out before.
LEMMA InvStore ==
  ASSUME IInv, TypeOK', NEW c \in Callers, StoreIP(c) PROVE IInv'
<1> DEFINE n == work[c]
           o == ipv4Net[n]
           x == ipIndex[n]
           b == IncAddr(x)
<1> USE DEF Goto, StoreIP, netVars
<1>1. /\ pc[c] = "store" /\ n \in Callers /\ o \in Byte /\ x \in Addr
      /\ ip[c] = x /\ Contains(o, x) /\ mutex[n] = c
  BY DEF IInv, TypeOK, MutexInv, CreateInv, InLoop
<1>2. x[3] = 0 => x[4] >= 1
  BY <1>1, SpillOutside DEF IInv, IndexInv, CreateInv, InLoop
<1>3. b \in Addr
  BY <1>1, IncAddrType
<1>4. /\ ipIndex' = [ipIndex EXCEPT ![n] = b]
      /\ ip' = [ip EXCEPT ![c] = b]
      /\ ips' = [ips EXCEPT ![c] = Append(ips[c], b)]
  BY <1>1 DEF IInv, TypeOK
<1>5. \A d \in Callers : InLoop(d) /\ work[d] = n => d = c
  BY <1>1 DEF IInv, MutexInv
<1>6. \A d \in Callers : InLoop(d)' <=> InLoop(d)
  BY <1>1 DEF InLoop, IInv, TypeOK
<1>7. /\ DOMAIN Append(ips[c], b) = DOMAIN ips[c] \cup {Len(ips[c]) + 1}
      /\ \A i \in DOMAIN ips[c] : Append(ips[c], b)[i] = ips[c][i] /\ ips[c][i] \in Addr
      /\ Append(ips[c], b)[Len(ips[c]) + 1] = b
      /\ Len(ips[c]) + 1 \notin DOMAIN ips[c]
  BY <1>3 DEF IInv, TypeOK
<1>8. \A g \in given : g.net \in Callers /\ g.ip \in Addr
  BY DEF IInv, TypeOK, GivenType
<1> HIDE DEF b, x, o
<1>9. MutexInv'
  <2> SUFFICES ASSUME NEW d \in Callers
      PROVE /\ InLoop(d)' => mutex'[work'[d]] = d
            /\ pc'[d] = "store" => /\ ip'[d] = ipIndex'[work'[d]]
                                   /\ Contains(ipv4Net'[work'[d]], ip'[d])
            /\ ~ InLoop(d)' => ips'[d] = <<>>
    BY DEF MutexInv
  <2>1. CASE d = c
    BY <2>1, <1>1, <1>6 DEF IInv, TypeOK, MutexInv, InLoop
  <2>2. CASE d # c
    <3>1. pc'[d] = pc[d] /\ ip'[d] = ip[d] /\ ips'[d] = ips[d]
      BY <2>2, <1>4 DEF IInv, TypeOK
    <3>2. pc[d] = "store" => ipIndex'[work[d]] = ipIndex[work[d]]
      BY <2>2, <1>4, <1>5 DEF IInv, TypeOK, InLoop
    <3> QED BY <3>1, <3>2, <1>6 DEF IInv, MutexInv
  <2> QED BY <2>1, <2>2
<1>10. CreateInv'
  BY <1>1, <1>6 DEF IInv, TypeOK, CreateInv, Creating
<1>11. LiveInv'
  BY DEF IInv, LiveInv
<1>12. IndexInv'
  <2>1. (Contains(o, b) /\ (b[3] = 0 => b[4] >= 1)) \/ Spill(o, b)
    BY <1>1, <1>2, <1>3, IncAddrNext DEF AfterGateway, b, Addr, Byte
  <2> QED BY <2>1, <1>1, <1>4 DEF IInv, TypeOK, IndexInv, o
<1>13. \A a \in Addr : Passed(o, a, x) => a # b /\ Passed(o, a, b)
  BY <1>1, <1>2, PassedNext DEF b
<1>14. Passed(o, b, b)
  BY <1>1, <1>2, PassedSelf DEF b
<1>15. PassedInv'
  <2>1. ASSUME NEW g \in given PROVE Passed(ipv4Net[g.net], g.ip, ipIndex'[g.net])
    BY <1>1, <1>4, <1>8, <1>13 DEF IInv, TypeOK, PassedInv, o, x
  <2>2. ASSUME NEW d \in Callers, NEW i \in DOMAIN ips'[d]
        PROVE  Passed(ipv4Net[work[d]], ips'[d][i], ipIndex'[work[d]])
    <3>1. CASE d = c
      <4>1. i \in DOMAIN ips[c] => Passed(o, ips[c][i], x)
        BY DEF IInv, PassedInv, o, x
      <4>2. ips'[c] = Append(ips[c], b) /\ ipIndex'[n] = b
        BY <1>1, <1>4 DEF IInv, TypeOK
      <4> QED BY <3>1, <4>1, <4>2, <1>7, <1>13, <1>14 DEF o
    <3>2. CASE d # c
      <4>1. ips'[d] = ips[d]
        BY <3>2, <1>4 DEF IInv, TypeOK
      <4>2. work[d] # n
        <5> DEFINE s == ips'[d]
        <5>0. i \in DOMAIN s /\ s = ips[d]
          BY <4>1
        <5> HIDE DEF s
        <5>1. ips[d] # <<>>
          <6>1. DOMAIN <<>> = {}
            OBVIOUS
          <6> QED BY <5>0, <6>1
        <5>2. InLoop(d)
          BY <5>1 DEF IInv, MutexInv
        <5> QED BY <5>2, <3>2, <1>5
      <4> QED BY <4>1, <4>2, <1>4 DEF IInv, TypeOK, PassedInv
    <3> QED BY <3>1, <3>2
  <2> QED BY <2>1, <2>2 DEF PassedInv
<1>16. FreshInv'
  <2>1. \A g, h \in given : g.net = h.net /\ g.ip = h.ip => g = h
    BY DEF IInv, FreshInv
  <2>2. /\ \A i \in DOMAIN ips[c] : ips[c][i] # b
        /\ \A g \in given : g.net = n => g.ip # b
    BY <1>7, <1>8, <1>13 DEF IInv, PassedInv, o, x
  <2>3. ips'[c] = Append(ips[c], b) /\ \A d \in Callers : d # c => ips'[d] = ips[d]
    BY <1>4 DEF IInv, TypeOK
  <2>4. \A d \in Callers : \A i, j \in DOMAIN ips'[d] : ips'[d][i] = ips'[d][j] => i = j
    <3> SUFFICES ASSUME NEW d \in Callers, NEW i \in DOMAIN ips'[d],
                        NEW j \in DOMAIN ips'[d], ips'[d][i] = ips'[d][j]
                 PROVE  i = j
      OBVIOUS
    <3>1. CASE d = c
      BY <3>1, <2>2, <2>3, <1>7 DEF IInv, FreshInv
    <3>2. CASE d # c
      BY <3>2, <2>3 DEF IInv, FreshInv
    <3> QED BY <3>1, <3>2
  <2>5. \A d \in Callers : \A i \in DOMAIN ips'[d] : \A g \in given :
          g.net = work[d] => g.ip # ips'[d][i]
    <3> SUFFICES ASSUME NEW d \in Callers, NEW i \in DOMAIN ips'[d], NEW g \in given,
                        g.net = work[d]
                 PROVE  g.ip # ips'[d][i]
      OBVIOUS
    <3>1. CASE d = c
      BY <3>1, <2>2, <2>3, <1>7 DEF IInv, FreshInv
    <3>2. CASE d # c
      BY <3>2, <2>3 DEF IInv, FreshInv
    <3> QED BY <3>1, <3>2
  <2> QED BY <2>1, <2>4, <2>5 DEF FreshInv
<1> QED BY <1>9, <1>10, <1>11, <1>12, <1>15, <1>16 DEF IInv

\* Returning from GetFreeIPAddrs: the result moves from the call to given.
LEMMA InvReturn ==
  ASSUME IInv, TypeOK', NEW c \in Callers, Return(c) PROVE IInv'
<1> DEFINE n == work[c]
<1> USE DEF Goto, Return, Unlock, ForgetLocals, netVars
<1>1. pc[c] = "loop" /\ pc'[c] = "idle" /\ n \in Callers /\ mutex[n] = c /\ ips'[c] = <<>>
  BY DEF IInv, TypeOK, MutexInv, InLoop
<1>2. \A d \in Callers : d # c => /\ pc'[d] = pc[d] /\ ips'[d] = ips[d] /\ ip'[d] = ip[d]
                                  /\ work'[d] = work[d]
  BY DEF IInv, TypeOK
<1>3. \A d \in Callers : d # c /\ work[d] = n => ~ InLoop(d) /\ ips[d] = <<>>
  BY <1>1 DEF IInv, MutexInv
<1>4. \A r \in Result(c) : /\ r.net = n /\ r.to = c /\ r.call = calls[c]
                          /\ r.pos \in DOMAIN ips[c] /\ r.ip = ips[c][r.pos]
  BY DEF Result
<1>5. \A r, s \in Result(c) : r.pos = s.pos => r = s
  BY DEF Result
<1>6. MutexInv'
  BY <1>1, <1>2, <1>3 DEF IInv, TypeOK, MutexInv, InLoop
<1>7. CreateInv'
  <2>1. ipv4Net[n] # None
    BY <1>1 DEF IInv, CreateInv, InLoop
  <2>2. \A d \in Callers : d # c => (Creating(d)' <=> Creating(d)) /\ (InLoop(d)' <=> InLoop(d))
    BY <1>2 DEF Creating, InLoop
  <2>3. \A d \in Callers : Creating(d)' \/ try[d] = 0 => ipv4Net[d] = None
    BY <1>1, <2>2 DEF IInv, CreateInv, Creating
  <2>4. \A d \in Callers : pc'[d] = "lock" \/ InLoop(d)' => ipv4Net[work'[d]] # None
    BY <1>1, <1>2, <2>2 DEF IInv, CreateInv, InLoop
  <2>5. \A g \in given' : ipv4Net[g.net] # None
    BY <1>4, <2>1 DEF IInv, CreateInv
  <2> QED BY <2>3, <2>4, <2>5 DEF CreateInv
<1>8. LiveInv' /\ IndexInv'
  BY DEF IInv, LiveInv, IndexInv
<1>9. PassedInv'
  <2>1. \A g \in given' : Passed(ipv4Net[g.net], g.ip, ipIndex[g.net])
    BY <1>4 DEF IInv, PassedInv
  <2>2. \A d \in Callers : \A i \in DOMAIN ips'[d] :
          Passed(ipv4Net[work'[d]], ips'[d][i], ipIndex[work'[d]])
    BY <1>1, <1>2 DEF IInv, PassedInv
  <2> QED BY <2>1, <2>2 DEF PassedInv
<1>10. FreshInv'
  <2>1. \A g, h \in given' : g.net = h.net /\ g.ip = h.ip => g = h
    <3> SUFFICES ASSUME NEW g \in given', NEW h \in given', g.net = h.net, g.ip = h.ip
                 PROVE  g = h
      OBVIOUS
    <3>1. CASE g \in given /\ h \in given
      BY <3>1 DEF IInv, FreshInv
    <3>2. CASE g \in Result(c) /\ h \in Result(c)
      BY <3>2, <1>4, <1>5 DEF IInv, FreshInv
    <3>3. CASE g \in given /\ h \in Result(c)
      BY <3>3, <1>4 DEF IInv, FreshInv
    <3>4. CASE g \in Result(c) /\ h \in given
      BY <3>4, <1>4 DEF IInv, FreshInv
    <3> QED BY <3>1, <3>2, <3>3, <3>4
  <2>2. \A d \in Callers : \A i, j \in DOMAIN ips'[d] : ips'[d][i] = ips'[d][j] => i = j
    BY <1>1, <1>2 DEF IInv, FreshInv
  <2>3. \A d \in Callers : \A i \in DOMAIN ips'[d] : \A g \in given' :
          g.net = work'[d] => g.ip # ips'[d][i]
    BY <1>1, <1>2, <1>3, <1>4 DEF IInv, FreshInv
  <2> QED BY <2>1, <2>2, <2>3 DEF FreshInv
<1> QED BY <1>6, <1>7, <1>8, <1>9, <1>10 DEF IInv

\* The other steps leave the addresses alone.
LEMMA InvNext == IInv /\ [Next]_vars => IInv'
<1> SUFFICES ASSUME IInv, [Next]_vars PROVE IInv'
  OBVIOUS
<1>t. TypeOK'
  BY TypeNext DEF IInv
<1> USE DEF Goto
<1>1. ASSUME UNCHANGED <<ips, ip, given, ipIndex, ipv4Net, work>>,
             LiveInv', \A c \in Callers : InLoop(c)' = InLoop(c), MutexInv', CreateInv'
      PROVE  IInv'
  BY <1>1, <1>t DEF IInv, IndexInv, PassedInv, FreshInv
<1>2. ASSUME NEW c \in Callers,
             NewDockerNetwork(c) \/ LockManager(c) \/ NextOctet(c) \/ FormatSubnet(c)
      PROVE  IInv'
  <2>1. /\ UNCHANGED <<ips, ip, given, ipIndex, ipv4Net, work, mutex, live, docker, try>>
        /\ ~ InLoop(c) /\ ~ InLoop(c)' /\ pc'[c] # "lock" /\ Creating(c)'
        /\ \A d \in Callers : d # c => pc'[d] = pc[d]
        /\ ipv4Net[c] = None
    BY <1>2 DEF NewDockerNetwork, LockManager, NextOctet, FormatSubnet, netVars, reqVars,
                InLoop, Creating, IInv, TypeOK, CreateInv
  <2>2. MutexInv' /\ CreateInv' /\ LiveInv'
    BY <2>1 DEF IInv, MutexInv, CreateInv, LiveInv, InLoop, Creating
  <2>3. \A d \in Callers : InLoop(d)' = InLoop(d)
    BY <2>1 DEF InLoop
  <2> QED BY <1>1, <2>1, <2>2, <2>3
<1>3. ASSUME NEW c \in Callers, NetworkCreateFails(c) PROVE IInv'
  <2>1. /\ UNCHANGED <<ips, ip, given, ipIndex, ipv4Net, work, mutex, live>>
        /\ ~ InLoop(c) /\ ~ InLoop(c)' /\ pc'[c] # "lock"
        /\ \A d \in Callers : d # c => pc'[d] = pc[d] /\ try'[d] = try[d]
        /\ ipv4Net[c] = None
        /\ docker \subseteq docker'
    BY <1>3 DEF NetworkCreateFails, reqVars, InLoop, Creating, IInv, TypeOK, CreateInv
  <2>2. MutexInv' /\ CreateInv' /\ LiveInv'
    BY <2>1 DEF IInv, MutexInv, CreateInv, LiveInv, InLoop, Creating
  <2>3. \A d \in Callers : InLoop(d)' = InLoop(d)
    BY <2>1 DEF InLoop
  <2> QED BY <1>1, <2>1, <2>2, <2>3
<1>4. ASSUME NEW c \in Callers, NetworkCreated(c) PROVE IInv'
  BY <1>4, <1>t, InvCreated
<1>5. ASSUME NEW c \in Callers, NEW n \in Callers, Remove(c, n) PROVE IInv'
  <2>1. MutexInv' /\ CreateInv' /\ \A d \in Callers : InLoop(d)' = InLoop(d)
    BY <1>5 DEF Remove, reqVars, IInv, MutexInv, CreateInv, InLoop, Creating
  <2>2. LiveInv'
    BY <1>5 DEF Remove, reqVars, IInv, LiveInv
  <2> QED BY <1>1, <1>5, <2>1, <2>2 DEF Remove, reqVars
<1>6. ASSUME NEW c \in Callers, NEW n \in Callers, NEW k \in Nums, GetFreeIPAddrs(c, n, k)
      PROVE  IInv'
  <2>1. ipv4Net[n] # None
    BY <1>6 DEF GetFreeIPAddrs, IInv, TypeOK, LiveInv, None, Byte
  <2>2. ips[c] = <<>> /\ pc[c] = "idle" /\ pc'[c] = "lock" /\ work'[c] = n
        /\ \A d \in Callers : d # c => pc'[d] = pc[d] /\ work'[d] = work[d]
    BY <1>6 DEF GetFreeIPAddrs, IInv, TypeOK, MutexInv, InLoop
  <2>3. MutexInv' /\ CreateInv' /\ LiveInv' /\ IndexInv'
    BY <1>6, <2>1, <2>2 DEF GetFreeIPAddrs, netVars, IInv, MutexInv, CreateInv, LiveInv, IndexInv,
                            InLoop, Creating
  <2>4. PassedInv' /\ FreshInv'
    BY <1>6, <2>2 DEF GetFreeIPAddrs, netVars, IInv, PassedInv, FreshInv
  <2> QED BY <1>t, <2>3, <2>4 DEF IInv
<1>7. ASSUME NEW c \in Callers, LockNetwork(c) PROVE IInv'
  <2>1. /\ pc[c] = "lock" /\ pc'[c] = "loop" /\ mutex[work[c]] = Nobody
        /\ mutex'[work[c]] = c /\ ips[c] = <<>>
        /\ \A d \in Callers : d # c => pc'[d] = pc[d]
        /\ \A d \in Callers : InLoop(d) => mutex'[work[d]] = d
    BY <1>7 DEF LockNetwork, Free, IInv, TypeOK, MutexInv, InLoop
  <2>2. MutexInv' /\ CreateInv' /\ LiveInv' /\ IndexInv'
    BY <1>7, <2>1 DEF LockNetwork, netVars, IInv, MutexInv, CreateInv, LiveInv, IndexInv,
                      InLoop, Creating
  <2>3. PassedInv' /\ FreshInv'
    BY <1>7 DEF LockNetwork, netVars, IInv, PassedInv, FreshInv
  <2> QED BY <1>t, <2>2, <2>3 DEF IInv
<1>8. ASSUME NEW c \in Callers, DupIP(c) PROVE IInv'
  <2>1. /\ pc[c] = "loop" /\ pc'[c] = "store" /\ ip'[c] = ipIndex[work[c]]
        /\ Contains(ipv4Net[work[c]], ipIndex[work[c]])
        /\ \A d \in Callers : d # c => pc'[d] = pc[d] /\ ip'[d] = ip[d]
    BY <1>8 DEF DupIP, More, IInv, TypeOK
  <2>2. MutexInv' /\ CreateInv' /\ LiveInv' /\ IndexInv'
    BY <1>8, <2>1 DEF DupIP, netVars, IInv, MutexInv, CreateInv, LiveInv, IndexInv,
                      InLoop, Creating
  <2>3. PassedInv' /\ FreshInv'
    BY <1>8 DEF DupIP, netVars, IInv, PassedInv, FreshInv
  <2> QED BY <1>t, <2>2, <2>3 DEF IInv
<1>9. ASSUME NEW c \in Callers, StoreIP(c) PROVE IInv'
  BY <1>9, <1>t, InvStore
<1>10. ASSUME NEW c \in Callers, Return(c) PROVE IInv'
  BY <1>10, <1>t, InvReturn
<1>11. CASE UNCHANGED vars
  BY <1>11, <1>t DEF vars, netVars, reqVars, IInv, MutexInv, CreateInv, LiveInv, IndexInv,
                     PassedInv, FreshInv, InLoop, Creating
<1> QED
  BY <1>2, <1>3, <1>4, <1>5, <1>6, <1>7, <1>8, <1>9, <1>10, <1>11 DEF Next, Step

-----------------------------------------------------------------------------
(* Results                                                                 *)

\* Addresses that were passed, and are fresh, differ.
LEMMA InvImpliesNoAddressTwice == IInv => NoAddressTwice
<1> SUFFICES ASSUME IInv, NEW g \in given, NEW h \in given,
                    g.net \in live, h.net \in live, g.ip = h.ip
             PROVE  g = h
  BY DEF NoAddressTwice
<1>1. /\ g.net \in Callers /\ h.net \in Callers /\ g.ip \in Addr
      /\ ipv4Net[g.net] \in Byte /\ ipv4Net[h.net] \in Byte
  BY DEF IInv, TypeOK, GivenType, CreateInv
<1>2. CASE g.net = h.net
  BY <1>2 DEF IInv, FreshInv
<1>3. CASE g.net # h.net
  <2>1. ipv4Net[g.net] # ipv4Net[h.net]
    BY <1>3 DEF IInv, LiveInv
  <2>2. /\ Passed(ipv4Net[g.net], g.ip, ipIndex[g.net])
        /\ Passed(ipv4Net[h.net], g.ip, ipIndex[h.net])
    BY DEF IInv, PassedInv
  <2> QED BY <1>1, <2>1, <2>2, PassedDisjoint
<1> QED BY <1>2, <1>3

\* Addresses that were passed are past the gateway.
LEMMA InvImpliesReserved == IInv => ReservedNeverGiven
<1> SUFFICES ASSUME IInv, NEW g \in given, NEW n \in live
             PROVE  /\ g.ip # Gateway(ipv4Net[n])
                    /\ g.net = n => g.ip # NetworkAddr(ipv4Net[n])
  BY DEF ReservedNeverGiven
<1>1. /\ g.net \in Callers /\ g.ip \in Addr /\ ipv4Net[g.net] \in Byte
      /\ ipv4Net[n] \in Byte
  BY DEF IInv, TypeOK, GivenType, CreateInv, LiveInv
<1>2. Passed(ipv4Net[g.net], g.ip, ipIndex[g.net])
  BY DEF IInv, PassedInv
<1> QED BY <1>1, <1>2, PassedNotReserved

\* Two containers on networks that exist at the same time never get the same
\* address, for any number of goroutines, networks, calls and retries.
THEOREM AddressesDistinct == Spec => []NoAddressTwice
<1>1. Spec => []IInv
  BY InvInit, InvNext, PTL DEF Spec
<1> QED BY <1>1, InvImpliesNoAddressTwice, PTL

\* No container gets a gateway, nor the address of its own network.
THEOREM ReservedDistinct == Spec => []ReservedNeverGiven
<1>1. Spec => []IInv
  BY InvInit, InvNext, PTL DEF Spec
<1> QED BY <1>1, InvImpliesReserved, PTL

-----------------------------------------------------------------------------
(* The mutexes                                                             *)

\* Who holds a mutex is where it will be released.
HolderInv ==
  /\ \A c, n \in Callers : mutex[n] = c => pc[c] \in {"loop", "store"} /\ work[c] = n
  /\ \A c \in Callers, p \in Procs :
       mgrMutex[p] = c => pc[c] \in {"nextOctet", "formatSubnet"} /\ ProcOf[c] = p

\* Every step keeps that a mutex which is taken has a holder.
LEMMA HolderInvNext == TypeOK /\ HolderInv /\ [Next]_vars => HolderInv'
<1> SUFFICES ASSUME TypeOK, HolderInv, [Next]_vars PROVE HolderInv'
  OBVIOUS
<1> USE DEF Goto, Free
<1>1. ASSUME UNCHANGED <<mutex, mgrMutex, work>>, NEW c \in Callers,
             pc[c] \notin {"loop", "store", "nextOctet", "formatSubnet"},
             \A d \in Callers : d # c => pc'[d] = pc[d]
      PROVE  HolderInv'
  BY <1>1 DEF HolderInv
<1>2. ASSUME NEW c \in Callers,
             NewDockerNetwork(c) \/ NetworkCreated(c) \/ NetworkCreateFails(c)
      PROVE  HolderInv'
  <2>1. /\ UNCHANGED <<mutex, mgrMutex, work>>
        /\ pc[c] \in {"idle", "netCreate"}
        /\ \A d \in Callers : d # c => pc'[d] = pc[d]
    BY <1>2 DEF NewDockerNetwork, NetworkCreated, NetworkCreateFails, netVars, reqVars, TypeOK
  <2> QED BY <1>1, <2>1
<1>3. ASSUME NEW c \in Callers, LockManager(c) PROVE HolderInv'
  <2>1. /\ pc[c] = "getSubnet" /\ pc'[c] = "nextOctet"
        /\ \A d \in Callers : d # c => pc'[d] = pc[d]
        /\ \A p \in Procs : mgrMutex'[p] = IF p = ProcOf[c] THEN c ELSE mgrMutex[p]
        /\ UNCHANGED <<mutex, work>>
    BY <1>3 DEF LockManager, reqVars, TypeOK
  <2> QED BY <2>1 DEF HolderInv
<1>4. ASSUME NEW c \in Callers, NextOctet(c) \/ DupIP(c) \/ StoreIP(c) PROVE HolderInv'
  <2>1. /\ UNCHANGED <<mutex, mgrMutex, work>>
        /\ \/ pc[c] = "nextOctet" /\ pc'[c] = "formatSubnet"
           \/ {pc[c], pc'[c]} \subseteq {"loop", "store"}
        /\ \A d \in Callers : d # c => pc'[d] = pc[d]
    BY <1>4 DEF NextOctet, DupIP, StoreIP, netVars, reqVars, TypeOK
  <2> QED BY <2>1 DEF HolderInv
<1>5. ASSUME NEW c \in Callers, FormatSubnet(c) PROVE HolderInv'
  <2>1. /\ pc[c] = "formatSubnet" /\ UNCHANGED <<mutex, work>>
        /\ \A d \in Callers : d # c => pc'[d] = pc[d]
        /\ \A p \in Procs : mgrMutex'[p] = IF p = ProcOf[c] THEN Nobody ELSE mgrMutex[p]
    BY <1>5 DEF FormatSubnet, reqVars, TypeOK
  <2> QED BY <2>1 DEF HolderInv
<1>6. ASSUME NEW c \in Callers, NEW n \in Callers, Remove(c, n) PROVE HolderInv'
  BY <1>6 DEF Remove, reqVars, HolderInv
<1>7. ASSUME NEW c \in Callers, NEW n \in Callers, NEW k \in Nums,
             GetFreeIPAddrs(c, n, k) PROVE HolderInv'
  <2>1. /\ pc[c] = "idle" /\ UNCHANGED <<mutex, mgrMutex>>
        /\ \A d \in Callers : d # c => pc'[d] = pc[d] /\ work'[d] = work[d]
    BY <1>7 DEF GetFreeIPAddrs, netVars, TypeOK
  <2> QED BY <2>1 DEF HolderInv
<1>8. ASSUME NEW c \in Callers, LockNetwork(c) PROVE HolderInv'
  <2>1. /\ pc[c] = "lock" /\ pc'[c] = "loop" /\ UNCHANGED <<mgrMutex, work>>
        /\ \A d \in Callers : d # c => pc'[d] = pc[d]
        /\ \A n \in Callers : mutex'[n] = IF n = work[c] THEN c ELSE mutex[n]
    BY <1>8 DEF LockNetwork, netVars, TypeOK
  <2> QED BY <2>1 DEF HolderInv
<1>9. ASSUME NEW c \in Callers, Return(c) PROVE HolderInv'
  <2>1. /\ pc[c] = "loop" /\ UNCHANGED mgrMutex
        /\ \A d \in Callers : d # c => pc'[d] = pc[d] /\ work'[d] = work[d]
        /\ \A n \in Callers : mutex'[n] = IF n = work[c] THEN Nobody ELSE mutex[n]
    BY <1>9 DEF Return, Unlock, ForgetLocals, netVars, TypeOK
  <2> QED BY <2>1 DEF HolderInv
<1>10. CASE UNCHANGED vars
  BY <1>10 DEF vars, netVars, reqVars, HolderInv
<1> QED
  BY <1>2, <1>3, <1>4, <1>5, <1>6, <1>7, <1>8, <1>9, <1>10 DEF Next, Step

\* No mutex is left locked, whichever way the calls end.
THEOREM Released == Spec => []MutexesReleased
<1>1. Init => HolderInv
  BY DEF Init, HolderInv
<1>2. TypeOK /\ HolderInv => MutexesReleased
  BY DEF TypeOK, HolderInv, MutexesReleased
<1> QED BY <1>1, <1>2, TypeInit, TypeNext, HolderInvNext, PTL DEF Spec

-----------------------------------------------------------------------------
(* Subnets are not shared                                                  *)

\* Between secondOctet++ and the Sprintf that reads it the mutex is held.
MgrHeld ==
  \A c \in Callers : pc[c] \in {"nextOctet", "formatSubnet"} => mgrMutex[ProcOf[c]] = c

\* All octets of a process so far are at most secondOctet, and below it when
\* it has been raised and not been read.
OctetInv ==
  /\ \A c \in Callers : ipv4Net[c] <= secondOctet[ProcOf[c]]
                       /\ subnet[c] <= secondOctet[ProcOf[c]]
  /\ \A c, d \in Callers : pc[c] = "formatSubnet" /\ ProcOf[c] = ProcOf[d] =>
       ipv4Net[d] < secondOctet[ProcOf[c]] /\ subnet[d] < secondOctet[ProcOf[c]]

SubnetInv == TypeOK /\ MgrHeld /\ OctetInv /\ SubnetsNeverShared

\* Every step keeps that proposed octets are not above the counter.
LEMMA SubnetInvNext == SubnetInv /\ [Next]_vars => SubnetInv'
<1> SUFFICES ASSUME SubnetInv, [Next]_vars PROVE SubnetInv'
  OBVIOUS
<1>t. TypeOK'
  BY TypeNext DEF SubnetInv
<1>n. \A d \in Callers : /\ ProcOf[d] \in Procs /\ secondOctet[ProcOf[d]] \in Int
                         /\ ipv4Net[d] \in Int /\ subnet[d] \in Int
  BY DEF SubnetInv, TypeOK, None, Byte
<1>i. TypeOK /\ MgrHeld /\ OctetInv /\ SubnetsNeverShared
  BY DEF SubnetInv
<1> USE DEF Goto, Free
\* Steps that change no octet.
<1>1. ASSUME UNCHANGED <<secondOctet, mgrMutex, ipv4Net>>, NEW c \in Callers,
             pc'[c] \notin {"nextOctet", "formatSubnet", "netCreate"},
             \A d \in Callers : d # c => pc'[d] = pc[d],
             subnet' = subnet
      PROVE  SubnetInv'
  BY <1>1, <1>t, <1>i DEF SubnetInv, MgrHeld, OctetInv, SubnetsNeverShared
<1>2. ASSUME NEW c \in Callers, NewDockerNetwork(c) PROVE SubnetInv'
  BY <1>1, <1>2, <1>i DEF NewDockerNetwork, netVars, reqVars, TypeOK
<1>3. ASSUME NEW c \in Callers, LockManager(c) PROVE SubnetInv'
  BY <1>3, <1>t, <1>i DEF LockManager, reqVars, TypeOK, SubnetInv, MgrHeld, OctetInv,
                          SubnetsNeverShared
<1>4. ASSUME NEW c \in Callers, NextOctet(c) PROVE SubnetInv'
  <2>1. /\ pc[c] = "nextOctet" /\ pc' = [pc EXCEPT ![c] = "formatSubnet"]
        /\ secondOctet' = [secondOctet EXCEPT ![ProcOf[c]] = @ + 1]
        /\ UNCHANGED <<mgrMutex, ipv4Net, subnet>>
    BY <1>4 DEF NextOctet
  <2>2. MgrHeld'
    BY <2>1, <1>i DEF MgrHeld, TypeOK
  <2>3. \A d \in Callers : d # c /\ ProcOf[d] = ProcOf[c] => pc[d] # "formatSubnet"
    BY <2>1, <1>i DEF MgrHeld
  <2>4. OctetInv'
    <3>1. /\ \A d \in Callers : secondOctet'[ProcOf[d]] =
               IF ProcOf[d] = ProcOf[c] THEN secondOctet[ProcOf[c]] + 1
                                        ELSE secondOctet[ProcOf[d]]
          /\ \A d \in Callers : d # c => pc'[d] = pc[d]
      BY <2>1, <1>i, <1>n DEF TypeOK
    <3> QED BY <2>1, <2>3, <3>1, <1>i, <1>n DEF OctetInv
  <2>5. SubnetsNeverShared'
    BY <2>1, <1>i DEF SubnetsNeverShared, TypeOK
  <2> QED BY <1>t, <2>2, <2>4, <2>5 DEF SubnetInv
<1>5. ASSUME NEW c \in Callers, FormatSubnet(c) PROVE SubnetInv'
  <2>1. /\ pc[c] = "formatSubnet" /\ pc' = [pc EXCEPT ![c] = "netCreate"]
        /\ subnet' = [subnet EXCEPT ![c] = secondOctet[ProcOf[c]]]
        /\ mgrMutex' = [mgrMutex EXCEPT ![ProcOf[c]] = Nobody]
        /\ UNCHANGED <<secondOctet, ipv4Net>>
    BY <1>5 DEF FormatSubnet
  <2>2. \A d \in Callers : d # c /\ ProcOf[d] = ProcOf[c] =>
          pc[d] \notin {"nextOctet", "formatSubnet"}
    BY <2>1, <1>i DEF MgrHeld
  <2>3. MgrHeld'
    BY <2>1, <2>2, <1>i DEF MgrHeld, TypeOK
  <2>4. OctetInv'
    BY <2>1, <2>2, <1>i DEF OctetInv, TypeOK, None, Byte
  <2>5. SubnetsNeverShared'
    BY <2>1, <1>i DEF SubnetsNeverShared, OctetInv, TypeOK, None, Byte
  <2> QED BY <1>t, <2>3, <2>4, <2>5 DEF SubnetInv
<1>6. ASSUME NEW c \in Callers, NetworkCreated(c) PROVE SubnetInv'
  <2>1. /\ pc[c] = "netCreate" /\ pc' = [pc EXCEPT ![c] = "idle"]
        /\ subnet[c] \in Byte
        /\ ipv4Net' = [ipv4Net EXCEPT ![c] = subnet[c]]
        /\ subnet' = [subnet EXCEPT ![c] = None]
        /\ UNCHANGED <<secondOctet, mgrMutex>>
    BY <1>6 DEF NetworkCreated, Creatable
  <2>2. MgrHeld'
    BY <2>1, <1>i DEF MgrHeld, TypeOK
  <2>3. OctetInv'
    <3>1. /\ \A d \in Callers : ipv4Net'[d] = IF d = c THEN subnet[c] ELSE ipv4Net[d]
          /\ \A d \in Callers : subnet'[d] = IF d = c THEN None ELSE subnet[d]
      BY <2>1, <1>i DEF TypeOK
    <3>2. pc'[c] = "idle" /\ \A d \in Callers : d # c => pc'[d] = pc[d]
      BY <2>1, <1>i DEF TypeOK
    <3>3. \A d \in Callers : None <= subnet[d]
      <4>1. \A d \in Callers : subnet[d] \in Nat \cup {None}
        BY <1>i DEF TypeOK
      <4> QED BY <4>1 DEF None
    <3>4. None \in Int
      BY DEF None
    <3> QED BY <2>1, <3>1, <3>2, <3>3, <3>4, <1>i, <1>n DEF OctetInv
  <2>4. SubnetsNeverShared'
    BY <2>1, <1>i DEF SubnetsNeverShared, TypeOK
  <2> QED BY <1>t, <2>2, <2>3, <2>4 DEF SubnetInv
<1>7. ASSUME NEW c \in Callers, NetworkCreateFails(c) PROVE SubnetInv'
  <2>1. /\ pc' \in [Callers -> {"idle", "getSubnet", "nextOctet", "formatSubnet",
                                "netCreate", "lock", "loop", "store"}]
        /\ pc[c] = "netCreate" /\ pc'[c] \in {"idle", "getSubnet"}
        /\ \A d \in Callers : d # c => pc'[d] = pc[d]
        /\ subnet' = [subnet EXCEPT ![c] = None]
        /\ UNCHANGED <<secondOctet, mgrMutex, ipv4Net>>
    BY <1>7, <1>t, <1>i DEF NetworkCreateFails, TypeOK
  <2>2. MgrHeld'
    BY <2>1, <1>i DEF MgrHeld, TypeOK
  <2>3. OctetInv'
    BY <2>1, <1>i DEF OctetInv, TypeOK, None, Byte
  <2>4. SubnetsNeverShared'
    BY <2>1, <1>i DEF SubnetsNeverShared, TypeOK
  <2> QED BY <1>t, <2>2, <2>3, <2>4 DEF SubnetInv
<1>8. ASSUME NEW c \in Callers, NEW n \in Callers, Remove(c, n) PROVE SubnetInv'
  BY <1>8, <1>t, <1>i DEF Remove, reqVars, SubnetInv, MgrHeld, OctetInv, SubnetsNeverShared
<1>9. ASSUME NEW c \in Callers, NEW n \in Callers, NEW k \in Nums,
             GetFreeIPAddrs(c, n, k) PROVE SubnetInv'
  BY <1>1, <1>9, <1>i DEF GetFreeIPAddrs, netVars, TypeOK
<1>10. ASSUME NEW c \in Callers, LockNetwork(c) \/ DupIP(c) \/ StoreIP(c) \/ Return(c)
       PROVE SubnetInv'
  BY <1>1, <1>10, <1>i DEF LockNetwork, DupIP, StoreIP, Return, netVars, TypeOK
<1>11. CASE UNCHANGED vars
  BY <1>11, <1>t, <1>i DEF vars, netVars, SubnetInv, MgrHeld, OctetInv, SubnetsNeverShared
<1> QED
  BY <1>2, <1>3, <1>4, <1>5, <1>6, <1>7, <1>8, <1>9, <1>10, <1>11 DEF Next, Step

\* TryGetFreeSubnet never proposes a subnet twice in a process, however often it
\* is called, by however many goroutines.
THEOREM SubnetsDistinct == Spec => []SubnetsNeverShared
<1>1. Init => SubnetInv
  BY TypeInit DEF Init, SubnetInv, MgrHeld, OctetInv, SubnetsNeverShared, None
<1>2. SubnetInv => SubnetsNeverShared
  BY DEF SubnetInv
<1> QED BY <1>1, <1>2, SubnetInvNext, PTL DEF Spec

=============================================================================

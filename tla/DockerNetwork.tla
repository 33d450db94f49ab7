---------------------------- MODULE DockerNetwork ----------------------------
(***************************************************************************)
(* Docker networks of the regression harness (container/network.go).       *)
(*                                                                         *)
(* A process has one networkManager, which hands out /16 subnets, and any  *)
(* number of DockerNetwork objects, each of which hands out the addresses  *)
(* of its subnet.  Both are shared by the goroutines of the process and    *)
(* guarded by a mutex.  The Docker daemon is shared by all processes (go   *)
(* test runs every package in a process of its own) and refuses a subnet   *)
(* that overlaps one in use.                                               *)
(*                                                                         *)
(* A network is named by the goroutine that created it.  A byte of an      *)
(* address ranges over 0 .. Base-1 (256 in the code).  Network names, CIDR *)
(* texts and the gateway Docker adds by itself are left out.               *)
(***************************************************************************)
EXTENDS Integers, Sequences, FiniteSets

CONSTANTS
  Procs,        \* operating system processes: one networkManager each
  Callers,      \* goroutines
  ProcOf,       \* the process a goroutine runs in
  Base,         \* number of values of an address byte (256)
  FirstOctet,   \* first byte of every subnet (172)
  SecondOctet,  \* where the second byte starts, itself never used (17)
  MaxTryCount,  \* subnets tried by create (15)
  Nums,         \* request sizes of GetFreeIPAddrs
  MaxCalls,     \* bound: GetFreeIPAddrs calls of one goroutine
  Nobody        \* the holder of a free mutex

ASSUME ProcsAssumption    == ProcOf \in [Callers -> Procs] /\ Nobody \notin Callers
ASSUME OctetsAssumption   == /\ Base \in Nat /\ Base > 1
                             /\ FirstOctet \in 0 .. Base - 1
                             /\ SecondOctet \in 0 .. Base - 1
ASSUME RequestsAssumption == /\ MaxTryCount \in Nat \ {0}
                             /\ Nums \subseteq Nat
                             /\ MaxCalls \in Nat

VARIABLES
  secondOctet,  \* networkManager.secondOctet, per process
  mgrMutex,     \* networkManager.mutex: its holder, per process
  docker,       \* second octets of the subnets the Docker daemon has in use
  ipv4Net,      \* DockerNetwork.ipv4Net: its second octet, None before create
  live,         \* networks created and not removed
  ipIndex,      \* DockerNetwork.ipIndex: the address given out last
  mutex,        \* DockerNetwork.mutex: its holder
  pc,           \* where each goroutine is
  try,          \* create: the loop variable i, MaxTryCount once it is left
  subnet,       \* create: the subnet being tried
  work,         \* GetFreeIPAddrs: the network it was called on
  num, ips, ip, \* GetFreeIPAddrs: its argument, result so far, and ip
  calls,        \* GetFreeIPAddrs calls made so far, per goroutine
  given         \* history: every address returned to a caller

netVars == <<secondOctet, mgrMutex, docker, ipv4Net, live, try, subnet>>
reqVars == <<work, num, ips, ip, calls, given>>
vars == <<netVars, ipIndex, mutex, pc, reqVars>>

None == -1

Byte == 0 .. Base - 1
Addr == [1 .. 4 -> Byte]

Zero == <<0, 0, 0, 0>>

\* Gateway of the subnet with second octet o: xxx.xxx.0.1.
Gateway(o) == <<FirstOctet, o, 0, 1>>

NetworkAddr(o) == <<FirstOctet, o, 0, 0>>

\* net.IPNet.Contains on a /16 subnet.
Contains(o, a) == a[1] = FirstOctet /\ a[2] = o

\* The address the index of a new network stands at.
FirstIndexIsNetwork(o) == NetworkAddr(o)  \* mutant: starts one too low
FirstIndex(o) == Gateway(o)

\* ip[j]++ on a byte.
IncByteUnwrapped(b) == b + 1  \* mutant: a byte does not wrap
IncByte(b) == IF b = Base - 1 THEN 0 ELSE b + 1

\* The loop that adds one to an address: byte j is incremented when all the
\* bytes after it have wrapped to 0.
IncAddr(a) ==
  [j \in 1 .. 4 |-> IF \A k \in (j + 1) .. 4 : a[k] = Base - 1
                      THEN IncByte(a[j]) ELSE a[j]]

-----------------------------------------------------------------------------
Init ==
  /\ secondOctet = [p \in Procs |-> SecondOctet]
  /\ mgrMutex = [p \in Procs |-> Nobody]
  /\ docker = {}
  /\ ipv4Net = [n \in Callers |-> None]
  /\ live = {}
  /\ ipIndex = [n \in Callers |-> Zero]
  /\ mutex = [n \in Callers |-> Nobody]
  /\ pc = [c \in Callers |-> "idle"]
  /\ try = [c \in Callers |-> 0]
  /\ subnet = [c \in Callers |-> None]
  /\ work = [c \in Callers |-> c]
  /\ num = [c \in Callers |-> 0]
  /\ ips = [c \in Callers |-> <<>>]
  /\ ip = [c \in Callers |-> Zero]
  /\ calls = [c \in Callers |-> 0]
  /\ given = {}

\* Whether a mutex with this holder can be locked.
FreeAlways(holder) == TRUE  \* mutant: the mutex is not taken
Free(holder) == holder = Nobody

Goto(c, from, to) == pc[c] = from /\ pc' = [pc EXCEPT ![c] = to]

-----------------------------------------------------------------------------
(* NewDockerNetwork and create                                             *)

NewDockerNetwork(c) ==
  /\ Goto(c, "idle", "getSubnet")
  /\ try[c] = 0
  /\ UNCHANGED <<netVars, ipIndex, mutex, reqVars>>

LockManager(c) ==
  /\ Goto(c, "getSubnet", "nextOctet")
  /\ Free(mgrMutex[ProcOf[c]])
  /\ mgrMutex' = [mgrMutex EXCEPT ![ProcOf[c]] = c]
  /\ UNCHANGED <<secondOctet, docker, ipv4Net, live, try, subnet>>
  /\ UNCHANGED <<ipIndex, mutex, reqVars>>

\* n.secondOctet++
NextOctet(c) ==
  /\ Goto(c, "nextOctet", "formatSubnet")
  /\ secondOctet' = [secondOctet EXCEPT ![ProcOf[c]] = @ + 1]
  /\ UNCHANGED <<mgrMutex, docker, ipv4Net, live, try, subnet>>
  /\ UNCHANGED <<ipIndex, mutex, reqVars>>

FormatSubnetLocked(c) ==  \* mutant: the mutex is not released
  /\ Goto(c, "formatSubnet", "netCreate")
  /\ subnet' = [subnet EXCEPT ![c] = secondOctet[ProcOf[c]]]
  /\ UNCHANGED <<secondOctet, mgrMutex, docker, ipv4Net, live, try>>
  /\ UNCHANGED <<ipIndex, mutex, reqVars>>

\* The subnet is read from n.secondOctet, then the mutex is released.
FormatSubnet(c) ==
  /\ Goto(c, "formatSubnet", "netCreate")
  /\ subnet' = [subnet EXCEPT ![c] = secondOctet[ProcOf[c]]]
  /\ mgrMutex' = [mgrMutex EXCEPT ![ProcOf[c]] = Nobody]
  /\ UNCHANGED <<secondOctet, docker, ipv4Net, live, try>>
  /\ UNCHANGED <<ipIndex, mutex, reqVars>>

\* What the daemon accepts: an octet that is a byte, of no subnet in use.
Creatable(o) == o \in Byte \ docker

NetworkCreated(c) ==
  /\ Goto(c, "netCreate", "idle")
  /\ Creatable(subnet[c])
  /\ docker' = docker \cup {subnet[c]}
  /\ live' = live \cup {c}
  /\ ipv4Net' = [ipv4Net EXCEPT ![c] = subnet[c]]
  /\ ipIndex' = [ipIndex EXCEPT ![c] = FirstIndex(subnet[c])]
  /\ try' = [try EXCEPT ![c] = MaxTryCount]
  /\ subnet' = [subnet EXCEPT ![c] = None]
  /\ UNCHANGED <<secondOctet, mgrMutex, mutex, reqVars>>

\* The daemon refuses, or creates the network and its answer is lost: the
\* subnet stays in use and nobody knows the network.
NetworkCreateFails(c) ==
  /\ pc[c] = "netCreate"
  /\ \/ docker' = docker
     \/ Creatable(subnet[c]) /\ docker' = docker \cup {subnet[c]}
  /\ try' = [try EXCEPT ![c] = @ + 1]
  /\ pc' = [pc EXCEPT ![c] = IF try[c] + 1 < MaxTryCount THEN "getSubnet" ELSE "idle"]
  /\ subnet' = [subnet EXCEPT ![c] = None]
  /\ UNCHANGED <<secondOctet, mgrMutex, ipv4Net, live>>
  /\ UNCHANGED <<ipIndex, mutex, reqVars>>

\* A call of Remove on network n that the daemon accepts.
Remove(c, n) ==
  /\ pc[c] = "idle" /\ n \in live /\ ProcOf[c] = ProcOf[n]
  /\ live' = live \ {n}
  /\ docker' = docker \ {ipv4Net[n]}
  /\ UNCHANGED <<secondOctet, mgrMutex, ipv4Net, try, subnet>>
  /\ UNCHANGED <<ipIndex, mutex, pc, reqVars>>

-----------------------------------------------------------------------------
(* GetFreeIPAddrs                                                          *)

GetFreeIPAddrs(c, n, k) ==
  /\ Goto(c, "idle", "lock")
  /\ n \in live /\ ProcOf[c] = ProcOf[n]
  /\ calls[c] < MaxCalls
  /\ work' = [work EXCEPT ![c] = n]
  /\ num' = [num EXCEPT ![c] = k]
  /\ calls' = [calls EXCEPT ![c] = @ + 1]
  /\ UNCHANGED <<netVars, ipIndex, mutex, ips, ip, given>>

LockNetwork(c) ==
  /\ Goto(c, "lock", "loop")
  /\ Free(mutex[work[c]])
  /\ mutex' = [mutex EXCEPT ![work[c]] = c]
  /\ UNCHANGED <<netVars, ipIndex, work, num, ips, ip, calls, given>>

\* The condition of the loop: it looks at the address given out last, not at
\* the one about to be given out.
More(c) == /\ Len(ips[c]) < num[c]
           /\ Contains(ipv4Net[work[c]], ipIndex[work[c]])

\* ip := dupIP(n.ipIndex)
DupIP(c) ==
  /\ Goto(c, "loop", "store")
  /\ More(c)
  /\ ip' = [ip EXCEPT ![c] = ipIndex[work[c]]]
  /\ UNCHANGED <<netVars, ipIndex, mutex, work, num, ips, calls, given>>

\* The copy is incremented, stored in n.ipIndex and appended.
StoreIP(c) ==
  /\ Goto(c, "store", "loop")
  /\ ip' = [ip EXCEPT ![c] = IncAddr(@)]
  /\ ipIndex' = [ipIndex EXCEPT ![work[c]] = ip'[c]]
  /\ ips' = [ips EXCEPT ![c] = Append(@, ip'[c])]
  /\ UNCHANGED <<netVars, mutex, work, num, calls, given>>

\* What a call returns: its addresses, each with the place it was given at.
Result(c) ==
  IF Len(ips[c]) # num[c] THEN {}     \* insufficient IP address.
  ELSE {[net |-> work[c], to |-> c, call |-> calls[c], pos |-> i, ip |-> ips[c][i]] :
          i \in DOMAIN ips[c]}

\* The variables of a call end with it.
ForgetLocals(c) ==
  /\ work' = [work EXCEPT ![c] = c]
  /\ num' = [num EXCEPT ![c] = 0]
  /\ ips' = [ips EXCEPT ![c] = <<>>]
  /\ ip' = [ip EXCEPT ![c] = Zero]

\* defer n.mutex.Unlock()
UnlockOnSuccess(c) ==  \* mutant: the error path keeps the mutex
  mutex' = [mutex EXCEPT ![work[c]] = IF Len(ips[c]) = num[c] THEN Nobody ELSE @]
Unlock(c) == mutex' = [mutex EXCEPT ![work[c]] = Nobody]

Return(c) ==
  /\ Goto(c, "loop", "idle")
  /\ ~ More(c)
  /\ Unlock(c)
  /\ given' = given \cup Result(c)
  /\ ForgetLocals(c)
  /\ UNCHANGED <<netVars, ipIndex, calls>>

-----------------------------------------------------------------------------
Step(c) ==
  \/ LockManager(c) \/ NextOctet(c) \/ FormatSubnet(c)
  \/ NetworkCreated(c) \/ NetworkCreateFails(c)
  \/ LockNetwork(c) \/ DupIP(c) \/ StoreIP(c) \/ Return(c)

Next ==
  \E c \in Callers :
    \/ NewDockerNetwork(c)
    \/ Step(c)
    \/ \E n \in Callers : Remove(c, n)
    \/ \E n \in Callers, k \in Nums : GetFreeIPAddrs(c, n, k)

\* A goroutine in a call runs on.  Go's mutexes are not starved; with a
\* bounded number of calls weak fairness of the lock steps says as much.
Fairness == \A c \in Callers : WF_vars(Step(c))

Spec == Init /\ [][Next]_vars /\ Fairness

-----------------------------------------------------------------------------
(* Properties                                                              *)

GivenType == [net : Callers, to : Callers, call : 0 .. MaxCalls,
              pos : Nat \ {0}, ip : Addr]

\* Type invariant of the networks and of the goroutines that use them.
TypeOK ==
  /\ secondOctet \in [Procs -> Nat]
  /\ mgrMutex \in [Procs -> Callers \cup {Nobody}]
  /\ docker \subseteq Byte
  /\ ipv4Net \in [Callers -> Byte \cup {None}]
  /\ live \subseteq Callers
  /\ ipIndex \in [Callers -> Addr]
  /\ mutex \in [Callers -> Callers \cup {Nobody}]
  /\ pc \in [Callers -> {"idle", "getSubnet", "nextOctet", "formatSubnet",
                         "netCreate", "lock", "loop", "store"}]
  /\ try \in [Callers -> Nat]
  /\ subnet \in [Callers -> Nat \cup {None}]
  /\ work \in [Callers -> Callers]
  /\ num \in [Callers -> Nums \cup {0}]
  /\ ips \in [Callers -> Seq(Addr)]
  /\ ip \in [Callers -> Addr]
  /\ calls \in [Callers -> 0 .. MaxCalls]
  /\ given \subseteq GivenType

\* Two containers never get the same address: across all calls, goroutines
\* and networks that exist at the same time, whatever the interleaving of the
\* loops in GetFreeIPAddrs and however often a subnet had to be retried.
NoAddressTwice ==
  \A g, h \in given :
    g.net \in live /\ h.net \in live /\ g.ip = h.ip => g = h

\* The gateway and the network address of a live network are never given to a
\* container: not by the network itself, and not by a neighbour whose last
\* address spills over into the next subnet.
ReservedNeverGiven ==
  \A g \in given, n \in live :
    g.net \in live =>
      /\ g.ip # Gateway(ipv4Net[n])
      /\ g.net = n => g.ip # NetworkAddr(ipv4Net[n])

\* TryGetFreeSubnet never proposes the same subnet to two goroutines of a
\* process, and never one that a network of the process has, even a removed
\* one: containers of a removed network may still be around.
SubnetsNeverShared ==
  \A c, d \in Callers :
    c # d /\ ProcOf[c] = ProcOf[d] /\ pc[c] = "netCreate" =>
      /\ pc[d] = "netCreate" => subnet[c] # subnet[d]
      /\ subnet[c] # ipv4Net[d]

\* A mutex is never left locked: whichever way a call ends, also when it runs
\* out of addresses, the holder of a mutex is a goroutine that is in between
\* taking and releasing it, on that network or in that process.
MutexesReleased ==
  /\ \A n \in Callers : mutex[n] # Nobody =>
       pc[mutex[n]] \in {"loop", "store"} /\ work[mutex[n]] = n
  /\ \A p \in Procs : mgrMutex[p] # Nobody =>
       pc[mgrMutex[p]] \in {"nextOctet", "formatSubnet"} /\ ProcOf[mgrMutex[p]] = p

\* Every call returns: no goroutine waits for ever for one of the mutexes,
\* whichever way the calls before it ended.
CallsReturn == \A c \in Callers : pc[c] # "idle" ~> pc[c] = "idle"

\* Every address GetFreeIPAddrs returns lies in the subnet of its network:
\* the addresses are the subnet's, counted up from xxx.xxx.0.1.
GivenInSubnet ==
  \A g \in given : Contains(ipv4Net[g.net], g.ip)

=============================================================================

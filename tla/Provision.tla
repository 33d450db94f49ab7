------------------------------ MODULE Provision ------------------------------
(***************************************************************************)
(* How a chain gets its nodes: the four constructors, AddFullnodes and     *)
(* CreateNodes of container/blockchain.go, together with the vaults of a   *)
(* Smilo chain.  A test makes and starts the vaults, constructs the chain, *)
(* adds nodes to it or creates nodes that join it, and stops the vaults.   *)
(* Starting, connecting and stopping the nodes is in Blockchain.           *)
(*                                                                         *)
(* After a constructor that fails the code that cleans up panics on the    *)
(* chain, which is nil: nothing more happens.                              *)
(***************************************************************************)
EXTENDS VaultNetwork, NodeOptions

CONSTANTS
  Kinds,     \* the constructors to call, of AllKinds
  Shapes,    \* numbers of normal and of faulty nodes, as pairs
  MaxCalls,  \* bound: calls of AddFullnodes and CreateNodes
  Excess     \* bound: nodes asked of them beyond as many as the chain began with

SmiloKinds == {"NewSmilo", "SmiloWithFaulty"}
FaultyKinds == {"WithFaulty", "SmiloWithFaulty"}
AllKinds == {"New"} \cup SmiloKinds \cup FaultyKinds

ASSUME KindsAssumption == Kinds \subseteq AllKinds
ASSUME ShapesAssumption ==
  \A s \in Shapes : s \in (Nat \ {0}) \X Nat /\ s[1] + s[2] \in VaultSizes
ASSUME CallsAssumption == MaxCalls \in Nat /\ Excess \in Nat

VARIABLES
  kind, normal, faulty,     \* the constructor and its arguments
  accounts, genesis, opts,  \* fields of the chain
  fullnodes, created,       \* its nodes, and those CreateNodes made
  ips, keys, index,         \* arguments and loop of setupFullnodes
  lib,                      \* the flag library
  cpc, ccall, cresult,      \* where the caller is, its call and the result
  count, calls,             \* number of nodes asked for, calls so far
  fresh                     \* the next address, key, account or directory

input == <<kind, normal, faulty>>
fields == <<accounts, genesis, opts, fullnodes>>
chainVars == <<input, fields, created, ips, keys, index, lib,
               cpc, ccall, cresult, count, calls, fresh>>
vars == <<vaultVars, faults, chainVars>>

IsSmilo == kind \in SmiloKinds
Total == normal + faulty

\* The genesis file: "relative" when it is in the current directory, a name
\* that Docker takes for a volume.
NoFile == ""
NoGenesis == [file |-> NoFile, number |-> 0, fullnodes |-> {}, alloc |-> {}, smilo |-> FALSE]

ChainInit ==
  /\ kind \in Kinds
  /\ \E s \in Shapes : normal = s[1] /\ faulty = s[2]
  /\ (faulty > 0) <=> (kind \in FaultyKinds)
  /\ accounts = <<>> /\ genesis = NoGenesis /\ opts = "normal" /\ fullnodes = <<>>
  /\ created = <<>> /\ ips = <<>> /\ keys = <<>> /\ index = 0 /\ lib = DefaultUtils
  /\ cpc = "idle" /\ ccall = "none" /\ cresult = "nil"
  /\ count = 0 /\ calls = 0 /\ fresh = 1

At(place) == cpc = place /\ UNCHANGED <<input, ccall, count, calls>>
Goto(place) == cpc' = place /\ UNCHANGED cresult
Return(value) == cpc' = "idle" /\ cresult' = value

\* n values that nobody has yet.
Some(n) == [i \in 1 .. n |-> fresh + i - 1]
Take(n) == fresh' = fresh + n

-----------------------------------------------------------------------------
(* The calls                                                               *)

Constructing == ccall = "New"
TwoParts == Constructing /\ kind \in FaultyKinds

\* A Smilo chain is given vaults that run.
Construct ==
  /\ ccall = "none" /\ (IsSmilo => vcall = "Start" /\ vresult = "nil")
  /\ ccall' = "New" /\ cresult' = "busy" /\ count' = Total
  /\ cpc' = IF kind \in FaultyKinds THEN "ips" ELSE "accounts"
  /\ NoFault /\ UNCHANGED <<input, fields, created, ips, keys, index, lib, calls, fresh>>

\* AddFullnodes and CreateNodes, which take any number.
Invoke ==
  /\ ccall \notin {"none", "Finalize"} /\ cpc = "idle" /\ cresult = "nil" /\ calls < MaxCalls
  /\ IsSmilo => vcall = "Start"
  /\ ccall' \in {"AddFullnodes", "CreateNodes"} /\ count' \in 1 .. Total + Excess
  /\ cresult' = "busy" /\ cpc' = "ips" /\ calls' = calls + 1
  /\ created' = <<>>
  /\ NoFault /\ UNCHANGED <<input, fields, ips, keys, index, lib, fresh>>

\* Finalize removes the directory of the genesis file, and keeps its name.  The
\* current directory cannot be removed.
Finalize ==
  /\ ccall \notin {"none", "Finalize"} /\ cpc = "idle" /\ (Constructing => cresult = "nil")
  /\ ccall' = "Finalize" /\ cresult' = "nil"
  /\ genesis' = [genesis EXCEPT !.file = IF @ = "file" THEN "gone" ELSE @]
  /\ NoFault
  /\ UNCHANGED <<input, accounts, opts, fullnodes, created, ips, keys, index, lib,
                 cpc, count, calls, fresh>>

\* AddFullnodes drops the error of addFullnodes.
Failure == IF ccall = "AddFullnodes" THEN "nil" ELSE "error"

\* generateAccounts returns nothing: accounts it cannot make are missing.
GenerateAccounts ==
  /\ At("accounts")
  /\ \E n \in 0 .. count :
       /\ accounts' = Some(n) /\ Take(n)
       /\ IF n = count THEN NoFault ELSE Fault
  /\ Goto(IF TwoParts THEN "keys" ELSE "ips")
  /\ UNCHANGED <<genesis, opts, fullnodes, created, ips, keys, index, lib>>

GetIPs ==
  /\ At("ips")
  /\ \/ /\ ips' = Some(count) /\ Take(count) /\ NoFault
        /\ Goto(IF ccall = "CreateNodes" THEN "create"
                ELSE IF TwoParts THEN "accounts" ELSE "keys")
     \/ Fault /\ Return(Failure) /\ UNCHANGED <<ips, fresh>>
  /\ index' = 0
  /\ UNCHANGED <<fields, created, keys, lib>>

\* GenerateKeys returns all keys or none, and no error.
GenerateKeys ==
  /\ At("keys")
  /\ \/ keys' = Some(count) /\ Take(count) /\ NoFault
     \/ keys' = <<>> /\ Fault /\ UNCHANGED fresh
  /\ Goto("genesis")
  /\ UNCHANGED <<fields, created, ips, index, lib>>

FirstKeys ==  \* mutant: the faulty nodes are left out
  IF faulty = 0 \/ keys = <<>> THEN keys ELSE SubSeq(keys, 1, normal)
GenesisKeys == keys

Alloc(addrs) == addrs \cup ToSet(accounts)

Anew == TRUE  \* mutant: each call makes a genesis
NeedsGenesis == genesis.file = NoFile

NewGenesis(file) ==
  LET addrs == ToSet(GenesisKeys) IN
  [file |-> file, number |-> genesis.number + 1, fullnodes |-> addrs,
   alloc |-> Alloc(addrs), smilo |-> IsSmilo]

\* NewFile gives NoFile when the file cannot be written, and drops the error of
\* making its directory.  Chains with faulty nodes slice the keys, next, which
\* panics if there are none.
SetupGenesis ==
  /\ At("genesis")
  /\ \/ ~ NeedsGenesis /\ UNCHANGED genesis /\ NoFault
     \/ NeedsGenesis /\ genesis' = NewGenesis("file") /\ NoFault
     \/ NeedsGenesis /\ (\E file \in {"relative", NoFile} : genesis' = NewGenesis(file)) /\ Fault
  /\ IF TwoParts /\ keys = <<>> THEN Return("panic") ELSE Goto("setup")
  /\ UNCHANGED <<accounts, opts, fullnodes, created, ips, keys, index, lib, fresh>>

-----------------------------------------------------------------------------
(* setupFullnodes and CreateNodes                                          *)

\* A chain with faulty nodes sets up the first keys with the options of normal
\* nodes, then the others with those of faulty nodes.
FirstOfPart == IF TwoParts /\ opts = "faulty" THEN normal ELSE 0
EndOfPart == IF TwoParts /\ opts = "normal" THEN normal ELSE Len(keys)

OffsetRestarts == 0  \* mutant: the faulty nodes take the first accounts
OffsetGoesOn ==  \* mutant: so that added nodes get accounts of their own
  IF Constructing THEN FirstOfPart ELSE Len(fullnodes) - index
Offset == FirstOfPart

\* Go lets bc.accounts be sliced up to its capacity beyond its length: the
\* element is the zero account then.  append doubles a capacity that is used up.
ZeroAccount == 0
Capacity(n) ==
  LET cap[k \in 0 .. n] == IF k <= 1 THEN k
                           ELSE IF k <= cap[k - 1] THEN cap[k - 1] ELSE 2 * cap[k - 1]
  IN cap[n]
Account == IF index + Offset < Len(accounts) THEN accounts[index + Offset + 1] ELSE ZeroAccount

VaultIndex == index + 1

Panics == \/ index + Offset + 1 > Capacity(Len(accounts))
          \/ IsSmilo /\ VaultIndex > Len(vaults)

HostOpts == <<Field("dataDir", fresh), Field("wsPort", fresh), Field("ip", ips[FirstOfPart + index + 1])>>
VaultOpts == <<Field("dockerEnv", VaultIndex), Field("dockerBinds", VaultIndex)>>

Configured ==
  IF ccall = "CreateNodes" THEN NewEthereum(ExternalOpts \o HostOpts \o <<Network>>, lib)
  ELSE NewEthereum(ChainOpts(kind, opts) \o HostOpts
                   \o <<Field("key", keys[FirstOfPart + index + 1]), Field("accounts", <<Account>>)>>
                   \o (IF IsSmilo THEN VaultOpts ELSE <<>>), lib)

\* A node after Init, with the genesis it has got and the directory of its
\* container that the keys were mounted to.  Without files, its password file
\* or keystore could not be written.
Node(files) == [eth |-> Configured.eth, flags |-> Configured.flags,
                role |-> IF Constructing THEN opts ELSE ccall,
                genesis |-> genesis, mount |-> Configured.utils["datadir"], files |-> files]

NextNode == index' = index + 1 /\ cpc' = cpc /\ UNCHANGED cresult

InitFails == IF genesis.file = "file" THEN Fault ELSE NoFault

\* One node: its directory, options and image, then its files and Init.
SetupFullnode ==
  /\ At("setup") /\ FirstOfPart + index < EndOfPart
  /\ \/ Fault /\ Return(Failure) /\ UNCHANGED <<fullnodes, index, lib>>
     \/ Panics /\ Return("panic") /\ NoFault /\ UNCHANGED <<fullnodes, index, lib>>
     \/ /\ ~ Panics /\ lib' = Configured.utils
        /\ \/ Return("panic") /\ Fault /\ UNCHANGED <<fullnodes, index>>  \* no image
           \/ Return(Failure) /\ InitFails /\ UNCHANGED <<fullnodes, index>>
           \/ /\ NextNode /\ genesis.file = "file"
              /\ \/ fullnodes' = Append(fullnodes, Node(Account # ZeroAccount)) /\ NoFault
                 \/ fullnodes' = Append(fullnodes, Node(FALSE)) /\ Fault
  /\ Take(1) /\ UNCHANGED <<accounts, genesis, opts, created, ips, keys>>

\* The loop is over.
PartDone ==
  /\ At("setup") /\ FirstOfPart + index = EndOfPart
  /\ IF TwoParts /\ opts = "normal"
       THEN opts' = "faulty" /\ Goto("setup")
       ELSE UNCHANGED opts /\ Return("nil")
  /\ index' = 0 /\ NoFault
  /\ UNCHANGED <<accounts, genesis, fullnodes, created, ips, keys, lib, fresh>>

\* One iteration of CreateNodes.  After an error the nodes so far are dropped.
CreateNode ==
  /\ At("create") /\ index < count
  /\ \/ /\ UNCHANGED index /\ created' = <<>>
        /\ \/ Return("error") /\ Fault /\ UNCHANGED lib
           \/ Return("panic") /\ Fault /\ lib' = Configured.utils  \* no image
           \/ Return("error") /\ InitFails /\ lib' = Configured.utils
     \/ /\ NextNode /\ genesis.file = "file" /\ NoFault
        /\ lib' = Configured.utils /\ created' = Append(created, Node(FALSE))
  /\ Take(1) /\ UNCHANGED <<fields, ips, keys>>

CreateDone ==
  /\ At("create") /\ index = count
  /\ Return("nil") /\ NoFault
  /\ UNCHANGED <<fields, created, ips, keys, index, lib, fresh>>

-----------------------------------------------------------------------------
Init == VaultInit /\ ChainInit

\* The test stops the vaults when it is through with the chain, or when they
\* did not all start; not after a constructor that failed.
Chain == \/ Construct \/ Invoke \/ Finalize \/ GenerateAccounts \/ GetIPs \/ GenerateKeys
         \/ SetupGenesis \/ SetupFullnode \/ PartDone \/ CreateNode \/ CreateDone

Vaults ==
  \/ IsSmilo /\ NewVaultNetwork(Total)
  \/ StartVaults
  \/ /\ cpc = "idle" /\ (ccall = "none" => vresult = "error") /\ (ccall = "New" => cresult = "nil")
     /\ StopVaults
  \/ FinalizeVaults \/ VaultSteps \/ WaitBoxFails \/ KeygenExits \/ VaultCrashes

Next == \/ Chain /\ UNCHANGED vaultVars
        \/ Vaults /\ UNCHANGED chainVars

Spec == Init /\ [][Next]_vars /\ VaultFairness

-----------------------------------------------------------------------------
(* Properties                                                              *)

Roles == {"normal", "faulty", "AddFullnodes", "CreateNodes"}

\* Type invariant of the chain and its vaults.
TypeOK ==
  /\ VaultTypeOK
  /\ kind \in Kinds /\ <<normal, faulty>> \in Shapes
  /\ accounts \in Seq(Nat) /\ opts \in {"normal", "faulty"}
  /\ genesis.file \in {"file", "gone", "relative", NoFile} /\ genesis.smilo \in BOOLEAN
  /\ \A n \in ToSet(fullnodes) \cup ToSet(created) :
       /\ DOMAIN n.eth = Fields /\ n.role \in Roles /\ n.files \in BOOLEAN
  /\ ips \in Seq(Nat) /\ keys \in Seq(Nat) /\ index \in Nat
  /\ DOMAIN lib = Shared
  /\ cpc \in {"idle", "accounts", "ips", "keys", "genesis", "setup", "create"}
  /\ ccall \in {"none", "New", "AddFullnodes", "CreateNodes", "Finalize"}
  /\ cresult \in {"nil", "busy", "error", "panic"}
  /\ count \in 0 .. Total + Excess /\ calls \in 0 .. MaxCalls /\ fresh \in Nat \ {0}

Constructed == ccall \notin {"none", "New"} \/ (ccall = "New" /\ cresult = "nil")
Initial == {n \in ToSet(fullnodes) : n.role \in {"normal", "faulty"}}

\* The genesis lists exactly the nodes the constructor made, the faulty ones
\* included: each of them can be a speaker, and no seat is empty.  A chain whose
\* keys could not be generated has no nodes, which is no error.  The genesis
\* gives a balance to these nodes and to the accounts of all, of added ones too.
GenesisKnowsNodes ==
  /\ Constructed /\ Initial # {} => genesis.fullnodes = {n.eth["key"] : n \in Initial}
  /\ \A n \in Initial : n.eth["key"] \in genesis.alloc
  /\ \A n \in ToSet(fullnodes) :
       ToSet(n.eth["accounts"]) \subseteq genesis.alloc \cup {ZeroAccount}

\* All nodes of a chain, and those made for others to join it, start from the
\* same genesis: AddFullnodes does not make one.
OneGenesis ==
  Constructed => \A n \in ToSet(fullnodes) \cup ToSet(created) : n.genesis.number = genesis.number

\* No two nodes share an address, a key or a directory of the host.  No two
\* nodes of a constructor share an account, for the faulty ones take theirs
\* behind those of the normal ones.  The vaults they take again from the first:
\* no two normal nodes share one and no two faulty ones, but a faulty node has
\* that of the normal node of its number.  The directory that is mounted is that
\* of the vault whose configuration is used.
OwnIdentity ==
  LET nodes == fullnodes \o created IN
  \A i, j \in DOMAIN nodes : i # j =>
    LET a == nodes[i].eth  b == nodes[j].eth IN
    /\ a["ip"] # b["ip"] /\ a["dataDir"] # b["dataDir"]
    /\ a["key"] # b["key"] \/ a["key"] = Unset
    /\ {nodes[i].role, nodes[j].role} \subseteq {"normal", "faulty"} =>
         a["accounts"] # b["accounts"] \/ a["accounts"] = <<ZeroAccount>>
    /\ IsSmilo /\ nodes[i].role \in {"normal", "faulty"} =>
         /\ a["dockerEnv"] = a["dockerBinds"]
         /\ nodes[j].role = nodes[i].role => a["dockerBinds"] # b["dockerBinds"]

\* Without a failure no call of the vaults indexes out of range, and of the
\* chain only AddFullnodes of more nodes than it began with, which have the
\* accounts and vaults of those.  Before that panics it may find accounts that
\* Go's slice has in its capacity only: a node with such an account, and no
\* other, lacks the files that --unlock needs.
PanicsAreFailures ==
  faults = 0 =>
    /\ vresult # "panic"
    /\ cresult = "panic" => ccall = "AddFullnodes" /\ count > Total
    /\ \A n \in ToSet(fullnodes) :
         n.files \/ (n.role = "AddFullnodes" /\ n.eth["accounts"] = <<ZeroAccount>>)

\* What the containers of a node mount its directory to is what its flags say,
\* for the data and for the password file: the flag library they share through
\* all calls has not been changed in between.
FlagsMatchMount ==
  \A n \in ToSet(fullnodes) \cup ToSet(created) :
    /\ Arguments(n, "datadir") = {lib["datadir"]} /\ n.mount = lib["datadir"]
    /\ \A p \in Arguments(n, "password") : p[1] = lib["datadir"]

=============================================================================

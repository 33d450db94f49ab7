----------------------------- MODULE Blockchain -----------------------------
(***************************************************************************)
(* The orchestrator of a test network (container/blockchain.go): starting, *)
(* growing, shrinking and stopping a chain of fullnodes.                   *)
(*                                                                         *)
(* One goroutine, the test, calls the operations one after the other.  An  *)
(* operation is the sequence of calls its loops make on the nodes; the     *)
(* first call that fails ends it with an error, except in Stop(true).      *)
(* Meanwhile the nodes live their own life: the validators count votes and *)
(* change the validator set, and containers die.                           *)
(*                                                                         *)
(* Nodes are numbered in the order in which they are created.  Left out:   *)
(* keys, accounts, genesis content, data directories and image names.      *)
(***************************************************************************)
EXTENDS Integers, Sequences, FiniteSets

CONSTANTS
  InitialNodes, \* argument numOfFullnodes of NewBlockchain
  AddSizes,     \* arguments of AddFullnodes
  RemoveSizes,  \* sizes of the argument of RemoveFullnodes
  MinNodes,     \* bound: fullnodes RemoveFullnodes is asked to leave
  MaxNodes,     \* bound: nodes ever created
  MaxOps,       \* bound: operations called
  MaxFaults     \* bound: Docker or RPC failures and crashes

ASSUME SizesAssumption ==
  /\ InitialNodes \in Nat \ {0} /\ MaxNodes \in Nat /\ MinNodes \in Nat /\ InitialNodes <= MaxNodes
  /\ AddSizes \subseteq Nat /\ RemoveSizes \subseteq Nat
  /\ MaxOps \in Nat /\ MaxFaults \in Nat

Nodes == 1 .. MaxNodes

VARIABLES
  fullnodes,    \* bc.fullnodes
  newFullnodes, \* RemoveFullnodes: the nodes found to stay so far
  created,      \* how many nodes exist
  container,    \* each node's container
  address,      \* nodes whose NodeAddress() is known
  peers,        \* pairs <<v, w>>: v was told to connect to w
  proposal,     \* ProposeFullnode calls: voter -> candidate -> "none", "in", "out"
  validators,   \* the validator set in the chain's last block
  op,           \* the operation called last
  todo,         \* the calls it has still to make
  result,       \* "busy" while it runs, then "nil", "error" or "panic"
  ops, faults

harness == <<fullnodes, newFullnodes, created, op, ops>>
nodeVars == <<container, address, peers, proposal>>
vars == <<harness, nodeVars, validators, todo, result, faults>>

-----------------------------------------------------------------------------
(* The chain the nodes run                                                 *)

Running == {n \in Nodes : container[n] = "running"}

Linked(v, w) == <<v, w>> \in peers \/ <<w, v>> \in peers

\* A set of nodes that no cut separates.
Together(D) ==
  \A S \in (SUBSET D) \ {{}, D} : \E v \in S, w \in D \ S : Linked(v, w)

\* 2F+1 of the validators, with F the faults they tolerate.
Quorum == 2 * ((Cardinality(validators) - 1) \div 3) + 1

\* Enough validators run and reach each other.
Alive == {D \in SUBSET Running :
            Cardinality(D \cap validators) >= Quorum /\ Together(D)} # {}

Votes(c, way) == {v \in validators \cap Running : proposal[v][c] = way}

Majority(c, way) == 2 * Cardinality(Votes(c, way)) > Cardinality(validators)

Admissible(c) == c \notin validators /\ Majority(c, "in")
Expellable(c) == c \in validators /\ Majority(c, "out")

Settled == \A c \in Nodes : ~ Admissible(c) /\ ~ Expellable(c)

\* Blocks with enough votes for or against c change the validator set.
Tally(c) ==
  /\ \/ Admissible(c) /\ validators' = validators \cup {c}
     \/ Expellable(c) /\ validators' = validators \ {c}
  /\ Alive
  /\ UNCHANGED <<harness, nodeVars, todo, result, faults>>

Fault == faults < MaxFaults /\ faults' = faults + 1

\* The process in a container dies by itself.
Crash(n) ==
  /\ container[n] = "running" /\ Fault
  /\ container' = [container EXCEPT ![n] = "exited"]
  /\ UNCHANGED <<harness, address, peers, proposal, validators, todo, result>>

-----------------------------------------------------------------------------
(* The calls an operation consists of                                      *)

StartCalls(ns) == [i \in DOMAIN ns |-> [do |-> "start", node |-> ns[i]]]

\* Two nested loops, over s and over t: the i-th pair of elements.
Pairs(s, t) == 1 .. Len(s) * Len(t)
First(i, s, t) == s[((i - 1) \div Len(t)) + 1]
Second(i, t) == t[((i - 1) % Len(t)) + 1]

ProposeCallsForFirst(vs, cs) ==  \* mutant: only the first candidate
  [i \in Pairs(vs, cs) |->
    [do |-> "propose", node |-> First(i, vs, cs), candidate |-> cs[1], way |-> "in"]]
ProposeCalls(vs, cs) ==
  [i \in Pairs(vs, cs) |->
    [do |-> "propose", node |-> First(i, vs, cs), candidate |-> Second(i, cs), way |-> "in"]]

\* The loops of RemoveFullnodes: each node proposes every candidate, and then
\* it is kept or not.
EndOfRow == 0
RemovalCallsByOthers(vs, cs) ==  \* mutant: candidates do not vote
  LET row == Append(cs, EndOfRow)
      voters == SelectSeq(vs, LAMBDA v : \A i \in DOMAIN cs : cs[i] # v)
  IN [i \in Pairs(voters, row) |->
       IF Second(i, row) = EndOfRow
         THEN [do |-> "keep", node |-> First(i, voters, row)]
         ELSE [do |-> "propose", node |-> First(i, voters, row),
               candidate |-> Second(i, row), way |-> "out"]]
RemovalCalls(vs, cs) ==
  LET row == Append(cs, EndOfRow)
  IN [i \in Pairs(vs, row) |->
       IF Second(i, row) = EndOfRow
         THEN [do |-> "keep", node |-> First(i, vs, row)]
         ELSE [do |-> "propose", node |-> First(i, vs, row),
               candidate |-> Second(i, row), way |-> "out"]]

\* connectAll: everybody to everybody, or everybody to the next one.
ConnectCallsWeak(ns, strong) ==  \* mutant: always everybody to the next one
  [i \in DOMAIN ns |->
    [do |-> "connect", node |-> ns[i], peer |-> ns[(i % Len(ns)) + 1], self |-> TRUE]]
ConnectCalls(ns, strong) ==
  IF strong
    THEN [i \in Pairs(ns, ns) |->
           [do |-> "connect", node |-> First(i, ns, ns), peer |-> Second(i, ns), self |-> FALSE]]
    ELSE [i \in DOMAIN ns |->
           [do |-> "connect", node |-> ns[i], peer |-> ns[(i % Len(ns)) + 1], self |-> TRUE]]

StopCallsButLast(ns, force) ==  \* mutant: the last one is forgotten
  [i \in 1 .. Len(ns) - 1 |-> [do |-> "stop", node |-> ns[i], force |-> force]]
StopCallsUnforced(ns, force) ==  \* mutant: force is not passed on
  [i \in DOMAIN ns |-> [do |-> "stop", node |-> ns[i], force |-> FALSE]]
StopCalls(ns, force) ==
  [i \in DOMAIN ns |-> [do |-> "stop", node |-> ns[i], force |-> force]]

\* ContainerID(): the empty string, here 0, until Start has got an ID.
ContainerID(n) == IF container[n] = "none" THEN 0 ELSE n

NewIDsSkippingOne(k) == [i \in 1 .. k |-> created + i + 1]  \* mutant: off by one
NewIDs(k) == [i \in 1 .. k |-> created + i]

-----------------------------------------------------------------------------
(* The operations                                                          *)

Init ==
  /\ fullnodes = [i \in 1 .. InitialNodes |-> i] /\ newFullnodes = <<>>
  /\ created = InitialNodes
  /\ container = [n \in Nodes |-> "none"]
  /\ address = {} /\ peers = {}
  /\ proposal = [v \in Nodes |-> [c \in Nodes |-> "none"]]
  /\ validators = 1 .. InitialNodes
  /\ op = [name |-> "NewBlockchain"]
  /\ todo = <<>> /\ result = "nil" /\ ops = 0 /\ faults = 0

Members == {fullnodes[i] : i \in DOMAIN fullnodes}

\* The tests go on after a success, once they have checked that the chain has
\* as many validators as it has fullnodes: they compare the numbers.  After an
\* error or a panic, which Ginkgo recovers, AfterEach stops the chain, and
\* nothing follows that.
Usable ==
  /\ result = "nil" /\ op.name \notin {"NewBlockchain", "Stop"}
  /\ Cardinality(validators) = Cardinality(Members)

Call(o, calls) ==
  /\ result # "busy" /\ ops < MaxOps
  /\ ops' = ops + 1
  /\ op' = o /\ todo' = calls /\ result' = "busy"
  /\ UNCHANGED <<nodeVars, validators>>

Start(strong) ==
  /\ op.name = "NewBlockchain"
  /\ Call([name |-> "Start", strong |-> strong],
          StartCalls(fullnodes) \o ConnectCalls(fullnodes, strong))
  /\ UNCHANGED <<fullnodes, newFullnodes, created, faults>>

\* AddFullnodes.  The error of addFullnodes is dropped: when addresses run out
\* or a node cannot be set up, it goes on with the nodes made so far.
AddFullnodes(k) ==
  /\ Usable /\ created + k <= MaxNodes
  /\ \E made \in 0 .. k :
       LET new == NewIDs(made) all == fullnodes \o new IN
       /\ IF made = k THEN UNCHANGED faults ELSE Fault
       /\ fullnodes' = all
       /\ created' = created + made
       /\ Call([name |-> "AddFullnodes", requested |-> k, new |-> new],
               StartCalls(new) \o ProposeCalls(fullnodes, new) \o ConnectCalls(all, TRUE))
  /\ UNCHANGED newFullnodes

RemoveFullnodes(candidates) ==
  /\ Usable
  /\ newFullnodes' = <<>>
  /\ Call([name |-> "RemoveFullnodes", candidates |-> candidates],
          RemovalCalls(fullnodes, candidates)
            \o <<[do |-> "wait"], [do |-> "assign"]>> \o StopCalls(candidates, FALSE))
  /\ UNCHANGED <<fullnodes, created, faults>>

Stop(force) ==
  /\ op.name \notin {"NewBlockchain", "Stop"}
  /\ Call([name |-> "Stop", force |-> force], StopCalls(fullnodes, force))
  /\ UNCHANGED <<fullnodes, newFullnodes, created, faults>>

-----------------------------------------------------------------------------
(* The steps of the operation under way                                    *)

Next1 == Head(todo)

Doing(call) == result = "busy" /\ todo # <<>> /\ Next1.do = call

Continue == todo' = Tail(todo) /\ UNCHANGED result

Abort(with) == todo' = <<>> /\ result' = with

\* Ethereum.Start: the node is up and its address known, or it is not.
StartNode ==
  /\ Doing("start")
  /\ \/ /\ container' = [container EXCEPT ![Next1.node] = "running"]
        /\ address' = address \cup {Next1.node}
        /\ Continue /\ UNCHANGED faults
     \/ /\ \E left \in {"none", "exited", "running"} :
             container' = [container EXCEPT ![Next1.node] = left]
        /\ Abort("error") /\ Fault /\ UNCHANGED address
  /\ UNCHANGED <<harness, peers, proposal, validators>>

\* NewClient and ProposeFullnode.  A node that does not answer has no client,
\* and calling it panics.
Propose ==
  /\ Doing("propose")
  /\ \/ /\ Next1.node \in Running
        /\ proposal' = [proposal EXCEPT ![Next1.node][Next1.candidate] = Next1.way]
        /\ Continue /\ UNCHANGED faults
     \/ /\ Next1.node \in Running /\ Fault
        /\ Abort("error") /\ UNCHANGED proposal
     \/ /\ Next1.node \notin Running
        /\ Abort("panic") /\ UNCHANGED <<proposal, faults>>
  /\ UNCHANGED <<harness, container, address, peers, validators>>

\* The nodes that stay are told from the candidates by their container IDs.
Stays(v) == \A i \in DOMAIN op.candidates : ContainerID(v) # ContainerID(op.candidates[i])

Keep ==
  /\ Doing("keep")
  /\ newFullnodes' = IF Stays(Next1.node) THEN Append(newFullnodes, Next1.node) ELSE newFullnodes
  /\ Continue
  /\ UNCHANGED <<fullnodes, created, op, ops, nodeVars, validators, faults>>

\* AddPeer: an error when the node does not answer or the peer has no address.
Connect ==
  /\ Doing("connect")
  /\ LET v == Next1.node w == Next1.peer
         skip == ~ Next1.self /\ ContainerID(v) = ContainerID(w)
         possible == v \in Running /\ w \in address IN
     \/ skip /\ Continue /\ UNCHANGED <<peers, faults>>
     \/ ~ skip /\ possible /\ peers' = peers \cup {<<v, w>>} /\ Continue /\ UNCHANGED faults
     \/ ~ skip /\ possible /\ Abort("error") /\ Fault /\ UNCHANGED peers
     \/ ~ skip /\ ~ possible /\ Abort("error") /\ UNCHANGED <<peers, faults>>
  /\ UNCHANGED <<harness, container, address, proposal, validators>>

\* RemoveFullnodes waits for a fixed time and asks nobody: the time is over
\* before, while or after the votes are counted.
Wait ==
  /\ Doing("wait") /\ Continue
  /\ UNCHANGED <<harness, nodeVars, validators, faults>>

Assign ==
  /\ Doing("assign")
  /\ fullnodes' = newFullnodes
  /\ Continue
  /\ UNCHANGED <<newFullnodes, created, op, ops, nodeVars, validators, faults>>

\* Ethereum.Stop: the container is removed, unless there is none or the daemon
\* fails.  Peers of the node stay with the others.
StopNode ==
  /\ Doing("stop")
  /\ LET n == Next1.node
         failed == IF Next1.force THEN Continue ELSE Abort("error") IN
     \/ /\ container[n] \in {"running", "exited"}
        /\ container' = [container EXCEPT ![n] = "removed"]
        /\ peers' = {p \in peers : p[1] # n}
        /\ Continue /\ UNCHANGED faults
     \/ /\ container[n] \in {"running", "exited"} /\ Fault
        /\ \E left \in {container[n], "exited"} : container' = [container EXCEPT ![n] = left]
        /\ failed /\ UNCHANGED peers
     \/ /\ container[n] \in {"none", "removed"}
        /\ failed /\ UNCHANGED <<container, peers, faults>>
  /\ UNCHANGED <<harness, address, proposal, validators>>

Return ==
  /\ result = "busy" /\ todo = <<>>
  /\ result' = "nil"
  /\ UNCHANGED <<harness, nodeVars, validators, todo, faults>>

Step == StartNode \/ Propose \/ Keep \/ Connect \/ Wait \/ Assign \/ StopNode \/ Return

-----------------------------------------------------------------------------
\* The tests remove nodes of the chain, given as a slice of Fullnodes().
Candidates ==
  UNION {{SubSeq(fullnodes, i, i + k - 1) : i \in 1 .. Len(fullnodes) - k + 1} :
           k \in {k \in RemoveSizes : Len(fullnodes) - k >= MinNodes}}

Next ==
  \/ \E strong \in BOOLEAN : Start(strong)
  \/ \E k \in AddSizes : AddFullnodes(k)
  \/ \E cs \in Candidates : RemoveFullnodes(cs)
  \/ \E force \in BOOLEAN : Stop(force)
  \/ Step
  \/ \E n \in Nodes : Tally(n) \/ Crash(n)

\* A chain that is alive counts votes.  Nothing is assumed of the wait.
Fairness == \A n \in Nodes : WF_vars(Tally(n))

Spec == Init /\ [][Next]_vars /\ Fairness

-----------------------------------------------------------------------------
(* Properties                                                              *)

\* Type invariant of the orchestrator, the nodes and the chain.
TypeOK ==
  /\ fullnodes \in Seq(Nodes) /\ newFullnodes \in Seq(Nodes) /\ created \in 0 .. MaxNodes
  /\ container \in [Nodes -> {"none", "running", "exited", "removed"}]
  /\ address \subseteq Nodes /\ peers \subseteq Nodes \X Nodes
  /\ proposal \in [Nodes -> [Nodes -> {"none", "in", "out"}]]
  /\ validators \subseteq Nodes
  /\ op.name \in {"NewBlockchain", "Start", "AddFullnodes", "RemoveFullnodes", "Stop"}
  /\ \A i \in DOMAIN todo :
       todo[i].do \in {"start", "propose", "keep", "connect", "wait", "assign", "stop"}
  /\ result \in {"busy", "nil", "error", "panic"}
  /\ ops \in 0 .. MaxOps /\ faults \in 0 .. MaxFaults

Succeeded(names) == result = "nil" /\ op.name \in names

\* After a strong Start or an AddFullnodes that succeeded, every fullnode has
\* been told to connect to every other, the old ones to the new ones too.
MeshAfterSuccess ==
  Succeeded({"Start", "AddFullnodes"}) /\ (op.name = "Start" => op.strong) =>
    \A v, w \in Members : v # w => <<v, w>> \in peers

\* As long as nothing fails, an operation that succeeded leaves a chain that
\* can produce blocks.
SuccessIsAlive ==
  Succeeded({"Start", "AddFullnodes", "RemoveFullnodes"}) /\ faults = 0 => Alive

\* When the wait is over, so many validators have been voted out that those
\* that stay are a quorum.  They always are when few nodes are removed.
WaitWasEnough ==
  Doing("assign") =>
    Cardinality({v \in validators : \A i \in DOMAIN op.candidates : v # op.candidates[i]})
      >= Quorum

\* Growing and shrinking the set of fullnodes never takes a quorum away, in any
\* order of the operations, the votes and the counts, if every wait was enough
\* and the chain was started with everybody connected to everybody.  (In a
\* ring, which RemoveFullnodes does not close again, removals cut off nodes.)
SuccessKeepsConsensus ==
  []((op.name = "Start" => op.strong) /\ WaitWasEnough) => []SuccessIsAlive

\* A removal that succeeds leaves a chain that can produce blocks: the nodes
\* that stay are connected, and the test goes on with them.
RemovalKeepsConsensus ==
  /\ Succeeded({"RemoveFullnodes"}) /\ faults = 0
  /\ \A v, w \in Members : v # w => Linked(v, w)
  => Alive

\* Once the votes are counted, the chain's validators are the harness's
\* fullnodes: everybody added was voted in, everybody removed was voted out,
\* before or after it was stopped.  There are two limits: nodes that are
\* stopped before they are voted out must leave a majority that runs, and of
\* the nodes added only as many get in as there were before, for the new ones
\* do not vote.
SettledMembership ==
  /\ Succeeded({"Start", "AddFullnodes", "RemoveFullnodes"}) /\ faults = 0
  /\ Settled
  /\ 2 * Cardinality(validators \cap Running) > Cardinality(validators)
  => \/ validators = Members
     \/ /\ op.name = "AddFullnodes" /\ validators \subseteq Members
        /\ LET before == Members \ {op.new[i] : i \in DOMAIN op.new}
           IN  Cardinality(validators) = 2 * Cardinality(before)

\* As long as operations succeed, every container belongs to a fullnode the
\* blockchain knows and will stop.
NoStrayContainer ==
  Succeeded({"Start", "AddFullnodes", "RemoveFullnodes"}) =>
    \A n \in Nodes \ Members : container[n] \in {"none", "removed"}

\* Stop(true) goes through all fullnodes: each container it leaves behind is
\* the result of one failure of the daemon.
ForcedStopReachesAll ==
  op.name = "Stop" /\ op.force /\ todo = <<>> =>
    Cardinality({n \in Members : container[n] \in {"running", "exited"}}) <= faults

\* The votes RemoveFullnodes asks for are enough: however many nodes are
\* removed, a wait that does not end sees all of them voted out.
VotesSuffice ==
  [](op.name = "Start" => op.strong) =>
    (Doing("wait") /\ faults = 0 ~>
       \/ ~ Doing("wait") \/ faults > 0
       \/ \A i \in DOMAIN op.candidates : op.candidates[i] \notin validators)

\* AddFullnodes without an error returns as many nodes as were asked for.
AddsAllRequested ==
  Succeeded({"AddFullnodes"}) => Len(op.new) = op.requested
=============================================================================

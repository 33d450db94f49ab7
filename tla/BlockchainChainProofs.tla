----------------------- MODULE BlockchainChainProofs ------------------------
(***************************************************************************)
(* Theorems about the chain a Blockchain runs, for any number of nodes and *)
(* operations, as long as nothing fails.  An operation that succeeds       *)
(* leaves a chain that can produce blocks, if every wait of                *)
(* RemoveFullnodes was enough and the chain was not started as a ring.     *)
(* Once the votes are counted the validators are the fullnodes, however    *)
(* long RemoveFullnodes has waited, within the limits that the property    *)
(* states.                                                                 *)
(***************************************************************************)
EXTENDS BlockchainProofs

-----------------------------------------------------------------------------
(* Votes and quorums                                                       *)

\* Sets of nodes can be counted.
LEMMA NodesFinite ==
  ASSUME NEW S \in SUBSET Nodes
  PROVE  IsFiniteSet(S) /\ Cardinality(S) \in Nat
<1>1. IsFiniteSet(Nodes)
  BY SizesAssumption, FS_Interval DEF Nodes
<1> QED BY <1>1, FS_Subset, FS_CardinalityType

\* A majority is not empty.
LEMMA SomeVote ==
  ASSUME Typed, NEW c, NEW way, Majority(c, way)
  PROVE  \E v \in validators \cap Running : proposal[v][c] = way
<1>1. Votes(c, way) \in SUBSET Nodes /\ validators \in SUBSET Nodes
  BY DEF Votes, Typed
<1>2. Cardinality(Votes(c, way)) \in Nat /\ Cardinality(validators) \in Nat
  BY <1>1, NodesFinite
<1>3. Cardinality(Votes(c, way)) # 0
  BY <1>2 DEF Majority
<1>4. Votes(c, way) # {}
  BY <1>3, FS_EmptySet
<1> QED BY <1>4 DEF Votes

\* 2F+1 of c validators are not more than all of them.
LEMMA QuorumOfAll ==
  ASSUME NEW c \in Nat
  PROVE  2 * ((c - 1) \div 3) + 1 <= c
OBVIOUS

\* One validator less needs no larger quorum.
LEMMA QuorumShrinks ==
  ASSUME NEW c \in Nat
  PROVE  2 * ((c - 1 - 1) \div 3) + 1 <= 2 * ((c - 1) \div 3) + 1
OBVIOUS

-----------------------------------------------------------------------------
(* A chain to which nothing has happened                                   *)

\* As long as nothing has failed, the fullnodes run, and only they are
\* validators, besides the nodes whose removal is under way or was the last.  All
\* of these have voted against the leaving nodes, or are about to, and nobody is
\* for a node that is no fullnode.
Healthy ==
  /\ op.name # "NewBlockchain" =>
       \A n \in Members : container[n] = "running" \/ StartCall(n) \in Due
  /\ validators \subseteq Members \cup Leaving
  /\ \A v \in Members \cup Leaving, c \in Leaving :
       proposal[v][c] = "out" \/ ProposeCall(v, c, "out") \in Due
  /\ \A v \in Members \cup Leaving, c \in Nodes \ Members : proposal[v][c] # "in"

\* The fullnodes that neither come nor go are validators, nobody is against a
\* fullnode that stays, and the old nodes are for the new ones, or are about to
\* be.  As these do not vote for each other, only so many get in as there are
\* old ones.
Voting ==
  /\ Members \ (Leaving \cup Joining) \subseteq validators
  /\ \A v \in Members \cup Leaving, c \in Members \ Leaving : proposal[v][c] # "out"
  /\ \A v \in Members \ Joining, c \in Joining :
       proposal[v][c] = "in" \/ ProposeCall(v, c, "in") \in Due
  /\ \A v, c \in Joining : proposal[v][c] # "in" /\ ProposeCall(v, c, "in") \notin Due
  /\ op.name = "AddFullnodes" => Cardinality(validators) <= 2 * Cardinality(Members \ Joining)

\* Without failures the number of failures stays 0.
LEMMA StillFaultless ==
  ASSUME Typed, [Next]_vars, Typed', faults' = 0
  PROVE  faults = 0
<1>1. faults \in Nat
  BY SizesAssumption DEF Typed
<1>2. faults' = faults \/ faults' = faults + 1
  <2>1. CASE Step \/ Silent
    BY <2>1 DEF Step, StartNode, Propose, Keep, Connect, Wait, Assign, StopNode, Return, Silent,
       Tally, Crash, Fault, vars
  <2>2. ASSUME NEW strong \in BOOLEAN, Start(strong) PROVE faults' = faults
    BY <2>2 DEF Start
  <2>3. ASSUME NEW k \in AddSizes, AddFullnodes(k)
        PROVE  faults' = faults \/ faults' = faults + 1
    BY <2>3 DEF AddFullnodes, Fault
  <2>4. ASSUME NEW cs \in Candidates, RemoveFullnodes(cs) PROVE faults' = faults
    BY <2>4 DEF RemoveFullnodes
  <2>5. ASSUME NEW force \in BOOLEAN, Stop(force) PROVE faults' = faults
    BY <2>5 DEF Stop
  <2> QED BY <2>1, <2>2, <2>3, <2>4, <2>5 DEF Next, Silent
<1> QED BY <1>1, <1>2

\* Between two operations only fullnodes are validators, and those that have
\* just been removed; all fullnodes run.
LEMMA AtRest ==
  ASSUME Typed, Ordered, Healthy, Homes, result = "nil"
  PROVE  /\ Due = {} /\ Leaving \cap Members = {}
         /\ op.name # "RemoveFullnodes" => Leaving = {}
         /\ op.name # "NewBlockchain" => \A n \in Members : container[n] = "running"
         /\ \A v \in Members, c \in Nodes \ Members : proposal[v][c] # "in"
<1>1. Due = {}
  BY EmptyValues DEF Ordered, Due
<1>2. CASE op.name = "RemoveFullnodes"
  BY <1>1, <1>2 DEF Healthy, Homes
<1>3. CASE op.name # "RemoveFullnodes"
  BY <1>1, <1>3 DEF Healthy, Leaving
<1> QED BY <1>2, <1>3, <1>1

\* When the test has found as many validators as fullnodes, they are the same:
\* none is missing after a removal, none is too many after anything else.
LEMMA UsableRest ==
  ASSUME Typed, Ordered, Healthy, Voting, Homes, Usable
  PROVE  validators = Members
<1>1. /\ result = "nil" /\ op.name \notin {"NewBlockchain", "Stop"}
      /\ Cardinality(validators) = Cardinality(Members)
  BY DEF Usable
<1>2. Leaving \cap Members = {} /\ (op.name # "RemoveFullnodes" => Leaving = {})
  BY <1>1, AtRest
<1>3. IsFiniteSet(validators) /\ IsFiniteSet(Members)
  <2>1. validators \in SUBSET Nodes /\ Members \in SUBSET Nodes
    BY MembersAre, ValuesType DEF Typed
  <2> QED BY <2>1, NodesFinite
<1>4. CASE op.name = "RemoveFullnodes"
  <2>1. Members \in SUBSET validators
    BY <1>2, <1>4 DEF Voting, Joining
  <2> QED BY <1>1, <1>3, <2>1, FS_Subset
<1>5. CASE op.name # "RemoveFullnodes"
  <2>1. validators \in SUBSET Members
    BY <1>2, <1>5 DEF Healthy
  <2> QED BY <1>1, <1>3, <2>1, FS_Subset
<1> QED BY <1>4, <1>5

\* What has been made is due no more; the rest is.
LEMMA Others ==
  ASSUME NEW c, Made(c)
  PROVE  /\ Due' \subseteq Due /\ \A d \in Due : d = c \/ d \in Due'
         /\ \A d \in Due : Rank(c) <= Rank(d)
BY DEF Made

\* RemoveFullnodes votes only against leaving nodes, AddFullnodes only for new ones.
LEMMA HealthyPropose ==
  ASSUME Typed, Ordered, Created, Healthy, Propose, Fine'
  PROVE  Healthy'
<1>1. op' = op /\ Leaving' = Leaving /\ Joining' = Joining
  BY FineBefore DEF Step
<1>2. PICK v, c \in Nodes, way \in {"in", "out"} :
        /\ Made(ProposeCall(v, c, way))
        /\ proposal' = [proposal EXCEPT ![v][c] = way]
        /\ UNCHANGED <<fullnodes, container, validators>>
  BY FinePropose
<1> DEFINE call == ProposeCall(v, c, way)
<1>3. /\ call.do = "propose" /\ call.candidate = c /\ call.way = way
      /\ \A n : call # StartCall(n)
      /\ \A x, y, w : ProposeCall(x, y, w) = call => x = v /\ y = c /\ w = way
  BY CallFields
<1>4. call \in Due /\ Fits(call) /\ Due' \subseteq Due /\ \A d \in Due : d = call \/ d \in Due'
  BY <1>2 DEF Made
<1>5. \A x, y \in Nodes : proposal'[x][y] = IF x = v /\ y = c THEN way ELSE proposal[x][y]
  <2>1. proposal \in [Nodes -> [Nodes -> {"none", "in", "out"}]] /\ way \in {"none", "in", "out"}
    BY DEF Typed
  <2> QED BY <1>2, <2>1, TableUpdate
<1>6. Members' = Members /\ Members \subseteq Nodes /\ Leaving \subseteq Nodes
  <2>1. Members \cup Leaving \subseteq 1 .. created /\ created \in 0 .. MaxNodes
    BY DEF Created, Typed
  <2>2. 1 .. created \subseteq Nodes
    BY <2>1, SizesAssumption DEF Nodes
  <2> QED BY <1>2, <2>1, <2>2 DEF Members
<1>7. \/ op.name = "AddFullnodes" /\ way = "in" /\ c \in Joining
      \/ op.name = "RemoveFullnodes" /\ way = "out" /\ c \in Leaving
  BY <1>3, <1>4 DEF Fits
<1>8. way = "in" => c \in Members /\ Leaving = {}
  BY <1>7 DEF Created, Leaving
<1> HIDE DEF call
<1>9. /\ op'.name # "NewBlockchain" =>
           \A n \in Members' : container'[n] = "running" \/ StartCall(n) \in Due'
      /\ validators' \subseteq Members' \cup Leaving'
  BY <1>1, <1>2, <1>3, <1>4, <1>6 DEF Healthy
<1>11. ASSUME NEW x \in Members' \cup Leaving', NEW y \in Leaving'
       PROVE  proposal'[x][y] = "out" \/ ProposeCall(x, y, "out") \in Due'
  <2>1. x \in Members \cup Leaving /\ y \in Leaving /\ x \in Nodes /\ y \in Nodes /\ way = "out"
    BY <1>1, <1>6, <1>8, <1>11
  <2>2. proposal[x][y] = "out" \/ ProposeCall(x, y, "out") \in Due
    BY <2>1 DEF Healthy
  <2>3. CASE x = v /\ y = c
    BY <1>5, <2>1, <2>3
  <2>4. CASE ~ (x = v /\ y = c)
    <3>1. proposal'[x][y] = proposal[x][y] /\ ProposeCall(x, y, "out") # call
      BY <1>3, <1>5, <2>1, <2>4
    <3> QED BY <1>4, <2>2, <3>1
  <2> QED BY <2>3, <2>4
<1>12. ASSUME NEW x \in Members' \cup Leaving', NEW y \in Nodes \ Members'
       PROVE  proposal'[x][y] # "in"
  <2>1. x \in Members \cup Leaving /\ y \in Nodes \ Members /\ x \in Nodes
    BY <1>1, <1>6, <1>12
  <2>2. proposal[x][y] # "in"
    BY <2>1 DEF Healthy
  <2> QED BY <1>5, <1>8, <2>1, <2>2
<1> QED BY <1>9, <1>11, <1>12 DEF Healthy

\* Votes let in only fullnodes.
LEMMA AdmittedIsMember ==
  ASSUME Typed, Healthy, NEW n \in Nodes, Admissible(n)
  PROVE  n \in Members /\ n \notin validators
<1>1. PICK v \in validators : proposal[v][n] = "in"
  BY SomeVote DEF Admissible
<1>2. v \in Members \cup Leaving
  BY DEF Healthy
<1> QED BY <1>1, <1>2 DEF Healthy, Admissible

\* Blocks with votes: whom they let in is a fullnode.
LEMMA HealthyTally ==
  ASSUME Typed, Created, Healthy, NEW n \in Nodes, Tally(n)
  PROVE  Healthy'
<1>1. /\ Due' = Due /\ Members' = Members /\ Leaving' = Leaving
      /\ UNCHANGED <<op, container, proposal>>
  BY DEF Tally, harness, nodeVars, Due, Members, Leaving
<1>2. \/ Admissible(n) /\ validators' = validators \cup {n}
      \/ validators' \subseteq validators
  BY DEF Tally
<1>3. Admissible(n) => n \in Members
  BY AdmittedIsMember
<1> QED BY <1>1, <1>2, <1>3 DEF Healthy

\* No call of an operation, and no count of votes, ends the health of a chain.
LEMMA HealthyStep ==
  ASSUME Typed, Ordered, Created, Homes, Healthy, Step \/ Silent, Fine', faults' = faults
  PROVE  Healthy'
<1>1. op' = op /\ Leaving' = Leaving
  BY FineBefore
<1>2. Members \subseteq Nodes /\ Leaving \subseteq Nodes
  <2>1. Members \cup Leaving \subseteq 1 .. created /\ created \in 0 .. MaxNodes
    BY DEF Created, Typed
  <2> QED BY <2>1, SizesAssumption DEF Nodes
<1>3. CASE StartNode
  <2>1. PICK n \in Nodes : /\ Made(StartCall(n))
                           /\ container' = [container EXCEPT ![n] = "running"]
                           /\ UNCHANGED <<fullnodes, proposal, validators>>
    BY <1>3, FineStart
  <2>2. Due' \subseteq Due /\ \A d \in Due : d = StartCall(n) \/ d \in Due'
    BY <2>1, Others
  <2>3. Members' = Members /\ \A m \in Nodes : m = n \/ container'[m] = container[m]
    BY <2>1 DEF Members, Typed
  <2>4. container'[n] = "running"
    BY <2>1 DEF Typed
  <2> QED BY <1>1, <1>2, <2>1, <2>2, <2>3, <2>4, CallFields DEF Healthy
<1>4. CASE Propose
  BY <1>4, HealthyPropose
<1>5. CASE Keep
  <2>1. PICK n \in Nodes : /\ Made(KeepCall(n))
                           /\ UNCHANGED <<fullnodes, container, proposal, validators>>
    BY <1>5, FineKeep
  <2>2. Due' \subseteq Due /\ \A d \in Due : d = KeepCall(n) \/ d \in Due'
    BY <2>1, Others
  <2>3. Members' = Members
    BY <2>1 DEF Members
  <2> QED BY <1>1, <2>1, <2>2, <2>3, CallFields DEF Healthy
<1>6. CASE Connect
  <2>1. PICK v, w \in Nodes : /\ Made(MeshCall(v, w)) \/ Made(RingCall(v, w))
                              /\ UNCHANGED <<fullnodes, container, proposal, validators>>
    BY <1>6, FineConnect
  <2>2. /\ Due' \subseteq Due
        /\ \A d \in Due : d \in {MeshCall(v, w), RingCall(v, w)} \/ d \in Due'
    BY <2>1, Others
  <2>3. Members' = Members
    BY <2>1 DEF Members
  <2> QED BY <1>1, <2>1, <2>2, <2>3, CallFields DEF Healthy
<1>7. CASE Wait
  <2>1. Made(WaitCall) /\ UNCHANGED <<fullnodes, container, proposal, validators>>
    BY <1>7, FineWait
  <2>2. Due' \subseteq Due /\ \A d \in Due : d = WaitCall \/ d \in Due'
    BY <2>1, Others
  <2>3. Members' = Members
    BY <2>1 DEF Members
  <2> QED BY <1>1, <2>1, <2>2, <2>3, CallFields DEF Healthy
<1>8. CASE Assign
  <2>1. /\ Made(AssignCall) /\ Members' = Kept /\ op.name = "RemoveFullnodes"
        /\ UNCHANGED <<container, proposal, validators>>
    BY <1>8, FineAssign
  <2>2. /\ AssignCall \in Due /\ Due' \subseteq Due /\ \A d \in Due : d = AssignCall \/ d \in Due'
        /\ \A d \in Due : Rank(AssignCall) <= Rank(d)
    BY <2>1, Others DEF Made
  <2>3. /\ \A n \in Nodes : KeepCall(n) \notin Due
        /\ \A v, c \in Nodes : ProposeCall(v, c, "out") \notin Due
    BY <2>2, CallTypes
  <2>4. Members' = Members \ Leaving
    BY <1>2, <2>1, <2>2, <2>3 DEF Homes
  <2>5. \A v \in Members \cup Leaving, c \in Leaving : proposal[v][c] = "out"
    BY <1>2, <2>3 DEF Healthy
  <2>6. \A v \in Members' \cup Leaving, c \in Nodes \ Members' : proposal[v][c] # "in"
    <3>1. \A c \in Nodes \ Members' : c \in Leaving \/ c \in Nodes \ Members
      BY <2>4
    <3>2. \A v \in Members' \cup Leaving : v \in Members \cup Leaving
      BY <2>4
    <3> QED BY <2>5, <3>1, <3>2 DEF Healthy
  <2>7. \A n \in Members' : container'[n] = "running" \/ StartCall(n) \in Due'
    BY <2>1, <2>2, <2>4, CallFields DEF Healthy
  <2>8. validators' \subseteq Members' \cup Leaving
    BY <2>1, <2>3, <2>4 DEF Healthy
  <2> QED BY <1>1, <2>1, <2>2, <2>3, <2>4, <2>5, <2>6, <2>7, <2>8 DEF Healthy
<1>9. CASE StopNode
  <2>1. PICK n \in Nodes : /\ Made(StopCall(n)) /\ op.name = "RemoveFullnodes" /\ n \in Leaving
                           /\ container' = [container EXCEPT ![n] = "removed"]
                           /\ UNCHANGED <<fullnodes, proposal, validators>>
    BY <1>9, FineStopNode
  <2>2. /\ Due' \subseteq Due /\ \A d \in Due : d = StopCall(n) \/ d \in Due'
        /\ \A d \in Due : Rank(StopCall(n)) <= Rank(d)
    BY <2>1, Others
  <2>3. AssignCall \notin Due
    BY <2>2, CallTypes
  <2>4. n \notin Members /\ Members' = Members
    BY <2>1, <2>3 DEF Homes, Members
  <2>5. \A m \in Members : container'[m] = container[m]
    BY <1>2, <2>1, <2>4 DEF Typed
  <2> QED BY <1>1, <2>1, <2>2, <2>4, <2>5, CallFields DEF Healthy
<1>10. CASE Return
  <2>1. Due' = Due /\ Members' = Members /\ UNCHANGED <<container, proposal, validators>>
    BY <1>10, FineSilent DEF Return, nodeVars
  <2> QED BY <1>1, <2>1 DEF Healthy
<1>11. CASE Silent
  <2>1. ASSUME NEW n \in Nodes, Tally(n) PROVE Healthy'
    BY <2>1, HealthyTally
  <2>2. ASSUME NEW n \in Nodes, Crash(n) PROVE FALSE
    BY <2>2, SizesAssumption DEF Crash, Fault, Typed
  <2>3. CASE UNCHANGED vars
    <3>1. Due' = Due /\ Members' = Members /\ UNCHANGED <<container, proposal, validators>>
      BY <2>3 DEF vars, harness, nodeVars, Due, Members
    <3> QED BY <1>1, <3>1 DEF Healthy
  <2> QED BY <1>11, <2>1, <2>2, <2>3 DEF Silent
<1> QED BY <1>3, <1>4, <1>5, <1>6, <1>7, <1>8, <1>9, <1>10, <1>11 DEF Step

\* An operation is called on a healthy chain.
LEMMA HealthyStart ==
  ASSUME Typed, Ordered, Healthy, NEW strong \in BOOLEAN, Start(strong)
  PROVE  Healthy'
<1>1. /\ op'.name = "Start" /\ Leaving' = {} /\ Members' = Members /\ op.name = "NewBlockchain"
      /\ \A n \in Nodes : StartCall(n) \in Due' <=> n \in Members
      /\ UNCHANGED <<container, proposal, validators>>
  BY StartForm DEF Members, Healthy, Ordered
<1>2. Leaving = {} /\ Members \subseteq Nodes
  BY <1>1, MembersAre, ValuesType DEF Leaving, Typed
<1> QED BY <1>1, <1>2 DEF Healthy

\* New nodes are about to be started, and have no votes yet.
LEMMA HealthyAdd ==
  ASSUME Typed, Ordered, Created, Homes, Healthy, Voting, NEW k \in AddSizes, AddFullnodes(k)
  PROVE  Healthy'
<1>1. /\ Usable /\ op'.name = "AddFullnodes" /\ Members' = Members \cup Joining'
      /\ Joining' = created + 1 .. created' /\ Leaving' = {} /\ result = "nil"
      /\ \A n \in Joining' : StartCall(n) \in Due'
      /\ UNCHANGED <<container, proposal, validators>>
  BY AddForm
<1>2. /\ validators = Members /\ \A n \in Members : container[n] = "running"
      /\ \A v \in Members, c \in Nodes \ Members : proposal[v][c] # "in"
  BY <1>1, AtRest, UsableRest DEF Usable
<1>3. ASSUME NEW v \in Members', NEW c \in Nodes \ Members'
      PROVE  proposal'[v][c] # "in"
  <2>1. CASE v \in Members
    BY <1>1, <1>2, <1>3, <2>1
  <2>2. CASE v \in Joining' /\ v \in Nodes
    <3>1. v \notin 1 .. created
      BY <1>1, <2>2, SizesAssumption DEF Typed
    <3> QED BY <1>1, <2>2, <3>1 DEF Created
  <2>3. Joining' \subseteq Nodes
    BY AddForm
  <2> QED BY <1>1, <2>1, <2>2, <2>3
<1> QED BY <1>1, <1>2, <1>3 DEF Healthy

\* Everybody is about to vote against the nodes to be removed.
LEMMA HealthyRemove ==
  ASSUME Typed, Ordered, Created, Homes, Healthy, Voting, NEW cs \in Candidates, RemoveFullnodes(cs)
  PROVE  Healthy'
<1>1. /\ Usable /\ op'.name = "RemoveFullnodes" /\ Members' = Members /\ result = "nil"
      /\ Leaving' \subseteq Members /\ WaitCall \in Due'
      /\ Ballot(Members, Leaving', "out") \subseteq Due'
      /\ UNCHANGED <<container, proposal, validators>>
  BY RemoveForm DEF Members
<1>2. /\ validators = Members /\ \A n \in Members : container[n] = "running"
      /\ \A v \in Members, c \in Nodes \ Members : proposal[v][c] # "in"
  BY <1>1, AtRest, UsableRest DEF Usable
<1>3. \A v \in Members, c \in Leaving' : ProposeCall(v, c, "out") \in Due'
  BY <1>1 DEF Ballot
<1> QED BY <1>1, <1>2, <1>3 DEF Healthy

\* A new blockchain has not started anything.
LEMMA HealthyInit == Init => Healthy
<1> SUFFICES ASSUME Init PROVE Healthy
  OBVIOUS
<1>1. Typed
  BY ShapeInit
<1>2. \A i \in 1 .. InitialNodes : i \in DOMAIN fullnodes /\ fullnodes[i] = i
  BY DEF Init
<1>3. validators \subseteq Members
  BY <1>2 DEF Init, Members
<1>4. op.name = "NewBlockchain" /\ Leaving = {}
  BY DEF Init, Leaving
<1>5. \A v, c \in Nodes : proposal[v][c] = "none"
  BY DEF Init
<1>6. Members \subseteq Nodes
  BY <1>1, MembersAre, ValuesType DEF Typed
<1> QED BY <1>3, <1>4, <1>5, <1>6 DEF Healthy

-----------------------------------------------------------------------------
(* The votes                                                               *)

\* A vote asked for is one that was due, or one against a leaving node.
LEMMA VotingPropose ==
  ASSUME Typed, Ordered, Created, Voting, Propose, Fine'
  PROVE  Voting'
<1>1. op' = op /\ Leaving' = Leaving /\ Joining' = Joining
  BY FineBefore DEF Step
<1>2. PICK v, c \in Nodes, way \in {"in", "out"} :
        /\ Made(ProposeCall(v, c, way))
        /\ proposal' = [proposal EXCEPT ![v][c] = way]
        /\ UNCHANGED <<fullnodes, validators>>
  BY FinePropose
<1> DEFINE call == ProposeCall(v, c, way)
<1>3. /\ call.do = "propose" /\ call.candidate = c /\ call.way = way
      /\ \A x, y, w : ProposeCall(x, y, w) = call => x = v /\ y = c /\ w = way
  BY CallFields
<1>4. call \in Due /\ Fits(call) /\ Due' \subseteq Due /\ \A d \in Due : d = call \/ d \in Due'
  BY <1>2 DEF Made
<1>5. \A x, y \in Nodes : proposal'[x][y] = IF x = v /\ y = c THEN way ELSE proposal[x][y]
  <2>1. proposal \in [Nodes -> [Nodes -> {"none", "in", "out"}]] /\ way \in {"none", "in", "out"}
    BY DEF Typed
  <2> QED BY <1>2, <2>1, TableUpdate
<1>6. Members' = Members /\ Members \subseteq Nodes /\ Leaving \subseteq Nodes
  <2>1. Members \cup Leaving \subseteq 1 .. created /\ created \in 0 .. MaxNodes
    BY DEF Created, Typed
  <2>2. 1 .. created \subseteq Nodes
    BY <2>1, SizesAssumption DEF Nodes
  <2> QED BY <1>2, <2>1, <2>2 DEF Members
<1>7. \/ op.name = "AddFullnodes" /\ way = "in" /\ c \in Joining
      \/ op.name = "RemoveFullnodes" /\ way = "out" /\ c \in Leaving
  BY <1>3, <1>4 DEF Fits
<1>8. (way = "out" => c \in Leaving) /\ (Joining # {} => way = "in") /\ Joining \subseteq Members
  BY <1>7 DEF Created, Joining
<1> HIDE DEF call
<1>9. Members' \ (Leaving' \cup Joining') \subseteq validators'
  BY <1>1, <1>2, <1>6 DEF Voting
<1>10. ASSUME NEW x \in Members' \cup Leaving', NEW y \in Members' \ Leaving'
       PROVE  proposal'[x][y] # "out"
  <2>1. x \in Members \cup Leaving /\ y \in Members \ Leaving /\ x \in Nodes /\ y \in Nodes
    BY <1>1, <1>6, <1>10
  <2>2. proposal[x][y] # "out"
    BY <2>1 DEF Voting
  <2> QED BY <1>5, <1>8, <2>1, <2>2
<1>11. ASSUME NEW x \in Members' \ Joining', NEW y \in Joining'
       PROVE  proposal'[x][y] = "in" \/ ProposeCall(x, y, "in") \in Due'
  <2>1. x \in Members \ Joining /\ y \in Joining /\ x \in Nodes /\ y \in Nodes /\ way = "in"
    BY <1>1, <1>6, <1>8, <1>11
  <2>2. proposal[x][y] = "in" \/ ProposeCall(x, y, "in") \in Due
    BY <2>1 DEF Voting
  <2>3. CASE x = v /\ y = c
    BY <1>5, <2>1, <2>3
  <2>4. CASE ~ (x = v /\ y = c)
    <3>1. proposal'[x][y] = proposal[x][y] /\ ProposeCall(x, y, "in") # call
      BY <1>3, <1>5, <2>1, <2>4
    <3> QED BY <1>4, <2>2, <3>1
  <2> QED BY <2>3, <2>4
<1>12. ASSUME NEW x \in Joining', NEW y \in Joining'
       PROVE  proposal'[x][y] # "in" /\ ProposeCall(x, y, "in") \notin Due'
  <2>1. x \in Joining /\ y \in Joining /\ x \in Nodes /\ y \in Nodes
    BY <1>1, <1>6, <1>8, <1>12
  <2>2. proposal[x][y] # "in" /\ ProposeCall(x, y, "in") \notin Due
    BY <2>1 DEF Voting
  <2>3. x = v /\ y = c => way # "in"
    BY <1>4, <2>2 DEF call
  <2> QED BY <1>4, <1>5, <2>1, <2>2, <2>3
<1>13. op'.name = "AddFullnodes" => Cardinality(validators') <= 2 * Cardinality(Members' \ Joining')
  BY <1>1, <1>2, <1>6 DEF Voting
<1> QED BY <1>9, <1>10, <1>11, <1>12, <1>13 DEF Voting

\* A fullnode that stays is not voted out.
LEMMA ExpelledLeaves ==
  ASSUME Typed, Healthy, Voting, NEW n \in Nodes, Expellable(n)
  PROVE  n \in Leaving
<1>1. PICK v \in validators : proposal[v][n] = "out"
  BY SomeVote DEF Expellable
<1>2. v \in Members \cup Leaving
  BY DEF Healthy
<1>3. n \notin Members \ Leaving
  BY <1>1, <1>2 DEF Voting
<1>4. n \in Members \cup Leaving
  BY DEF Expellable, Healthy
<1> QED BY <1>3, <1>4

\* Only the old nodes vote for a new one, so one gets in only as long as the
\* validators are fewer than twice as many.
LEMMA RoomForOne ==
  ASSUME Typed, Created, Healthy, Voting, op.name = "AddFullnodes", NEW n \in Nodes, Admissible(n)
  PROVE  Cardinality(validators \cup {n}) <= 2 * Cardinality(Members \ Joining)
<1> DEFINE old == Members \ Joining
<1>1. n \in Members /\ n \notin validators /\ Leaving = {}
  BY AdmittedIsMember DEF Leaving
<1>2. n \in Joining
  BY <1>1 DEF Voting
<1>3. Votes(n, "in") \subseteq old
  <2> SUFFICES ASSUME NEW v \in validators \cap Running, proposal[v][n] = "in"
               PROVE  v \in Members \ Joining
    BY DEF Votes
  <2>1. v \in Members
    BY <1>1 DEF Healthy
  <2>2. v \notin Joining
    BY <1>2 DEF Voting
  <2> QED BY <2>1, <2>2
<1>4. old \in SUBSET Nodes /\ Votes(n, "in") \in SUBSET Nodes /\ validators \in SUBSET Nodes
  BY MembersAre, ValuesType DEF Typed, Votes
<1> HIDE DEF old
<1>5. /\ IsFiniteSet(old) /\ IsFiniteSet(validators) /\ IsFiniteSet(Votes(n, "in"))
      /\ Cardinality(old) \in Nat /\ Cardinality(validators) \in Nat
      /\ Cardinality(Votes(n, "in")) \in Nat
  BY <1>4, NodesFinite
<1>6. Cardinality(Votes(n, "in")) <= Cardinality(old)
  BY <1>3, <1>5, FS_Subset
<1>7. 2 * Cardinality(Votes(n, "in")) > Cardinality(validators)
  BY DEF Admissible, Majority
<1>8. Cardinality(validators \cup {n}) = Cardinality(validators) + 1
  BY <1>1, <1>5, FS_AddElement
<1>9. Cardinality(validators \cup {n}) <= 2 * Cardinality(old)
  BY <1>5, <1>6, <1>7, <1>8
<1> QED BY <1>9 DEF old

\* Counting votes keeps those that stay in, and the number of the others small.
LEMMA VotingTally ==
  ASSUME Typed, Created, Healthy, Voting, NEW n \in Nodes, Tally(n)
  PROVE  Voting'
<1>1. /\ Due' = Due /\ Members' = Members /\ Leaving' = Leaving /\ Joining' = Joining
      /\ proposal' = proposal /\ op' = op
  BY DEF Tally, harness, nodeVars, Due, Members, Leaving, Joining
<1>2. CASE Admissible(n) /\ validators' = validators \cup {n}
  <2>1. op.name = "AddFullnodes" => Cardinality(validators') <= 2 * Cardinality(Members \ Joining)
    BY <1>2, RoomForOne
  <2> QED BY <1>1, <1>2, <2>1 DEF Voting
<1>3. CASE Expellable(n) /\ validators' = validators \ {n}
  <2>1. n \in Leaving
    BY <1>3, ExpelledLeaves
  <2>2. op.name # "AddFullnodes"
    BY <2>1 DEF Leaving
  <2> QED BY <1>1, <1>3, <2>1, <2>2 DEF Voting
<1> QED BY <1>2, <1>3 DEF Tally

\* No call of an operation takes a vote back or a member out.
LEMMA VotingStep ==
  ASSUME Typed, Ordered, Created, Homes, Healthy, Voting, Step \/ Silent, Fine'
  PROVE  Voting'
<1>1. op' = op /\ Leaving' = Leaving /\ Joining' = Joining
  BY FineBefore
<1>3. CASE StartNode \/ Keep \/ Wait \/ StopNode
  <2>1. \E c : Made(c) /\ c.do # "propose" /\ UNCHANGED <<fullnodes, proposal, validators>>
    BY <1>3, FineStart, FineKeep, FineWait, FineStopNode, CallFields
  <2>2. PICK c : Made(c) /\ c.do # "propose" /\ UNCHANGED <<fullnodes, proposal, validators>>
    BY <2>1
  <2>3. Due' \subseteq Due /\ \A d \in Due : d = c \/ d \in Due'
    BY <2>2 DEF Made
  <2>4. Members' = Members
    BY <2>2 DEF Members
  <2> QED BY <1>1, <2>2, <2>3, <2>4, CallFields DEF Voting
<1>4. CASE Propose
  BY <1>4, VotingPropose
<1>5. CASE Connect
  <2>1. PICK v, w \in Nodes : /\ Made(MeshCall(v, w)) \/ Made(RingCall(v, w))
                              /\ UNCHANGED <<fullnodes, proposal, validators>>
    BY <1>5, FineConnect
  <2>2. /\ Due' \subseteq Due
        /\ \A d \in Due : d \in {MeshCall(v, w), RingCall(v, w)} \/ d \in Due'
    BY <2>1, Others
  <2>3. Members' = Members
    BY <2>1 DEF Members
  <2> QED BY <1>1, <2>1, <2>2, <2>3, CallFields DEF Voting
<1>6. CASE Assign
  <2>1. /\ Made(AssignCall) /\ Members' = Kept /\ op.name = "RemoveFullnodes"
        /\ UNCHANGED <<proposal, validators>>
    BY <1>6, FineAssign
  <2>2. AssignCall \in Due /\ Joining = {} /\ op.name # "AddFullnodes"
    BY <2>1 DEF Made, Joining
  <2>3. Members' \subseteq Members \ Leaving
    BY <2>1, <2>2 DEF Homes
  <2> QED BY <1>1, <2>1, <2>2, <2>3 DEF Voting
<1>7. CASE Return
  <2>1. Due' = Due /\ Members' = Members /\ UNCHANGED <<proposal, validators>>
    BY <1>7, FineSilent DEF Return
  <2> QED BY <1>1, <2>1 DEF Voting
<1>8. CASE Silent
  <2>1. ASSUME NEW n \in Nodes, Tally(n) PROVE Voting'
    BY <2>1, VotingTally
  <2>2. CASE (\E n \in Nodes : Crash(n)) \/ UNCHANGED vars
    <3>1. Due' = Due /\ Members' = Members /\ UNCHANGED <<proposal, validators>>
      BY <2>2 DEF Crash, vars, harness, nodeVars, Due, Members
    <3> QED BY <1>1, <3>1 DEF Voting
  <2> QED BY <1>8, <2>1, <2>2 DEF Silent
<1> QED BY <1>3, <1>4, <1>5, <1>6, <1>7, <1>8 DEF Step

\* The new nodes do not vote yet, and nobody is against them.
LEMMA VotingAdd ==
  ASSUME Typed, Ordered, Created, Homes, Healthy, Voting, NEW k \in AddSizes, AddFullnodes(k)
  PROVE  Voting'
<1>1. /\ Usable /\ op'.name = "AddFullnodes" /\ Members' = Members \cup Joining'
      /\ Joining' = created + 1 .. created' /\ Leaving' = {} /\ Members \cap Joining' = {}
      /\ Ballot(Members, Joining', "in") \subseteq Due' /\ result = "nil"
      /\ Due' = {StartCall(n) : n \in Joining'} \cup Ballot(Members, Joining', "in")
                  \cup Mesh(Members')
      /\ Joining' \subseteq Nodes /\ UNCHANGED <<proposal, validators>>
  BY AddForm
<1>2. validators = Members /\ Leaving \cap Members = {}
  BY <1>1, UsableRest, AtRest DEF Usable
<1>3. ASSUME NEW v \in Members', NEW c \in Members'
      PROVE  proposal'[v][c] # "out"
  <2>1. Members' \subseteq Nodes
    <3>1. Joining' \subseteq Nodes
      BY AddForm
    <3> QED BY <1>1, <3>1, MembersAre, ValuesType DEF Typed
  <2>2. CASE v \in Members /\ c \in Members
    BY <1>1, <1>2, <2>2 DEF Voting
  <2>3. CASE v \in Joining' \/ c \in Joining'
    <3>1. v \notin 1 .. created \/ c \notin 1 .. created
      BY <1>1, <2>3, SizesAssumption DEF Typed
    <3> QED BY <1>1, <2>1, <3>1 DEF Created
  <2> QED BY <1>1, <2>2, <2>3
<1>4. \A v \in Members' \ Joining', c \in Joining' : ProposeCall(v, c, "in") \in Due'
  BY <1>1 DEF Ballot
<1>5. ASSUME NEW v \in Joining', NEW c \in Joining'
      PROVE  proposal'[v][c] # "in" /\ ProposeCall(v, c, "in") \notin Due'
  <2>1. v \notin 1 .. created
    BY <1>1, SizesAssumption DEF Typed
  <2>2. proposal'[v][c] # "in"
    BY <1>1, <2>1 DEF Created
  <2>3. ProposeCall(v, c, "in") \notin Ballot(Members, Joining', "in")
    BY <1>1, CallFields DEF Ballot
  <2>4. ProposeCall(v, c, "in") \notin {StartCall(n) : n \in Joining'} \cup Mesh(Members')
    BY CallFields DEF Mesh
  <2> QED BY <1>1, <2>2, <2>3, <2>4
<1>6. Cardinality(validators') <= 2 * Cardinality(Members' \ Joining')
  <2>1. Members' \ Joining' = Members /\ validators' = Members
    BY <1>1, <1>2
  <2>2. Members \in SUBSET Nodes
    BY MembersAre, ValuesType DEF Typed
  <2>3. Cardinality(Members) \in Nat
    BY <2>2, NodesFinite
  <2> QED BY <2>1, <2>3
<1>7. Members' \ (Leaving' \cup Joining') \subseteq validators'
  BY <1>1, <1>2
<1>8. \A v \in Members' \cup Leaving', c \in Members' \ Leaving' : proposal'[v][c] # "out"
  BY <1>1, <1>3
<1> QED BY <1>4, <1>5, <1>6, <1>7, <1>8 DEF Voting

\* Nodes that are to be removed need not be validators any more.
LEMMA VotingRemove ==
  ASSUME Typed, Ordered, Created, Homes, Healthy, Voting, NEW cs \in Candidates, RemoveFullnodes(cs)
  PROVE  Voting'
<1>1. /\ Usable /\ Members' = Members /\ Leaving' \subseteq Members /\ Joining' = {}
      /\ op'.name = "RemoveFullnodes"
      /\ result = "nil" /\ UNCHANGED <<proposal, validators>>
  BY RemoveForm DEF Members
<1>2. validators = Members /\ Leaving \cap Members = {}
  BY <1>1, UsableRest, AtRest DEF Usable
<1>3. \A v, c \in Members : proposal[v][c] # "out"
  BY <1>2 DEF Voting
<1> QED BY <1>1, <1>2, <1>3 DEF Voting

\* Of a new blockchain all fullnodes are validators.
LEMMA VotingInit == Init => Voting
<1> SUFFICES ASSUME Init PROVE Voting
  OBVIOUS
<1>1. Typed
  BY ShapeInit
<1>2. Members \subseteq Nodes /\ Members \subseteq validators
  BY <1>1, MembersAre, ValuesType DEF Init, Typed, Members
<1>3. Leaving = {} /\ Joining = {} /\ op.name = "NewBlockchain"
  BY DEF Init, Leaving, Joining
<1>4. \A v, c \in Nodes : proposal[v][c] = "none"
  BY DEF Init
<1> QED BY <1>2, <1>3, <1>4 DEF Voting

-----------------------------------------------------------------------------
(* Both together                                                           *)

Faultless == Fine /\ faults = 0

\* Health and votes survive every step that is not a failure.
LEMMA SoundNext ==
  /\ Typed /\ Ordered /\ Created /\ (Fine => Homes)
  /\ (Faultless => Healthy /\ Voting) /\ [Next]_vars
  => (Faultless => Healthy /\ Voting)'
<1> SUFFICES ASSUME Typed, Ordered, Created, Fine => Homes, Faultless => Healthy /\ Voting,
                    [Next]_vars, Fine', faults' = 0
             PROVE  Healthy' /\ Voting'
  BY DEF Faultless
<1>0. faults = 0
  BY ShapeNext, StillFaultless
<1>1. CASE Step \/ Silent
  <2>1. Fine
    BY <1>1, FineBefore
  <2> QED BY <1>0, <1>1, <2>1, HealthyStep, VotingStep DEF Faultless
<1>2. ASSUME NEW strong \in BOOLEAN, Start(strong) PROVE Healthy' /\ Voting'
  <2>1. /\ op.name = "NewBlockchain" /\ Members' = Members /\ Leaving' = {} /\ Joining' = {}
        /\ result = "nil" /\ op'.name = "Start" /\ UNCHANGED <<proposal, validators>>
    BY <1>2, StartForm DEF Members
  <2>2. Healthy /\ Voting /\ Leaving = {} /\ Joining = {}
    BY <1>0, <2>1 DEF Fine, Faultless, Leaving, Joining
  <2>3. Healthy'
    BY <1>2, <2>2, HealthyStart
  <2> QED BY <2>1, <2>2, <2>3 DEF Voting
<1>3. ASSUME NEW k \in AddSizes, AddFullnodes(k) PROVE Healthy' /\ Voting'
  <2>1. Fine
    BY <1>3, AddForm DEF Fine, Usable
  <2> QED BY <1>0, <1>3, <2>1, HealthyAdd, VotingAdd DEF Faultless
<1>4. ASSUME NEW cs \in Candidates, RemoveFullnodes(cs) PROVE Healthy' /\ Voting'
  <2>1. Fine
    BY <1>4, RemoveForm DEF Fine, Usable
  <2> QED BY <1>0, <1>4, <2>1, HealthyRemove, VotingRemove DEF Faultless
<1>5. ASSUME NEW force \in BOOLEAN, Stop(force) PROVE FALSE
  BY <1>5, StopForm DEF Fine
<1> QED BY <1>1, <1>2, <1>3, <1>4, <1>5 DEF Next, Silent

\* A chain to which no failure has happened is healthy, and the votes are cast.
LEMMA AlwaysSound == Spec => [](Faultless => Healthy /\ Voting)
<1>1. Init => (Faultless => Healthy /\ Voting)
  BY HealthyInit, VotingInit
<1> QED BY <1>1, SoundNext, Shape, AlwaysHomes, PTL DEF Spec

-----------------------------------------------------------------------------
(* Success keeps consensus                                                 *)

\* The chain was started with everybody connected to everybody.
NotARing == op.name = "Start" => op.strong

\* Then it stays a mesh: nodes that are added are connected to all the others,
\* and removing nodes takes no connection between those that stay.
MeshKept == Fine /\ op.name # "NewBlockchain" => Meshed

\* Adding connects the new nodes to all, removing disconnects only those removed.
LEMMA MeshKeptNext ==
  /\ Typed /\ Ordered /\ Created /\ (Fine => Homes)
  /\ MeshKept /\ [Next]_vars /\ NotARing'
  => MeshKept'
<1> SUFFICES ASSUME Typed, Ordered, Created, Fine => Homes, MeshKept, [Next]_vars, NotARing',
                    Fine', op'.name # "NewBlockchain"
             PROVE  Meshed'
  BY DEF MeshKept
<1>1. CASE Step \/ Silent
  BY <1>1, FineBefore, MeshedStep DEF MeshKept
<1>2. ASSUME NEW strong \in BOOLEAN, Start(strong) PROVE Meshed'
  <2>1. /\ Members' = Members /\ op'.name = "Start" /\ op'.strong = strong
        /\ strong => \A v, w \in Members : MeshCall(v, w) \in Due'
    BY <1>2, StartForm DEF Members
  <2> QED BY <2>1 DEF Meshed, NotARing
<1>3. ASSUME NEW k \in AddSizes, AddFullnodes(k) PROVE Meshed'
  <2>1. Mesh(Members') \subseteq Due'
    BY <1>3, AddForm
  <2> QED BY <2>1 DEF Meshed, Mesh
<1>4. ASSUME NEW cs \in Candidates, RemoveFullnodes(cs) PROVE Meshed'
  <2>1. Usable /\ Members' = Members /\ peers' = peers /\ result = "nil"
    BY <1>4, RemoveForm DEF Members
  <2>2. Fine /\ Meshed /\ Due = {}
    BY <2>1, EmptyValues DEF Usable, Fine, MeshKept, Ordered, Due
  <2> QED BY <2>1, <2>2 DEF Meshed
<1>5. ASSUME NEW force \in BOOLEAN, Stop(force) PROVE FALSE
  BY <1>5, StopForm DEF Fine
<1> QED BY <1>1, <1>2, <1>3, <1>4, <1>5 DEF Next, Silent

\* After the wait of RemoveFullnodes the validators that stay are a quorum.
StillQuorum ==
  op.name = "RemoveFullnodes" /\ AssignCall \notin Due =>
    Cardinality(validators \ Leaving) >= Quorum

\* Votes counted after the wait only make the quorum smaller.
LEMMA QuorumTally ==
  ASSUME Typed, Created, Homes, Healthy, Voting, op.name = "RemoveFullnodes", AssignCall \notin Due,
         Cardinality(validators \ Leaving) >= Quorum, NEW n \in Nodes, Tally(n)
  PROVE  Cardinality(validators' \ Leaving) >= Quorum'
<1>1. ~ Admissible(n)
  <2>1. Leaving \cap Members = {} /\ Joining = {}
    BY DEF Homes, Joining
  <2>2. Members \subseteq validators
    BY <2>1 DEF Voting
  <2> QED BY <2>2, AdmittedIsMember
<1>2. Expellable(n) /\ validators' = validators \ {n}
  BY <1>1 DEF Tally
<1>3. n \in Leaving /\ n \in validators
  BY <1>2, ExpelledLeaves DEF Expellable
<1>4. validators' \ Leaving = validators \ Leaving
  BY <1>2, <1>3
<1>5. validators \in SUBSET Nodes /\ validators \ Leaving \in SUBSET Nodes
  BY DEF Typed
<1>6. /\ IsFiniteSet(validators) /\ Cardinality(validators) \in Nat
      /\ Cardinality(validators \ Leaving) \in Nat
  BY <1>5, NodesFinite
<1>7. Cardinality(validators') = Cardinality(validators) - 1
  BY <1>2, <1>3, <1>6, FS_RemoveElement
<1> DEFINE c == Cardinality(validators)
<1>8. 2 * ((c - 1 - 1) \div 3) + 1 <= 2 * ((c - 1) \div 3) + 1
  BY <1>6, QuorumShrinks
<1>9. Quorum' = 2 * ((c - 1 - 1) \div 3) + 1 /\ Quorum = 2 * ((c - 1) \div 3) + 1
  BY <1>7 DEF Quorum
<1>10. Quorum' \in Int /\ Quorum \in Int
  BY <1>6, <1>9
<1> HIDE DEF c
<1>11. Quorum' <= Quorum
  BY <1>8, <1>9
<1> QED BY <1>4, <1>6, <1>10, <1>11

\* Every wait was enough, so the quorum stays.
LEMMA QuorumStep ==
  ASSUME Typed, Ordered, Created, Homes, Healthy, Voting, StillQuorum, WaitWasEnough,
         Step \/ Silent, Fine', faults' = faults
  PROVE  StillQuorum'
<1>1. op' = op /\ Leaving' = Leaving
  BY FineBefore
<1> SUFFICES ASSUME op.name = "RemoveFullnodes", AssignCall \notin Due'
             PROVE  Cardinality(validators' \ Leaving) >= Quorum'
  BY <1>1 DEF StillQuorum
<1>2. CASE StartNode \/ Propose \/ Keep \/ Connect \/ Wait \/ StopNode
  <2>1. \E c : Made(c) /\ c.do # "assign" /\ UNCHANGED validators
    BY <1>2, FineStart, FinePropose, FineKeep, FineConnect, FineWait, FineStopNode, CallFields
  <2>2. AssignCall \notin Due /\ UNCHANGED validators
    BY <2>1, CallFields DEF Made
  <2> QED BY <2>2 DEF StillQuorum, Quorum
<1>3. CASE Assign
  <2>1. Doing("assign") /\ UNCHANGED validators
    BY <1>3 DEF Assign
  <2>2. {v \in validators : \A i \in DOMAIN op.candidates : v # op.candidates[i]}
          = validators \ Leaving
    BY DEF Leaving, Values
  <2> QED BY <2>1, <2>2 DEF WaitWasEnough, Quorum
<1>4. CASE Return \/ (\E n \in Nodes : Crash(n)) \/ UNCHANGED vars
  <2>1. Due' = Due /\ UNCHANGED validators
    BY <1>4, FineSilent DEF Return, Crash, vars, Silent
  <2> QED BY <2>1 DEF StillQuorum, Quorum
<1>5. ASSUME NEW n \in Nodes, Tally(n) PROVE Cardinality(validators' \ Leaving) >= Quorum'
  <2>1. AssignCall \notin Due
    BY <1>5, FineSilent DEF Silent
  <2> QED BY <1>5, <2>1, QuorumTally DEF StillQuorum
<1> QED BY <1>2, <1>3, <1>4, <1>5 DEF Step, Silent

\* The same of every step: an operation that is called has not assigned yet.
LEMMA QuorumNext ==
  /\ Typed /\ Ordered /\ Created /\ (Fine => Homes) /\ (Faultless => Healthy /\ Voting)
  /\ (Faultless => StillQuorum) /\ WaitWasEnough /\ [Next]_vars
  => (Faultless => StillQuorum)'
<1> SUFFICES ASSUME Typed, Ordered, Created, Fine => Homes, Faultless => Healthy /\ Voting,
                    Faultless => StillQuorum, WaitWasEnough, [Next]_vars, Fine', faults' = 0
             PROVE  StillQuorum'
  BY DEF Faultless
<1>0. faults = 0
  BY ShapeNext, StillFaultless
<1>1. CASE Step \/ Silent
  <2>1. Fine
    BY <1>1, FineBefore
  <2> QED BY <1>0, <1>1, <2>1, QuorumStep DEF Faultless
<1>2. ASSUME NEW strong \in BOOLEAN, Start(strong) PROVE StillQuorum'
  BY <1>2, StartForm DEF StillQuorum
<1>3. ASSUME NEW k \in AddSizes, AddFullnodes(k) PROVE StillQuorum'
  BY <1>3, AddForm DEF StillQuorum
<1>4. ASSUME NEW cs \in Candidates, RemoveFullnodes(cs) PROVE StillQuorum'
  <2>1. AssignCall \in Due'
    BY <1>4, RemoveForm
  <2> QED BY <2>1 DEF StillQuorum
<1>5. ASSUME NEW force \in BOOLEAN, Stop(force) PROVE FALSE
  BY <1>5, StopForm DEF Fine
<1> QED BY <1>1, <1>2, <1>3, <1>4, <1>5 DEF Next, Silent

\* All fullnodes together are enough validators that reach each other.
LEMMA EverybodyAlive ==
  ASSUME Typed, Ordered, Homes, Healthy, StillQuorum, Meshed,
         result = "nil", op.name # "NewBlockchain"
  PROVE  Alive
<1>1. /\ Due = {} /\ Members \subseteq Nodes /\ (op.name # "RemoveFullnodes" => Leaving = {})
      /\ \A n \in Members : container[n] = "running"
  BY AtRest, MembersAre, ValuesType DEF Typed
<1>2. Members \subseteq Running
  BY <1>1 DEF Running
<1>3. Cardinality(Members \cap validators) >= Quorum
  <2>1. validators \ Leaving \subseteq Members \cap validators
    BY DEF Healthy
  <2>2. /\ validators \in SUBSET Nodes /\ validators \ Leaving \in SUBSET Nodes
        /\ Members \cap validators \in SUBSET Nodes
    BY DEF Typed
  <2>3. /\ Cardinality(validators) \in Nat /\ Cardinality(validators \ Leaving) \in Nat
        /\ Cardinality(Members \cap validators) \in Nat /\ IsFiniteSet(Members \cap validators)
    BY <2>2, NodesFinite
  <2>4. Cardinality(validators \ Leaving) <= Cardinality(Members \cap validators)
    BY <2>1, <2>3, FS_Subset
  <2>5. Cardinality(validators \ Leaving) >= Quorum
    <3>1. CASE op.name = "RemoveFullnodes"
      BY <1>1, <3>1 DEF StillQuorum
    <3>2. CASE op.name # "RemoveFullnodes"
      <4>1. validators \ Leaving = validators
        BY <1>1, <3>2
      <4> QED BY <2>3, <4>1, QuorumOfAll DEF Quorum
    <3> QED BY <3>1, <3>2
  <2>6. Quorum \in Int
    BY <2>3 DEF Quorum
  <2> QED BY <2>3, <2>4, <2>5, <2>6
<1>4. Together(Members)
  <2> SUFFICES ASSUME NEW S \in SUBSET Members, S # {}, S # Members
               PROVE  \E v \in S, w \in Members \ S : Linked(v, w)
    BY DEF Together
  <2>1. PICK v \in S : TRUE
    OBVIOUS
  <2>2. PICK w \in Members \ S : TRUE
    OBVIOUS
  <2>3. <<v, w>> \in peers
    BY <1>1 DEF Meshed
  <2> QED BY <2>3 DEF Linked
<1> QED BY <1>2, <1>3, <1>4 DEF Alive

\* As long as nothing fails, growing and shrinking a chain that was not started
\* as a ring never halts it, however many nodes are added or removed at once, if
\* every wait of RemoveFullnodes has left a quorum to those that stay.
THEOREM ConsensusKept == Spec => SuccessKeepsConsensus
<1>1. Init => MeshKept /\ (Faultless => StillQuorum)
  BY DEF Init, MeshKept, StillQuorum
<1>2. Spec => []((Typed /\ Ordered /\ Created) /\ (Fine => Homes) /\ (Faultless => Healthy /\ Voting))
  BY Shape, AlwaysHomes, AlwaysSound, PTL
<1>3. Spec /\ []NotARing => []MeshKept
  BY <1>1, <1>2, MeshKeptNext, PTL DEF Spec
<1>4. Spec /\ []WaitWasEnough => [](Faultless => StillQuorum)
  BY <1>1, <1>2, QuorumNext, PTL DEF Spec
<1>5. /\ Typed /\ Ordered /\ (Fine => Homes) /\ (Faultless => Healthy /\ Voting) /\ MeshKept
      /\ (Faultless => StillQuorum)
      => SuccessIsAlive
  <2> SUFFICES ASSUME Typed, Ordered, Fine => Homes, Faultless => Healthy /\ Voting, MeshKept,
                      Faultless => StillQuorum, faults = 0,
                      Succeeded({"Start", "AddFullnodes", "RemoveFullnodes"})
               PROVE  Alive
    BY DEF SuccessIsAlive
  <2>1. Fine /\ result = "nil" /\ op.name # "NewBlockchain"
    BY DEF Succeeded, Fine
  <2> QED BY <2>1, EverybodyAlive DEF Faultless, MeshKept
<1>6. Spec /\ [](NotARing /\ WaitWasEnough) => []SuccessIsAlive
  BY <1>2, <1>3, <1>4, <1>5, PTL
<1> QED BY <1>6, PTL DEF SuccessKeepsConsensus, NotARing

-----------------------------------------------------------------------------
(* The validators become the fullnodes                                     *)

\* After an addition whose votes are counted, the validators are the fullnodes,
\* unless they are already twice as many as the old ones.
LEMMA SettledAfterAdd ==
  ASSUME Typed, Ordered, Created, Homes, Healthy, Voting, Settled, result = "nil",
         op.name = "AddFullnodes", validators # Members
  PROVE  /\ validators \subseteq Members
         /\ Cardinality(validators) = 2 * Cardinality(Members \ Joining)
<1> DEFINE old == Members \ Joining
<1>1. /\ Due = {} /\ Leaving = {} /\ Members \subseteq Nodes
      /\ \A n \in Members : container[n] = "running"
  BY AtRest, MembersAre, ValuesType DEF Typed
<1>2. validators \subseteq Members /\ old \subseteq validators
  BY <1>1 DEF Healthy, Voting
<1>3. PICK c \in Members : c \notin validators
  BY <1>2
<1>4. c \in Joining /\ c \in Nodes
  BY <1>1, <1>2, <1>3
<1>5. old \subseteq Votes(c, "in")
  <2>1. ASSUME NEW v \in old PROVE v \in validators /\ v \in Running /\ proposal[v][c] = "in"
    <3>1. v \in Running
      BY <1>1 DEF Running
    <3>2. proposal[v][c] = "in"
      BY <1>1, <1>4 DEF Voting
    <3> QED BY <1>2, <3>1, <3>2
  <2> QED BY <2>1 DEF Votes
<1>6. ~ (2 * Cardinality(Votes(c, "in")) > Cardinality(validators))
  BY <1>3, <1>4 DEF Settled, Admissible, Majority
<1>7. Cardinality(validators) <= 2 * Cardinality(old)
  BY DEF Voting
<1>8. old \in SUBSET Nodes /\ Votes(c, "in") \in SUBSET Nodes /\ validators \in SUBSET Nodes
  BY <1>1 DEF Votes, Typed
<1> HIDE DEF old
<1>9. /\ IsFiniteSet(Votes(c, "in")) /\ Cardinality(old) \in Nat
      /\ Cardinality(Votes(c, "in")) \in Nat /\ Cardinality(validators) \in Nat
  BY <1>8, NodesFinite
<1>10. Cardinality(old) <= Cardinality(Votes(c, "in"))
  BY <1>5, <1>9, FS_Subset
<1>11. Cardinality(validators) = 2 * Cardinality(old)
  BY <1>6, <1>7, <1>9, <1>10
<1> QED BY <1>2, <1>11 DEF old

\* After a removal whose votes are counted, the validators are the fullnodes, if
\* most of them run: all of them have voted against those that left.
LEMMA SettledAfterRemoval ==
  ASSUME Typed, Ordered, Created, Homes, Healthy, Voting, Settled, result = "nil",
         op.name = "RemoveFullnodes",
         2 * Cardinality(validators \cap Running) > Cardinality(validators)
  PROVE  validators = Members
<1>1. Due = {} /\ Leaving \cap Members = {} /\ Joining = {}
  BY AtRest DEF Joining
<1>2. Members \subseteq validators
  BY <1>1 DEF Voting
<1>3. ASSUME NEW n \in validators, n \notin Members PROVE FALSE
  <2>1. n \in Leaving /\ n \in Nodes
    BY <1>3 DEF Healthy, Typed
  <2>2. Votes(n, "out") = validators \cap Running
    <3>1. \A v \in validators : proposal[v][n] = "out"
      BY <1>1, <2>1 DEF Healthy
    <3> QED BY <3>1 DEF Votes
  <2>3. Expellable(n)
    BY <2>2 DEF Expellable, Majority
  <2> QED BY <2>1, <2>3 DEF Settled
<1> QED BY <1>2, <1>3

\* As long as nothing fails, the validators are the fullnodes once the votes are
\* counted: everybody added was voted in, everybody removed was voted out, before
\* or after it was stopped, within the limits the property names.
THEOREM MembershipSettles == Spec => []SettledMembership
<1>1. /\ Typed /\ Ordered /\ Created /\ (Fine => Homes) /\ (Faultless => Healthy /\ Voting)
      => SettledMembership
  <2> SUFFICES ASSUME Typed, Ordered, Created, Fine => Homes, Faultless => Healthy /\ Voting,
                      faults = 0, Settled,
                      2 * Cardinality(validators \cap Running) > Cardinality(validators),
                      Succeeded({"Start", "AddFullnodes", "RemoveFullnodes"})
               PROVE  \/ validators = Members
                      \/ /\ op.name = "AddFullnodes" /\ validators \subseteq Members
                         /\ LET before == Members \ {op.new[i] : i \in DOMAIN op.new}
                            IN  Cardinality(validators) = 2 * Cardinality(before)
    BY DEF SettledMembership
  <2>1. Fine /\ result = "nil" /\ Homes /\ Healthy /\ Voting
    BY DEF Succeeded, Fine, Faultless
  <2>2. CASE op.name = "Start"
    <3>1. Leaving = {} /\ Joining = {}
      BY <2>2 DEF Leaving, Joining
    <3>2. validators = Members
      BY <2>1, <3>1 DEF Healthy, Voting
    <3> QED BY <3>2
  <2>3. CASE op.name = "AddFullnodes"
    <3>1. Joining = {op.new[i] : i \in DOMAIN op.new}
      BY <2>3 DEF Joining, Values
    <3> QED BY <2>1, <2>3, <3>1, SettledAfterAdd
  <2>4. CASE op.name = "RemoveFullnodes"
    BY <2>1, <2>4, SettledAfterRemoval
  <2> QED BY <2>2, <2>3, <2>4 DEF Succeeded
<1> QED BY <1>1, AlwaysSound, Shape, AlwaysHomes, PTL
=============================================================================

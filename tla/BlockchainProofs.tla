-------------------------- MODULE BlockchainProofs --------------------------
(***************************************************************************)
(* Theorems about Blockchain, for any number of nodes, operations and      *)
(* failures: type correctness, that no container is forgotten, that a mesh *)
(* is complete, and that a forced stop reaches everybody.                  *)
(*                                                                         *)
(* An operation is a sequence of calls, of which one is made after the     *)
(* other.  The invariants speak of the calls that are still due, as a set, *)
(* and of the order of their kinds.                                        *)
(***************************************************************************)
EXTENDS Blockchain, FiniteSetTheorems, SequenceTheorems, TLAPS

-----------------------------------------------------------------------------
(* Sequences and pairs                                                     *)

Values(s) == {s[i] : i \in DOMAIN s}

\* The two numbers a pair of loops makes of one index.
LEMMA DivMod ==
  ASSUME NEW n \in Nat, NEW m \in Nat \ {0}
  PROVE  n \div m \in Nat /\ n % m \in 0 .. m - 1
OBVIOUS

\* Row a and column b are found again from their index.
LEMMA DivModUnique ==
  ASSUME NEW m \in Nat \ {0}, NEW a \in Nat, NEW b \in 0 .. m - 1
  PROVE  (m * a + b) \div m = a /\ (m * a + b) % m = b
OBVIOUS

\* The index of the outer loop stays inside its sequence.
LEMMA DivBound ==
  ASSUME NEW m \in Nat \ {0}, NEW k \in Nat, NEW i \in 1 .. k * m
  PROVE  (i - 1) \div m < k
OBVIOUS

\* Row a and column b have an index.
LEMMA PairIndex ==
  ASSUME NEW m \in Nat \ {0}, NEW k \in Nat, NEW a \in 1 .. k, NEW b \in 1 .. m
  PROVE  m * (a - 1) + b \in 1 .. k * m
OBVIOUS

\* A function on 1 .. n is a sequence of length n.
LEMMA MakeSeq ==
  ASSUME NEW S, NEW n \in Nat, NEW f \in [1 .. n -> S]
  PROVE  f \in Seq(S) /\ Len(f) = n /\ DOMAIN f = 1 .. n
<1>1. f \in Seq(S)
  BY SeqDef
<1>2. DOMAIN f = 1 .. Len(f) /\ DOMAIN f = 1 .. n /\ Len(f) \in Nat
  BY <1>1, LenProperties
<1> QED BY <1>1, <1>2

\* The values of a sequence are of its type.
LEMMA ValuesType ==
  ASSUME NEW S, NEW s \in Seq(S)
  PROVE  Values(s) \subseteq S /\ \A i \in 1 .. Len(s) : s[i] \in Values(s)
BY LenProperties DEF Values

\* The empty sequence has none.
LEMMA EmptyValues == Values(<<>>) = {}
<1> DEFINE s == <<>>
<1>1. s \in Seq({}) /\ Len(s) = 0
  BY EmptySeq
<1> HIDE DEF s
<1>2. DOMAIN s = 1 .. 0
  BY <1>1, LenProperties
<1>3. Values(s) = {}
  BY <1>2 DEF Values
<1> QED BY <1>3 DEF s

\* The values of a concatenation.
LEMMA ConcatValues ==
  ASSUME NEW S, NEW s \in Seq(S), NEW t \in Seq(S)
  PROVE  s \o t \in Seq(S) /\ Values(s \o t) = Values(s) \cup Values(t)
<1>1. /\ s \o t \in Seq(S) /\ Len(s \o t) = Len(s) + Len(t)
      /\ \A i \in 1 .. Len(s) + Len(t) :
           (s \o t)[i] = IF i <= Len(s) THEN s[i] ELSE t[i - Len(s)]
  BY ConcatProperties
<1>2. /\ Len(s) \in Nat /\ Len(t) \in Nat /\ DOMAIN s = 1 .. Len(s) /\ DOMAIN t = 1 .. Len(t)
      /\ DOMAIN (s \o t) = 1 .. Len(s) + Len(t)
  BY <1>1, LenProperties
<1>3. ASSUME NEW x \in Values(s \o t) PROVE x \in Values(s) \cup Values(t)
  <2>1. PICK i \in 1 .. Len(s) + Len(t) : x = (s \o t)[i]
    BY <1>2 DEF Values
  <2>2. CASE i <= Len(s)
    <3>1. i \in 1 .. Len(s) /\ x = s[i]
      BY <1>1, <1>2, <2>1, <2>2
    <3> QED BY <1>2, <3>1 DEF Values
  <2>3. CASE ~ (i <= Len(s))
    <3>1. i - Len(s) \in 1 .. Len(t) /\ x = t[i - Len(s)]
      BY <1>1, <1>2, <2>1, <2>3
    <3> QED BY <1>2, <3>1 DEF Values
  <2> QED BY <2>2, <2>3
<1>4. ASSUME NEW x \in Values(s) PROVE x \in Values(s \o t)
  <2>1. PICK i \in 1 .. Len(s) : x = s[i]
    BY <1>2 DEF Values
  <2>2. i \in 1 .. Len(s) + Len(t) /\ (s \o t)[i] = x
    BY <1>1, <1>2, <2>1
  <2> QED BY <1>2, <2>2 DEF Values
<1>5. ASSUME NEW x \in Values(t) PROVE x \in Values(s \o t)
  <2>1. PICK i \in 1 .. Len(t) : x = t[i]
    BY <1>2 DEF Values
  <2>2. i + Len(s) \in 1 .. Len(s) + Len(t) /\ ~ (i + Len(s) <= Len(s)) /\ i + Len(s) - Len(s) = i
    BY <1>2, <2>1
  <2>3. (s \o t)[i + Len(s)] = x
    BY <1>1, <2>1, <2>2
  <2> QED BY <1>2, <2>2, <2>3 DEF Values
<1> QED BY <1>1, <1>3, <1>4, <1>5

\* The values of a pair are values of the two sequences.
LEMMA PairType ==
  ASSUME NEW S, NEW T, NEW s \in Seq(S), NEW t \in Seq(T), NEW i \in Pairs(s, t)
  PROVE  First(i, s, t) \in Values(s) /\ Second(i, t) \in Values(t)
<1>1. Len(s) \in Nat /\ Len(t) \in Nat
  BY LenProperties
<1>2. i \in 1 .. Len(s) * Len(t)
  BY DEF Pairs
<1>3. Len(t) # 0
  <2>1. Len(t) = 0 => Len(s) * Len(t) = 0
    BY <1>1
  <2> QED BY <1>1, <1>2, <2>1
<1>4. i - 1 \in Nat
  BY <1>1, <1>2
<1>5. (i - 1) \div Len(t) \in Nat /\ (i - 1) \div Len(t) < Len(s)
  BY <1>1, <1>2, <1>3, <1>4, DivMod, DivBound
<1>6. (i - 1) % Len(t) \in 0 .. Len(t) - 1
  BY <1>1, <1>3, <1>4, DivMod
<1>7. ((i - 1) \div Len(t)) + 1 \in 1 .. Len(s) /\ ((i - 1) % Len(t)) + 1 \in 1 .. Len(t)
  BY <1>1, <1>5, <1>6
<1> QED BY <1>7, ValuesType DEF First, Second

\* Every pair of values comes.
LEMMA PairExists ==
  ASSUME NEW S, NEW T, NEW s \in Seq(S), NEW t \in Seq(T),
         NEW x \in Values(s), NEW y \in Values(t)
  PROVE  \E i \in Pairs(s, t) : First(i, s, t) = x /\ Second(i, t) = y
<1>1. /\ Len(s) \in Nat /\ Len(t) \in Nat
      /\ DOMAIN s = 1 .. Len(s) /\ DOMAIN t = 1 .. Len(t)
  BY LenProperties
<1>2. PICK a \in 1 .. Len(s), b \in 1 .. Len(t) : x = s[a] /\ y = t[b]
  BY <1>1 DEF Values
<1>3. Len(t) \in Nat \ {0} /\ a - 1 \in Nat /\ b - 1 \in 0 .. Len(t) - 1
  BY <1>1
<1> DEFINE i == Len(t) * (a - 1) + b
<1>4. i \in 1 .. Len(s) * Len(t)
  BY <1>1, <1>3, PairIndex
<1>5. Len(t) * (a - 1) \in Nat
  BY <1>3
<1>6. i - 1 = Len(t) * (a - 1) + (b - 1)
  BY <1>5
<1>7. (i - 1) \div Len(t) = a - 1 /\ (i - 1) % Len(t) = b - 1
  BY <1>3, <1>6, DivModUnique
<1>8. First(i, s, t) = s[a] /\ Second(i, t) = t[b]
  BY <1>7 DEF First, Second
<1>9. i \in Pairs(s, t)
  BY <1>4 DEF Pairs
<1> QED BY <1>2, <1>8, <1>9

-----------------------------------------------------------------------------
(* Calls and operations                                                    *)

StartCall(n) == [do |-> "start", node |-> n]
ProposeCall(v, c, way) == [do |-> "propose", node |-> v, candidate |-> c, way |-> way]
KeepCall(n) == [do |-> "keep", node |-> n]
MeshCall(v, w) == [do |-> "connect", node |-> v, peer |-> w, self |-> FALSE]
RingCall(v, w) == [do |-> "connect", node |-> v, peer |-> w, self |-> TRUE]
WaitCall == [do |-> "wait"]
AssignCall == [do |-> "assign"]
StopCall(n) == [do |-> "stop", node |-> n, force |-> FALSE]
ForcedStopCall(n) == [do |-> "stop", node |-> n, force |-> TRUE]

StartSet == {StartCall(n) : n \in Nodes}
ProposeSet == {ProposeCall(v, c, way) : v \in Nodes, c \in Nodes, way \in {"in", "out"}}
KeepSet == {KeepCall(n) : n \in Nodes}
MeshSet == {MeshCall(v, w) : v \in Nodes, w \in Nodes}
RingSet == {RingCall(v, w) : v \in Nodes, w \in Nodes}
StopSet == {StopCall(n) : n \in Nodes}
ForcedStopSet == {ForcedStopCall(n) : n \in Nodes}

Calls == StartSet \cup ProposeSet \cup KeepSet \cup MeshSet \cup RingSet
           \cup {WaitCall, AssignCall} \cup StopSet \cup ForcedStopSet

Operations ==
  {[name |-> "NewBlockchain"]} \cup {[name |-> "Start", strong |-> s] : s \in BOOLEAN}
    \cup {[name |-> "AddFullnodes", requested |-> k, new |-> new] : k \in Nat, new \in Seq(Nodes)}
    \cup {[name |-> "RemoveFullnodes", candidates |-> cs] : cs \in Seq(Nodes)}
    \cup {[name |-> "Stop", force |-> f] : f \in BOOLEAN}

\* Everybody of V votes for, or against, everybody of C; V becomes a mesh.
Ballot(V, C, way) == {ProposeCall(v, c, way) : v \in V, c \in C}
Mesh(V) == {MeshCall(v, w) : v \in V, w \in V}

\* The kinds of calls in the order in which every operation makes them.
Rank(call) ==
  IF call.do = "start" THEN 1
  ELSE IF call.do \in {"propose", "keep"} THEN 2
  ELSE IF call.do \in {"connect", "wait"} THEN 3
  ELSE IF call.do = "assign" THEN 4 ELSE 5

Increasing(s) == \A i, j \in DOMAIN s : i <= j => Rank(s[i]) <= Rank(s[j])

\* What a call is, told from its kind.
LEMMA CallForms ==
  ASSUME NEW c \in Calls
  PROVE  /\ c.do \in {"start", "propose", "keep", "connect", "wait", "assign", "stop"}
         /\ c.do = "start" => c.node \in Nodes /\ c = StartCall(c.node)
         /\ c.do = "propose" => /\ c.node \in Nodes /\ c.candidate \in Nodes
                                /\ c.way \in {"in", "out"}
                                /\ c = ProposeCall(c.node, c.candidate, c.way)
         /\ c.do = "keep" => c.node \in Nodes /\ c = KeepCall(c.node)
         /\ c.do = "connect" => /\ c.node \in Nodes /\ c.peer \in Nodes
                                /\ \/ c = MeshCall(c.node, c.peer) /\ ~ c.self
                                   \/ c = RingCall(c.node, c.peer) /\ c.self
         /\ c.do = "wait" => c = WaitCall
         /\ c.do = "assign" => c = AssignCall
         /\ c.do = "stop" => /\ c.node \in Nodes
                             /\ \/ c = StopCall(c.node) /\ ~ c.force
                                \/ c = ForcedStopCall(c.node) /\ c.force
<1>1. CASE c \in StartSet
  BY <1>1 DEF StartSet, StartCall
<1>2. CASE c \in ProposeSet
  BY <1>2 DEF ProposeSet, ProposeCall
<1>3. CASE c \in KeepSet
  BY <1>3 DEF KeepSet, KeepCall
<1>4. CASE c \in MeshSet \cup RingSet
  <2>1. PICK v \in Nodes, w \in Nodes : c = MeshCall(v, w) \/ c = RingCall(v, w)
    BY <1>4 DEF MeshSet, RingSet
  <2>2. c.do = "connect" /\ c.node = v /\ c.peer = w
    BY <2>1 DEF MeshCall, RingCall
  <2>3. (c = MeshCall(v, w) => ~ c.self) /\ (c = RingCall(v, w) => c.self)
    BY DEF MeshCall, RingCall
  <2> QED BY <2>1, <2>2, <2>3
<1>5. CASE c \in {WaitCall, AssignCall}
  BY <1>5 DEF WaitCall, AssignCall
<1>6. CASE c \in StopSet \cup ForcedStopSet
  <2>1. PICK n \in Nodes : c = StopCall(n) \/ c = ForcedStopCall(n)
    BY <1>6 DEF StopSet, ForcedStopSet
  <2>2. c.do = "stop" /\ c.node = n
    BY <2>1 DEF StopCall, ForcedStopCall
  <2>3. (c = StopCall(n) => ~ c.force) /\ (c = ForcedStopCall(n) => c.force)
    BY DEF StopCall, ForcedStopCall
  <2> QED BY <2>1, <2>2, <2>3
<1> QED BY <1>1, <1>2, <1>3, <1>4, <1>5, <1>6 DEF Calls

\* There are five ranks.
LEMMA RankType == ASSUME NEW c \in Calls PROVE Rank(c) \in 1 .. 5
BY DEF Rank

\* What an operation is, told from its name.
LEMMA OperationForms ==
  ASSUME NEW o \in Operations
  PROVE  /\ o.name \in {"NewBlockchain", "Start", "AddFullnodes", "RemoveFullnodes", "Stop"}
         /\ o.name = "Start" => o.strong \in BOOLEAN
         /\ o.name = "AddFullnodes" => o.new \in Seq(Nodes)
         /\ o.name = "RemoveFullnodes" => o.candidates \in Seq(Nodes)
         /\ o.name = "Stop" => o.force \in BOOLEAN
BY DEF Operations

\* Calls of rank k at most before calls of rank k at least are in order.
LEMMA ConcatIncreasing ==
  ASSUME NEW s \in Seq(Calls), NEW t \in Seq(Calls), NEW k \in Nat,
         Increasing(s), Increasing(t),
         \A c \in Values(s) : Rank(c) <= k, \A c \in Values(t) : Rank(c) >= k
  PROVE  Increasing(s \o t)
<1>1. /\ Len(s \o t) = Len(s) + Len(t) /\ s \o t \in Seq(Calls)
      /\ \A i \in 1 .. Len(s) + Len(t) :
           (s \o t)[i] = IF i <= Len(s) THEN s[i] ELSE t[i - Len(s)]
  BY ConcatProperties
<1>2. /\ Len(s) \in Nat /\ Len(t) \in Nat /\ DOMAIN s = 1 .. Len(s) /\ DOMAIN t = 1 .. Len(t)
      /\ DOMAIN (s \o t) = 1 .. Len(s) + Len(t)
  BY <1>1, LenProperties
<1> SUFFICES ASSUME NEW i \in 1 .. Len(s) + Len(t), NEW j \in 1 .. Len(s) + Len(t), i <= j
             PROVE  Rank((s \o t)[i]) <= Rank((s \o t)[j])
  BY <1>2 DEF Increasing
<1>3. /\ (s \o t)[i] = IF i <= Len(s) THEN s[i] ELSE t[i - Len(s)]
      /\ (s \o t)[j] = IF j <= Len(s) THEN s[j] ELSE t[j - Len(s)]
  BY <1>1
<1>4. CASE j <= Len(s)
  <2>1. i \in 1 .. Len(s) /\ j \in 1 .. Len(s)
    BY <1>2, <1>4
  <2> QED BY <1>2, <1>3, <1>4, <2>1 DEF Increasing
<1>5. CASE ~ (i <= Len(s))
  <2>1. /\ i - Len(s) \in 1 .. Len(t) /\ j - Len(s) \in 1 .. Len(t)
        /\ i - Len(s) <= j - Len(s) /\ ~ (j <= Len(s))
    BY <1>2, <1>5
  <2> QED BY <1>2, <1>3, <1>5, <2>1 DEF Increasing
<1>6. CASE i <= Len(s) /\ ~ (j <= Len(s))
  <2>1. i \in 1 .. Len(s) /\ j - Len(s) \in 1 .. Len(t)
    BY <1>2, <1>6
  <2>2. s[i] \in Values(s) /\ t[j - Len(s)] \in Values(t)
    BY <1>2, <2>1 DEF Values
  <2>3. s[i] \in Calls /\ t[j - Len(s)] \in Calls
    BY <2>2, ValuesType
  <2>4. Rank(s[i]) \in 1 .. 5 /\ Rank(t[j - Len(s)]) \in 1 .. 5
    BY <2>3, RankType
  <2>5. Rank(s[i]) <= k /\ k <= Rank(t[j - Len(s)])
    BY <2>2
  <2>6. Rank(s[i]) <= Rank(t[j - Len(s)])
    BY <2>4, <2>5
  <2> QED BY <1>3, <1>6, <2>6
<1> QED BY <1>4, <1>5, <1>6

\* Calls of one rank are in order.
LEMMA FlatIncreasing ==
  ASSUME NEW s \in Seq(Calls), NEW k \in Nat, \A c \in Values(s) : Rank(c) = k
  PROVE  Increasing(s)
<1> SUFFICES ASSUME NEW i \in DOMAIN s, NEW j \in DOMAIN s
             PROVE  Rank(s[i]) <= Rank(s[j])
  BY DEF Increasing
<1>1. s[i] \in Values(s) /\ s[j] \in Values(s)
  BY DEF Values
<1> QED BY <1>1

\* One block of calls before another.
LEMMA Blocks ==
  ASSUME NEW s \in Seq(Calls), NEW t \in Seq(Calls), NEW k \in Nat, NEW l \in Nat, k <= l,
         Increasing(s), Increasing(t),
         \A c \in Values(s) : Rank(c) <= k, \A c \in Values(t) : Rank(c) >= l
  PROVE  /\ s \o t \in Seq(Calls) /\ Increasing(s \o t)
         /\ Values(s \o t) = Values(s) \cup Values(t)
<1>1. \A c \in Values(t) : Rank(c) >= k
  <2>1. \A c \in Values(t) : Rank(c) \in 1 .. 5
    BY ValuesType, RankType
  <2> QED BY <2>1
<1> QED BY <1>1, ConcatIncreasing, ConcatValues

-----------------------------------------------------------------------------
(* The calls of the operations                                             *)

\* A call is of its kind, and has the rank of its kind.
LEMMA CallTypes ==
  /\ \A n \in Nodes : StartCall(n) \in Calls /\ Rank(StartCall(n)) = 1
  /\ \A v, c \in Nodes : \A way \in {"in", "out"} :
       ProposeCall(v, c, way) \in Calls /\ Rank(ProposeCall(v, c, way)) = 2
  /\ \A n \in Nodes : KeepCall(n) \in Calls /\ Rank(KeepCall(n)) = 2
  /\ \A v, w \in Nodes : /\ MeshCall(v, w) \in Calls /\ Rank(MeshCall(v, w)) = 3
                        /\ RingCall(v, w) \in Calls /\ Rank(RingCall(v, w)) = 3
  /\ WaitCall \in Calls /\ Rank(WaitCall) = 3 /\ AssignCall \in Calls /\ Rank(AssignCall) = 4
  /\ \A n \in Nodes : /\ StopCall(n) \in Calls /\ Rank(StopCall(n)) = 5
                     /\ ForcedStopCall(n) \in Calls /\ Rank(ForcedStopCall(n)) = 5
<1>1. \A n \in Nodes : StartCall(n) \in Calls /\ KeepCall(n) \in Calls
  BY DEF Calls, StartSet, KeepSet
<1>2. \A v, c \in Nodes : \A way \in {"in", "out"} : ProposeCall(v, c, way) \in Calls
  BY DEF Calls, ProposeSet
<1>3. \A v, w \in Nodes : MeshCall(v, w) \in Calls /\ RingCall(v, w) \in Calls
  BY DEF Calls, MeshSet, RingSet
<1>4. \A n \in Nodes : StopCall(n) \in Calls /\ ForcedStopCall(n) \in Calls
  BY DEF Calls, StopSet, ForcedStopSet
<1>5. WaitCall \in Calls /\ AssignCall \in Calls
  BY DEF Calls
<1>6. /\ \A n : Rank(StartCall(n)) = 1 /\ Rank(KeepCall(n)) = 2
      /\ \A v, c, way : Rank(ProposeCall(v, c, way)) = 2
      /\ \A v, w : Rank(MeshCall(v, w)) = 3 /\ Rank(RingCall(v, w)) = 3
      /\ Rank(WaitCall) = 3 /\ Rank(AssignCall) = 4
      /\ \A n : Rank(StopCall(n)) = 5 /\ Rank(ForcedStopCall(n)) = 5
  BY DEF Rank, StartCall, KeepCall, ProposeCall, MeshCall, RingCall, WaitCall, AssignCall,
         StopCall, ForcedStopCall
<1> QED BY <1>1, <1>2, <1>3, <1>4, <1>5, <1>6

\* One call for each node.
LEMMA StartCallsAre ==
  ASSUME NEW ns \in Seq(Nodes)
  PROVE  /\ StartCalls(ns) \in Seq(Calls)
         /\ Values(StartCalls(ns)) = {StartCall(n) : n \in Values(ns)}
<1>1. Len(ns) \in Nat /\ DOMAIN ns = 1 .. Len(ns) /\ \A i \in DOMAIN ns : ns[i] \in Nodes
  BY LenProperties
<1>2. StartCalls(ns) = [i \in 1 .. Len(ns) |-> StartCall(ns[i])]
  BY <1>1 DEF StartCalls, StartCall
<1>3. StartCalls(ns) \in [1 .. Len(ns) -> Calls]
  BY <1>1, <1>2, CallTypes
<1>4. StartCalls(ns) \in Seq(Calls)
  BY <1>1, <1>3, MakeSeq
<1>5. Values(StartCalls(ns)) = {StartCall(n) : n \in Values(ns)}
  BY <1>1, <1>2 DEF Values
<1> QED BY <1>4, <1>5

\* The stops of RemoveFullnodes, one for each candidate.
LEMMA StopCallsAre ==
  ASSUME NEW ns \in Seq(Nodes)
  PROVE  /\ StopCalls(ns, FALSE) \in Seq(Calls)
         /\ Values(StopCalls(ns, FALSE)) = {StopCall(n) : n \in Values(ns)}
<1> DEFINE calls == StopCalls(ns, FALSE)
<1>1. Len(ns) \in Nat /\ DOMAIN ns = 1 .. Len(ns) /\ \A i \in DOMAIN ns : ns[i] \in Nodes
  BY LenProperties
<1>2. calls = [i \in 1 .. Len(ns) |-> StopCall(ns[i])]
  BY <1>1 DEF StopCalls, StopCall
<1> HIDE DEF calls
<1>3. calls \in [1 .. Len(ns) -> Calls]
  BY <1>1, <1>2, CallTypes
<1>4. calls \in Seq(Calls)
  BY <1>1, <1>3, MakeSeq
<1>5. Values(calls) = {StopCall(n) : n \in Values(ns)}
  BY <1>1, <1>2 DEF Values
<1> QED BY <1>4, <1>5 DEF calls

\* The stops of Stop(true), one for each fullnode.
LEMMA ForcedStopCallsAre ==
  ASSUME NEW ns \in Seq(Nodes)
  PROVE  /\ StopCalls(ns, TRUE) \in Seq(Calls)
         /\ Values(StopCalls(ns, TRUE)) = {ForcedStopCall(n) : n \in Values(ns)}
<1> DEFINE calls == StopCalls(ns, TRUE)
<1>1. Len(ns) \in Nat /\ DOMAIN ns = 1 .. Len(ns) /\ \A i \in DOMAIN ns : ns[i] \in Nodes
  BY LenProperties
<1>2. calls = [i \in 1 .. Len(ns) |-> ForcedStopCall(ns[i])]
  BY <1>1 DEF StopCalls, ForcedStopCall
<1> HIDE DEF calls
<1>3. calls \in [1 .. Len(ns) -> Calls]
  BY <1>1, <1>2, CallTypes
<1>4. calls \in Seq(Calls)
  BY <1>1, <1>3, MakeSeq
<1>5. Values(calls) = {ForcedStopCall(n) : n \in Values(ns)}
  BY <1>1, <1>2 DEF Values
<1> QED BY <1>4, <1>5 DEF calls

\* One call for each pair.
LEMMA PairDomain ==
  ASSUME NEW S, NEW T, NEW s \in Seq(S), NEW t \in Seq(T), NEW f \in [Pairs(s, t) -> Calls]
  PROVE  f \in Seq(Calls)
<1>1. Len(s) * Len(t) \in Nat
  BY LenProperties
<1> QED BY <1>1, MakeSeq DEF Pairs

\* The nested loops of AddFullnodes: every voter is asked for every candidate.
LEMMA ProposeCallsAre ==
  ASSUME NEW vs \in Seq(Nodes), NEW cs \in Seq(Nodes)
  PROVE  /\ ProposeCalls(vs, cs) \in Seq(Calls)
         /\ Values(ProposeCalls(vs, cs)) =
              Ballot(Values(vs), Values(cs), "in")
<1>1. ProposeCalls(vs, cs) =
        [i \in Pairs(vs, cs) |-> ProposeCall(First(i, vs, cs), Second(i, cs), "in")]
  BY DEF ProposeCalls, ProposeCall
<1>2. \A i \in Pairs(vs, cs) :
        /\ First(i, vs, cs) \in Values(vs) /\ Second(i, cs) \in Values(cs)
        /\ First(i, vs, cs) \in Nodes /\ Second(i, cs) \in Nodes
  BY PairType, ValuesType
<1>3. ProposeCalls(vs, cs) \in [Pairs(vs, cs) -> Calls]
  BY <1>1, <1>2, CallTypes
<1>4. ASSUME NEW v \in Values(vs), NEW c \in Values(cs)
      PROVE  ProposeCall(v, c, "in") \in Values(ProposeCalls(vs, cs))
  <2>1. PICK i \in Pairs(vs, cs) : First(i, vs, cs) = v /\ Second(i, cs) = c
    BY PairExists
  <2> QED BY <1>1, <2>1 DEF Values
<1>5. ASSUME NEW call \in Values(ProposeCalls(vs, cs))
      PROVE  \E v \in Values(vs), c \in Values(cs) : call = ProposeCall(v, c, "in")
  <2>1. PICK i \in Pairs(vs, cs) : call = ProposeCall(First(i, vs, cs), Second(i, cs), "in")
    BY <1>1 DEF Values
  <2> QED BY <1>2, <2>1
<1>6. Values(ProposeCalls(vs, cs)) = Ballot(Values(vs), Values(cs), "in")
  BY <1>4, <1>5 DEF Ballot
<1> QED BY <1>3, <1>6, PairDomain

\* The nested loops of connectAll: everybody is connected to everybody.
LEMMA MeshCallsAre ==
  ASSUME NEW ns \in Seq(Nodes)
  PROVE  /\ ConnectCalls(ns, TRUE) \in Seq(Calls)
         /\ Values(ConnectCalls(ns, TRUE)) =
              Mesh(Values(ns))
<1> DEFINE calls == ConnectCalls(ns, TRUE)
<1>1. calls = [i \in Pairs(ns, ns) |-> MeshCall(First(i, ns, ns), Second(i, ns))]
  BY DEF ConnectCalls, MeshCall
<1> HIDE DEF calls
<1>2. \A i \in Pairs(ns, ns) :
        /\ First(i, ns, ns) \in Values(ns) /\ Second(i, ns) \in Values(ns)
        /\ First(i, ns, ns) \in Nodes /\ Second(i, ns) \in Nodes
  BY PairType, ValuesType
<1>3. calls \in [Pairs(ns, ns) -> Calls]
  BY <1>1, <1>2, CallTypes
<1>4. ASSUME NEW v \in Values(ns), NEW w \in Values(ns)
      PROVE  MeshCall(v, w) \in Values(calls)
  <2>1. PICK i \in Pairs(ns, ns) : First(i, ns, ns) = v /\ Second(i, ns) = w
    BY PairExists
  <2> QED BY <1>1, <2>1 DEF Values
<1>5. ASSUME NEW call \in Values(calls)
      PROVE  \E v \in Values(ns), w \in Values(ns) : call = MeshCall(v, w)
  <2>1. PICK i \in Pairs(ns, ns) : call = MeshCall(First(i, ns, ns), Second(i, ns))
    BY <1>1 DEF Values
  <2> QED BY <1>2, <2>1
<1>6. Values(calls) = Mesh(Values(ns))
  BY <1>4, <1>5 DEF Mesh
<1>7. calls \in Seq(Calls)
  BY <1>3, PairDomain
<1> QED BY <1>6, <1>7 DEF calls

\* Of a ring only that it is made of connections.
LEMMA RingCallsAre ==
  ASSUME NEW ns \in Seq(Nodes)
  PROVE  /\ ConnectCalls(ns, FALSE) \in Seq(Calls)
         /\ Values(ConnectCalls(ns, FALSE)) \subseteq RingSet
<1> DEFINE calls == ConnectCalls(ns, FALSE)
<1>1. Len(ns) \in Nat /\ DOMAIN ns = 1 .. Len(ns) /\ \A i \in DOMAIN ns : ns[i] \in Nodes
  BY LenProperties
<1>2. calls = [i \in 1 .. Len(ns) |-> RingCall(ns[i], ns[(i % Len(ns)) + 1])]
  BY <1>1 DEF ConnectCalls, RingCall
<1> HIDE DEF calls
<1>3. ASSUME NEW i \in 1 .. Len(ns) PROVE ns[(i % Len(ns)) + 1] \in Nodes
  <2>1. Len(ns) \in Nat \ {0} /\ i \in Nat
    BY <1>1
  <2>2. i % Len(ns) \in 0 .. Len(ns) - 1
    BY <2>1, DivMod
  <2>3. (i % Len(ns)) + 1 \in 1 .. Len(ns)
    BY <2>1, <2>2
  <2> QED BY <1>1, <2>3
<1>4. \A i \in 1 .. Len(ns) : RingCall(ns[i], ns[(i % Len(ns)) + 1]) \in RingSet
  BY <1>1, <1>3 DEF RingSet
<1>5. calls \in [1 .. Len(ns) -> Calls]
  BY <1>2, <1>4 DEF Calls
<1>6. calls \in Seq(Calls)
  BY <1>1, <1>5, MakeSeq
<1>7. Values(calls) \subseteq RingSet
  BY <1>2, <1>4 DEF Values
<1> QED BY <1>6, <1>7 DEF calls

\* The loops of RemoveFullnodes.
LEMMA RemovalCallsAre ==
  ASSUME NEW vs \in Seq(Nodes), NEW cs \in Seq(Nodes)
  PROVE  /\ RemovalCalls(vs, cs) \in Seq(Calls)
         /\ Values(RemovalCalls(vs, cs)) =
              Ballot(Values(vs), Values(cs), "out")
                \cup {KeepCall(v) : v \in Values(vs)}
<1> DEFINE row == Append(cs, EndOfRow)
           calls == RemovalCalls(vs, cs)
           For(v, c) == IF c = EndOfRow THEN KeepCall(v) ELSE ProposeCall(v, c, "out")
<1>1. row \in Seq(0 .. MaxNodes) /\ Values(row) = Values(cs) \cup {EndOfRow}
  <2>1. /\ cs \in Seq(0 .. MaxNodes) /\ EndOfRow \in 0 .. MaxNodes
    BY SeqMonotonic, SizesAssumption DEF Nodes, EndOfRow
  <2>2. /\ row \in Seq(0 .. MaxNodes) /\ Len(row) = Len(cs) + 1
        /\ \A i \in 1 .. Len(cs) : row[i] = cs[i]
        /\ row[Len(cs) + 1] = EndOfRow
    BY <2>1, AppendProperties
  <2>3. Len(cs) \in Nat /\ DOMAIN cs = 1 .. Len(cs) /\ DOMAIN row = 1 .. Len(cs) + 1
    BY <2>2, LenProperties
  <2>4. \A i \in 1 .. Len(cs) + 1 : i \in 1 .. Len(cs) \/ i = Len(cs) + 1
    BY <2>3
  <2>5. 1 .. Len(cs) \subseteq 1 .. Len(cs) + 1 /\ Len(cs) + 1 \in 1 .. Len(cs) + 1
    BY <2>3
  <2>6. Values(row) = Values(cs) \cup {EndOfRow}
    BY <2>2, <2>3, <2>4, <2>5 DEF Values
  <2> QED BY <2>2, <2>6
<1>2. EndOfRow \notin Values(cs) /\ Values(cs) \subseteq Nodes /\ Values(vs) \subseteq Nodes
  <2>1. EndOfRow \notin Nodes
    BY DEF EndOfRow, Nodes
  <2> QED BY <2>1, ValuesType
<1>3. calls = [i \in Pairs(vs, row) |-> For(First(i, vs, row), Second(i, row))]
  BY DEF RemovalCalls, ProposeCall, KeepCall
<1> HIDE DEF row
<1>4. \A i \in Pairs(vs, row) :
        First(i, vs, row) \in Values(vs) /\ Second(i, row) \in Values(cs) \cup {EndOfRow}
  BY <1>1, PairType
<1>5. \A v \in Values(vs), c \in Values(cs) \cup {EndOfRow} : For(v, c) \in Calls
  BY <1>2, CallTypes
<1>6. calls \in [Pairs(vs, row) -> Calls]
  BY <1>3, <1>4, <1>5
<1>7. calls \in Seq(Calls)
  BY <1>1, <1>6, PairDomain
<1>8. ASSUME NEW v \in Values(vs), NEW c \in Values(cs) \cup {EndOfRow}
      PROVE  For(v, c) \in Values(calls)
  <2>1. PICK i \in Pairs(vs, row) : First(i, vs, row) = v /\ Second(i, row) = c
    BY <1>1, PairExists
  <2> QED BY <1>3, <2>1 DEF Values
<1>9. ASSUME NEW call \in Values(calls)
      PROVE  \E v \in Values(vs), c \in Values(cs) \cup {EndOfRow} : call = For(v, c)
  <2>1. PICK i \in Pairs(vs, row) : call = For(First(i, vs, row), Second(i, row))
    BY <1>3 DEF Values
  <2> QED BY <1>4, <2>1
<1>10. \A v \in Values(vs) : KeepCall(v) \in Values(calls)
  BY <1>8
<1>11. \A v \in Values(vs), c \in Values(cs) : ProposeCall(v, c, "out") \in Values(calls)
  BY <1>2, <1>8
<1>12. \A call \in Values(calls) :
         \/ \E v \in Values(vs) : call = KeepCall(v)
         \/ \E v \in Values(vs), c \in Values(cs) : call = ProposeCall(v, c, "out")
  BY <1>9
<1>13. Values(calls) = Ballot(Values(vs), Values(cs), "out") \cup {KeepCall(v) : v \in Values(vs)}
  BY <1>10, <1>11, <1>12 DEF Ballot
<1> QED BY <1>7, <1>13

-----------------------------------------------------------------------------
(* The plans of the operations                                             *)

\* Start: the nodes, and then the connections.
LEMMA StartPlan ==
  ASSUME NEW ns \in Seq(Nodes), NEW cs \in Seq(Calls), Values(cs) \subseteq MeshSet \cup RingSet
  PROVE  /\ StartCalls(ns) \o cs \in Seq(Calls) /\ Increasing(StartCalls(ns) \o cs)
         /\ Values(StartCalls(ns) \o cs) = {StartCall(n) : n \in Values(ns)} \cup Values(cs)
<1>0. Values(ns) \subseteq Nodes
  BY ValuesType
<1>1. /\ StartCalls(ns) \in Seq(Calls)
      /\ Values(StartCalls(ns)) = {StartCall(n) : n \in Values(ns)}
  BY StartCallsAre
<1>2. \A c \in Values(StartCalls(ns)) : Rank(c) = 1
  BY <1>0, <1>1, CallTypes
<1>3. \A c \in Values(cs) : Rank(c) = 3
  BY CallTypes DEF MeshSet, RingSet
<1>4. Increasing(StartCalls(ns)) /\ Increasing(cs)
  BY <1>1, <1>2, <1>3, FlatIncreasing
<1>5. /\ \A c \in Values(StartCalls(ns)) : Rank(c) <= 1
      /\ \A c \in Values(cs) : Rank(c) >= 3
  BY <1>2, <1>3
<1> QED BY <1>1, <1>4, <1>5, Blocks

\* AddFullnodes: the new nodes, the votes of the old ones, the mesh.
LEMMA AddPlan ==
  ASSUME NEW old \in Seq(Nodes), NEW new \in Seq(Nodes)
  PROVE  LET calls == StartCalls(new) \o ProposeCalls(old, new) \o ConnectCalls(old \o new, TRUE)
             all == Values(old) \cup Values(new) IN
         /\ calls \in Seq(Calls) /\ Increasing(calls)
         /\ Values(calls) = {StartCall(n) : n \in Values(new)}
                              \cup Ballot(Values(old), Values(new), "in")
                              \cup Mesh(all)
<1> DEFINE all == Values(old) \cup Values(new)
           mesh == ConnectCalls(old \o new, TRUE)
<1>0. Values(old) \subseteq Nodes /\ Values(new) \subseteq Nodes
  BY ValuesType
<1>1. /\ StartCalls(new) \in Seq(Calls)
      /\ Values(StartCalls(new)) = {StartCall(n) : n \in Values(new)}
  BY StartCallsAre
<1>2. /\ ProposeCalls(old, new) \in Seq(Calls)
      /\ Values(ProposeCalls(old, new)) =
           Ballot(Values(old), Values(new), "in")
  BY ProposeCallsAre
<1>3. old \o new \in Seq(Nodes) /\ Values(old \o new) = all
  BY ConcatValues
<1>4. mesh \in Seq(Calls) /\ Values(mesh) = Mesh(all)
  BY <1>3, MeshCallsAre
<1> HIDE DEF all, mesh
<1>5. /\ \A c \in Values(StartCalls(new)) : Rank(c) = 1
      /\ \A c \in Values(ProposeCalls(old, new)) : Rank(c) = 2
  BY <1>0, <1>1, <1>2, CallTypes DEF Ballot
<1>6. \A c \in Values(mesh) : Rank(c) = 3
  BY <1>0, <1>4, CallTypes DEF all, Mesh
<1>7. Increasing(StartCalls(new)) /\ Increasing(ProposeCalls(old, new)) /\ Increasing(mesh)
  BY <1>1, <1>2, <1>4, <1>5, <1>6, FlatIncreasing
<1> DEFINE begin == StartCalls(new) \o ProposeCalls(old, new)
<1>8. /\ begin \in Seq(Calls) /\ Increasing(begin)
      /\ Values(begin) = Values(StartCalls(new)) \cup Values(ProposeCalls(old, new))
  <2>1. /\ \A c \in Values(StartCalls(new)) : Rank(c) <= 1
        /\ \A c \in Values(ProposeCalls(old, new)) : Rank(c) >= 2
    BY <1>5
  <2> QED BY <1>1, <1>2, <1>7, <2>1, Blocks
<1>9. /\ \A c \in Values(begin) : Rank(c) <= 2
      /\ \A c \in Values(mesh) : Rank(c) >= 3
  BY <1>5, <1>6, <1>8
<1>10. /\ begin \o mesh \in Seq(Calls) /\ Increasing(begin \o mesh)
       /\ Values(begin \o mesh) = Values(begin) \cup Values(mesh)
  <2> HIDE DEF begin
  <2> QED BY <1>4, <1>7, <1>8, <1>9, Blocks
<1> QED BY <1>1, <1>2, <1>4, <1>8, <1>10 DEF all, mesh

\* RemoveFullnodes: the votes of all, the wait, the new list, the stops.
LEMMA RemovePlan ==
  ASSUME NEW vs \in Seq(Nodes), NEW cs \in Seq(Nodes)
  PROVE  LET calls == RemovalCalls(vs, cs) \o <<WaitCall, AssignCall>> \o StopCalls(cs, FALSE) IN
         /\ calls \in Seq(Calls) /\ Increasing(calls)
         /\ Values(calls) = Ballot(Values(vs), Values(cs), "out")
                              \cup {KeepCall(v) : v \in Values(vs)}
                              \cup {WaitCall, AssignCall} \cup {StopCall(n) : n \in Values(cs)}
<1> DEFINE votes == RemovalCalls(vs, cs)
           middle == <<WaitCall, AssignCall>>
           stops == StopCalls(cs, FALSE)
           begin == votes \o middle
<1>0. Values(vs) \subseteq Nodes /\ Values(cs) \subseteq Nodes
  BY ValuesType
<1>1. /\ votes \in Seq(Calls)
      /\ Values(votes) = Ballot(Values(vs), Values(cs), "out")
                           \cup {KeepCall(v) : v \in Values(vs)}
  BY RemovalCallsAre
<1>2. stops \in Seq(Calls) /\ Values(stops) = {StopCall(n) : n \in Values(cs)}
  BY StopCallsAre
<1>3. /\ middle \in Seq(Calls) /\ Values(middle) = {WaitCall, AssignCall}
      /\ Increasing(middle)
  <2>1. WaitCall \in Calls /\ AssignCall \in Calls /\ Rank(WaitCall) = 3 /\ Rank(AssignCall) = 4
    BY CallTypes
  <2>2. middle \in Seq(Calls) /\ DOMAIN middle = 1 .. 2 /\ middle[1] = WaitCall
        /\ middle[2] = AssignCall
    BY <2>1
  <2>3. 1 .. 2 = {1, 2}
    OBVIOUS
  <2> HIDE DEF middle
  <2>4. Values(middle) = {WaitCall, AssignCall}
    BY <2>2, <2>3 DEF Values
  <2>5. Increasing(middle)
    BY <2>1, <2>2, <2>3 DEF Increasing
  <2> QED BY <2>2, <2>4, <2>5
<1> HIDE DEF votes, middle, stops
<1>4. \A c \in Values(votes) : Rank(c) = 2
  BY <1>0, <1>1, CallTypes DEF Ballot
<1>5. \A c \in Values(stops) : Rank(c) = 5
  BY <1>0, <1>2, CallTypes
<1>6. \A c \in Values(middle) : Rank(c) \in 3 .. 4
  BY <1>3, CallTypes
<1>7. Increasing(votes) /\ Increasing(stops)
  BY <1>1, <1>2, <1>4, <1>5, FlatIncreasing
<1>8. /\ begin \in Seq(Calls) /\ Increasing(begin)
      /\ Values(begin) = Values(votes) \cup Values(middle)
  <2>1. (\A c \in Values(votes) : Rank(c) <= 2) /\ (\A c \in Values(middle) : Rank(c) >= 3)
    BY <1>4, <1>6
  <2>2. votes \in Seq(Calls) /\ middle \in Seq(Calls) /\ Increasing(votes) /\ Increasing(middle)
    BY <1>1, <1>3, <1>7
  <2> QED BY <2>1, <2>2, Blocks
<1>9. (\A c \in Values(begin) : Rank(c) <= 4) /\ (\A c \in Values(stops) : Rank(c) >= 5)
  <2> HIDE DEF begin
  <2>1. \A c \in Values(begin) : c \in Values(votes) \/ c \in Values(middle)
    BY <1>8
  <2>2. \A c \in Values(begin) : Rank(c) \in 2 .. 4
    BY <1>4, <1>6, <2>1
  <2> QED BY <1>5, <2>2
<1>10. /\ begin \o stops \in Seq(Calls) /\ Increasing(begin \o stops)
       /\ Values(begin \o stops) = Values(begin) \cup Values(stops)
  <2> HIDE DEF begin
  <2> QED BY <1>2, <1>7, <1>8, <1>9, Blocks
<1> QED BY <1>1, <1>2, <1>3, <1>8, <1>10 DEF votes, middle, stops

-----------------------------------------------------------------------------
(* The state of an operation                                               *)

Due == Values(todo)
Kept == Values(newFullnodes)
Leaving == IF op.name = "RemoveFullnodes" THEN Values(op.candidates) ELSE {}
Joining == IF op.name = "AddFullnodes" THEN Values(op.new) ELSE {}

\* As long as no operation has failed and the chain is not being stopped.
Fine == result \in {"nil", "busy"} /\ op.name # "Stop"

\* The type invariant, with all that is known of calls and operations.
Typed ==
  /\ fullnodes \in Seq(Nodes) /\ newFullnodes \in Seq(Nodes) /\ created \in 0 .. MaxNodes
  /\ container \in [Nodes -> {"none", "running", "exited", "removed"}]
  /\ address \subseteq Nodes /\ peers \subseteq Nodes \X Nodes
  /\ proposal \in [Nodes -> [Nodes -> {"none", "in", "out"}]]
  /\ validators \subseteq Nodes
  /\ op \in Operations /\ todo \in Seq(Calls)
  /\ result \in {"busy", "nil", "error", "panic"}
  /\ ops \in 0 .. MaxOps /\ faults \in 0 .. MaxFaults

\* A call belongs to the operation under way and is about its nodes.
Fits(c) ==
  /\ c.do \in {"start", "connect"} => op.name \in {"Start", "AddFullnodes"}
  /\ c.do = "propose" =>
       /\ c.node \in 1 .. created
       /\ \/ op.name = "AddFullnodes" /\ c.way = "in" /\ c.candidate \in Joining
          \/ op.name = "RemoveFullnodes" /\ c.way = "out" /\ c.candidate \in Leaving
  /\ c.do \in {"keep", "wait", "assign"} => op.name = "RemoveFullnodes"
  /\ c.do = "keep" => c.node \in 1 .. created
  /\ c.do = "stop" =>
       \/ op.name = "RemoveFullnodes" /\ c.node \in Leaving /\ ~ c.force
       \/ op.name = "Stop" /\ (c.force <=> op.force)

\* What the calls that are due have to do with the operation.
Ordered ==
  /\ Increasing(todo)
  /\ result # "busy" => todo = <<>>
  /\ op.name = "NewBlockchain" => result = "nil"
  /\ \A c \in Due : Fits(c)

\* Only nodes that have been created are in the lists and in the votes.
Created ==
  /\ Members \cup Kept \cup Leaving \cup Joining \subseteq 1 .. created
  /\ Joining \subseteq Members
  /\ \A v, c \in Nodes :
       v \notin 1 .. created \/ c \notin 1 .. created => proposal[v][c] = "none"

\* The members are the values of the list.
LEMMA MembersAre == Members = Values(fullnodes)
BY DEF Members, Values

\* What a step does to the operation: it makes the first call that is due, or
\* ends the operation, or lets it be.
Advanced == todo # <<>> /\ todo' = Tail(todo) /\ UNCHANGED result
GiveUp == todo' = <<>> /\ result' \in {"error", "panic"}
Finish == result = "busy" /\ todo = <<>> /\ result' = "nil" /\ UNCHANGED todo

Silent == (\E n \in Nodes : Tally(n) \/ Crash(n)) \/ UNCHANGED vars

\* A step makes the first call due, gives up, returns, or lets the operation be.
LEMMA StepForms ==
  ASSUME Step \/ Silent
  PROVE  /\ UNCHANGED <<created, op, ops>>
         /\ UNCHANGED <<todo, result>> \/ (result = "busy" /\ (Advanced \/ GiveUp \/ Finish))
         /\ Leaving' = Leaving /\ Joining' = Joining
<1>1. UNCHANGED <<created, op, ops>>
  BY DEF Step, StartNode, Propose, Keep, Connect, Wait, Assign, StopNode, Return, Silent, Tally,
         Crash, harness, nodeVars, vars
<1>2. CASE StartNode \/ Propose \/ Keep \/ Connect \/ Wait \/ Assign
  <2>1. result = "busy" /\ todo # <<>>
    BY <1>2 DEF StartNode, Propose, Keep, Connect, Wait, Assign, Doing
  <2>2. Continue \/ Abort("error") \/ Abort("panic")
    BY <1>2 DEF StartNode, Propose, Keep, Connect, Wait, Assign
  <2> QED BY <1>1, <2>1, <2>2 DEF Continue, Abort, Advanced, GiveUp, Leaving, Joining
<1>3. CASE StopNode
  <2>1. result = "busy" /\ todo # <<>>
    BY <1>3 DEF StopNode, Doing
  <2>2. Continue \/ Abort("error")
    BY <1>3 DEF StopNode
  <2> QED BY <1>1, <2>1, <2>2 DEF Continue, Abort, Advanced, GiveUp, Leaving, Joining
<1>4. CASE Return
  BY <1>1, <1>4 DEF Return, Finish, Leaving, Joining
<1>5. CASE Silent
  BY <1>1, <1>5 DEF Silent, Tally, Crash, vars, harness, Leaving, Joining
<1> QED BY <1>2, <1>3, <1>4, <1>5 DEF Step

\* The first call is made: it was due, nothing due is lost, and what is due
\* comes after it.
LEMMA DueAfter ==
  ASSUME todo \in Seq(Calls), Increasing(todo), Advanced
  PROVE  /\ Next1 \in Due /\ Next1 \in Calls /\ todo' \in Seq(Calls) /\ Increasing(todo')
         /\ Due' \subseteq Due /\ \A c \in Due : c = Next1 \/ c \in Due'
         /\ \A c \in Due : Rank(Next1) <= Rank(c)
<1> DEFINE t == Tail(todo)
<1>1. /\ Next1 = todo[1] /\ Len(todo) \in Nat \ {0} /\ DOMAIN todo = 1 .. Len(todo)
      /\ t \in Seq(Calls) /\ Len(t) = Len(todo) - 1
      /\ \A i \in 1 .. Len(t) : t[i] = todo[i + 1]
      /\ todo' = t
  BY HeadTailProperties, EmptySeq, LenProperties DEF Advanced, Next1
<1> HIDE DEF t
<1>2. DOMAIN t = 1 .. Len(todo) - 1
  BY <1>1, LenProperties
<1>3. Next1 \in Due /\ Next1 \in Calls
  <2>1. 1 \in DOMAIN todo
    BY <1>1
  <2>2. Next1 \in Due
    BY <1>1, <2>1 DEF Due, Values
  <2> QED BY <2>2, ValuesType DEF Due
<1>4. ASSUME NEW c \in Values(t) PROVE c \in Due
  <2>1. PICK i \in 1 .. Len(todo) - 1 : c = t[i]
    BY <1>2 DEF Values
  <2>2. i + 1 \in 1 .. Len(todo) /\ c = todo[i + 1]
    BY <1>1, <2>1
  <2> QED BY <1>1, <2>2 DEF Due, Values
<1>5. ASSUME NEW c \in Due, c # Next1 PROVE c \in Values(t)
  <2>1. PICK i \in 1 .. Len(todo) : c = todo[i]
    BY <1>1 DEF Due, Values
  <2>2. i # 1
    BY <1>1, <1>5, <2>1
  <2>3. i - 1 \in 1 .. Len(todo) - 1 /\ (i - 1) + 1 = i
    BY <1>1, <2>1, <2>2
  <2>4. t[i - 1] = c
    BY <1>1, <2>1, <2>3
  <2> QED BY <1>2, <2>3, <2>4 DEF Values
<1>6. ASSUME NEW c \in Due PROVE Rank(Next1) <= Rank(c)
  <2>1. PICK i \in 1 .. Len(todo) : c = todo[i]
    BY <1>1 DEF Due, Values
  <2>2. 1 \in DOMAIN todo /\ i \in DOMAIN todo /\ 1 <= i
    BY <1>1
  <2> QED BY <1>1, <2>1, <2>2 DEF Increasing
<1>7. Increasing(t)
  <2> SUFFICES ASSUME NEW i \in 1 .. Len(todo) - 1, NEW j \in 1 .. Len(todo) - 1, i <= j
               PROVE  Rank(t[i]) <= Rank(t[j])
    BY <1>2 DEF Increasing
  <2>1. /\ i + 1 \in DOMAIN todo /\ j + 1 \in DOMAIN todo /\ i + 1 <= j + 1
        /\ t[i] = todo[i + 1] /\ t[j] = todo[j + 1]
    BY <1>1
  <2> QED BY <2>1 DEF Increasing
<1>8. Due' = Values(t)
  BY <1>1 DEF Due
<1> QED BY <1>1, <1>3, <1>4, <1>5, <1>6, <1>7, <1>8

\* Nothing is due any more.
LEMMA NothingDue ==
  ASSUME todo' = <<>>
  PROVE  Due' = {} /\ todo' \in Seq(Calls) /\ Increasing(todo')
<1>1. Due' = Values(<<>>)
  BY DEF Due
<1>2. <<>> \in Seq(Calls) /\ Values(<<>>) = {}
  BY EmptySeq, EmptyValues
<1>3. \A c \in Values(todo') : Rank(c) = 0
  BY <1>2
<1> QED BY <1>1, <1>2, <1>3, FlatIncreasing

\* The slices RemoveFullnodes is called with.
LEMMA CandidatesAre ==
  ASSUME Typed, NEW cs \in Candidates
  PROVE  cs \in Seq(Nodes) /\ Values(cs) \subseteq Members
<1>1. fullnodes \in Seq(Nodes) /\ Len(fullnodes) \in Nat
  BY LenProperties DEF Typed
<1>k. PICK k \in RemoveSizes :
        /\ Len(fullnodes) - k >= MinNodes
        /\ \E i \in 1 .. Len(fullnodes) - k + 1 : cs = SubSeq(fullnodes, i, i + k - 1)
  BY DEF Candidates
<1>2. PICK i \in 1 .. Len(fullnodes) - k + 1 : cs = SubSeq(fullnodes, i, i + k - 1)
  BY <1>k
<1>3. k \in Nat /\ MinNodes \in Nat
  BY SizesAssumption
<1>4. Len(fullnodes) - k >= 0
  BY <1>k, <1>3, <1>1
<1>5. \A j \in i .. i + k - 1 : j \in 1 .. Len(fullnodes) /\ fullnodes[j] \in Members
  <2>1. \A j \in i .. i + k - 1 : j \in 1 .. Len(fullnodes)
    BY <1>1, <1>3, <1>4
  <2>2. DOMAIN fullnodes = 1 .. Len(fullnodes)
    BY <1>1, LenProperties
  <2> QED BY <2>1, <2>2 DEF Members
<1>6. cs \in Seq(Members)
  <2>1. Members \subseteq Nodes
    BY <1>1, ValuesType, MembersAre
  <2> QED BY <1>1, <1>2, <1>3, <1>5, SubSeqProperties
<1>7. Members \subseteq Nodes
  BY <1>1, ValuesType, MembersAre
<1> QED BY <1>6, <1>7, ValuesType, SeqMonotonic

-----------------------------------------------------------------------------
(* Type correctness                                                        *)

\* The type invariant follows.
LEMMA TypedTypeOK == Typed => TypeOK
<1> SUFFICES ASSUME Typed PROVE TypeOK
  OBVIOUS
<1>1. \A i \in DOMAIN todo : todo[i] \in Calls
  BY LenProperties DEF Typed
<1>2. \A i \in DOMAIN todo :
        todo[i].do \in {"start", "propose", "keep", "connect", "wait", "assign", "stop"}
  BY <1>1, CallForms
<1>3. op.name \in {"NewBlockchain", "Start", "AddFullnodes", "RemoveFullnodes", "Stop"}
  BY OperationForms DEF Typed
<1> QED BY <1>2, <1>3 DEF Typed, TypeOK

\* A new blockchain has its first nodes, and nothing has happened.
LEMMA ShapeInit == Init => Typed /\ Ordered /\ Created
<1> SUFFICES ASSUME Init PROVE Typed /\ Ordered /\ Created
  OBVIOUS
<1> USE SizesAssumption
<1>1. /\ fullnodes \in Seq(Nodes) /\ DOMAIN fullnodes = 1 .. InitialNodes
      /\ \A i \in 1 .. InitialNodes : fullnodes[i] = i
  <2>1. fullnodes \in [1 .. InitialNodes -> Nodes]
    BY DEF Init, Nodes
  <2> QED BY <2>1, MakeSeq DEF Init
<1>2. Members = 1 .. InitialNodes
  BY <1>1 DEF Members
<1>3. <<>> \in Seq(Nodes) /\ <<>> \in Seq(Calls) /\ Values(<<>>) = {}
  BY EmptySeq, EmptyValues
<1>4. op \in Operations
  BY DEF Init, Operations
<1>5. Typed
  BY <1>1, <1>3, <1>4 DEF Init, Typed, Nodes
<1>6. Due = {} /\ Kept = {} /\ Leaving = {} /\ Joining = {}
  BY <1>3 DEF Init, Due, Kept, Leaving, Joining
<1>7. Increasing(todo)
  BY <1>5, <1>6, FlatIncreasing DEF Due, Typed
<1>8. Ordered
  BY <1>6, <1>7 DEF Init, Ordered
<1>9. Created
  BY <1>2, <1>6 DEF Init, Created
<1> QED BY <1>5, <1>8, <1>9

\* What the next call is about has its type.
LEMMA NextCall ==
  ASSUME Typed, todo # <<>>
  PROVE  Next1 \in Calls
BY HeadTailProperties DEF Typed, Next1

\* One entry of a table is changed.
LEMMA TableUpdate ==
  ASSUME NEW S, NEW W, NEW table \in [S -> [S -> W]], NEW v \in S, NEW c \in S, NEW w \in W
  PROVE  /\ [table EXCEPT ![v][c] = w] \in [S -> [S -> W]]
         /\ \A x, y \in S : [table EXCEPT ![v][c] = w][x][y] =
              IF x = v /\ y = c THEN w ELSE table[x][y]
<1> DEFINE new == [table EXCEPT ![v][c] = w]
<1>1. table[v] \in [S -> W]
  OBVIOUS
<1>2. new[v] = [table[v] EXCEPT ![c] = w] /\ \A x \in S : x # v => new[x] = table[x]
  OBVIOUS
<1>3. \A x \in S : new[x] \in [S -> W]
  BY <1>1, <1>2
<1>4. \A x, y \in S : new[x][y] = IF x = v /\ y = c THEN w ELSE table[x][y]
  BY <1>1, <1>2
<1>5. new = [x \in S |-> new[x]]
  OBVIOUS
<1> HIDE DEF new
<1>6. new \in [S -> [S -> W]]
  BY <1>3, <1>5
<1> QED BY <1>4, <1>6 DEF new

\* Each call keeps the types of what it changes.
LEMMA TypedData ==
  ASSUME Typed, Step \/ Silent
  PROVE  /\ fullnodes' \in Seq(Nodes) /\ newFullnodes' \in Seq(Nodes)
         /\ container' \in [Nodes -> {"none", "running", "exited", "removed"}]
         /\ address' \subseteq Nodes /\ peers' \subseteq Nodes \X Nodes
         /\ proposal' \in [Nodes -> [Nodes -> {"none", "in", "out"}]]
         /\ validators' \subseteq Nodes /\ faults' \in 0 .. MaxFaults
<1> USE SizesAssumption DEF Typed, harness, nodeVars
<1>f. Fault => faults' \in 0 .. MaxFaults
  BY DEF Fault
<1>c. todo # <<>> => Next1 \in Calls
  BY NextCall
<1>1. CASE StartNode
  <2>1. Next1.node \in Nodes
    BY <1>1, <1>c, CallForms DEF StartNode, Doing
  <2> QED BY <1>1, <1>f, <2>1 DEF StartNode
<1>2. CASE Propose
  <2>1. Next1.node \in Nodes /\ Next1.candidate \in Nodes /\ Next1.way \in {"in", "out"}
    BY <1>2, <1>c, CallForms DEF Propose, Doing
  <2>2. \/ proposal' = proposal
        \/ proposal' = [proposal EXCEPT ![Next1.node][Next1.candidate] = Next1.way]
    BY <1>2 DEF Propose
  <2>3. proposal' \in [Nodes -> [Nodes -> {"none", "in", "out"}]]
    <3> DEFINE W == {"none", "in", "out"}
    <3>1. proposal \in [Nodes -> [Nodes -> W]] /\ Next1.way \in W
      BY <2>1
    <3> HIDE DEF W, Typed
    <3>2. [proposal EXCEPT ![Next1.node][Next1.candidate] = Next1.way] \in [Nodes -> [Nodes -> W]]
      BY <2>1, <3>1, TableUpdate
    <3>3. proposal' \in [Nodes -> [Nodes -> W]]
      BY <2>2, <3>1, <3>2
    <3> QED BY <3>3 DEF W
  <2> QED BY <1>2, <1>f, <2>3 DEF Propose
<1>3. CASE Keep
  <2>1. Next1.node \in Nodes
    BY <1>3, <1>c, CallForms DEF Keep, Doing
  <2>2. Append(newFullnodes, Next1.node) \in Seq(Nodes)
    BY <2>1, AppendProperties
  <2> QED BY <1>3, <2>2 DEF Keep
<1>4. CASE Connect
  <2>1. Next1.node \in Nodes /\ Next1.peer \in Nodes
    BY <1>4, <1>c, CallForms DEF Connect, Doing
  <2>2. peers' = peers \/ peers' = peers \cup {<<Next1.node, Next1.peer>>}
    BY <1>4 DEF Connect
  <2>3. faults' \in 0 .. MaxFaults
    BY <1>4, <1>f DEF Connect
  <2>4. peers' \subseteq Nodes \X Nodes
    <3>1. <<Next1.node, Next1.peer>> \in Nodes \X Nodes
      BY <2>1
    <3>2. peers \subseteq Nodes \X Nodes
      OBVIOUS
    <3> HIDE DEF Typed
    <3> QED BY <2>2, <3>1, <3>2
  <2> QED BY <1>4, <2>3, <2>4 DEF Connect
<1>5. CASE Wait \/ Assign \/ Return
  BY <1>5 DEF Wait, Assign, Return
<1>6. CASE StopNode
  <2>1. Next1.node \in Nodes
    BY <1>6, <1>c, CallForms DEF StopNode, Doing
  <2>2. faults' \in 0 .. MaxFaults
    BY <1>6, <1>f DEF StopNode
  <2>3. container' \in [Nodes -> {"none", "running", "exited", "removed"}]
    BY <1>6, <2>1 DEF StopNode
  <2>4. peers' = peers \/ peers' = {p \in peers : p[1] # Next1.node}
    BY <1>6 DEF StopNode
  <2> QED BY <1>6, <2>2, <2>3, <2>4 DEF StopNode
<1>7. ASSUME NEW n \in Nodes, Tally(n)
      PROVE  /\ validators' \subseteq Nodes
             /\ UNCHANGED <<fullnodes, newFullnodes, container, address, peers, proposal, faults>>
  BY <1>7 DEF Tally
<1>8. ASSUME NEW n \in Nodes, Crash(n)
      PROVE  /\ container' \in [Nodes -> {"none", "running", "exited", "removed"}]
             /\ faults' \in 0 .. MaxFaults
             /\ UNCHANGED <<fullnodes, newFullnodes, address, peers, proposal, validators>>
  BY <1>8, <1>f DEF Crash
<1>9. CASE UNCHANGED vars
  BY <1>9 DEF vars
<1> QED BY <1>1, <1>2, <1>3, <1>4, <1>5, <1>6, <1>7, <1>8, <1>9 DEF Step, Silent

\* Making calls, and what happens meanwhile, keeps the types and the order.
LEMMA OrderedStep ==
  ASSUME Typed, Ordered, Step \/ Silent
  PROVE  Typed' /\ Ordered'
<1>1. /\ UNCHANGED <<created, op, ops>> /\ Leaving' = Leaving /\ Joining' = Joining
      /\ UNCHANGED <<todo, result>> \/ (result = "busy" /\ (Advanced \/ GiveUp \/ Finish))
  BY StepForms
<1>2. \A c : Fits(c)' <=> Fits(c)
  BY <1>1 DEF Fits
<1>3. CASE UNCHANGED <<todo, result>>
  <2>1. Typed'
    BY <1>1, <1>3, TypedData DEF Typed
  <2> QED BY <1>1, <1>2, <1>3, <2>1 DEF Ordered, Due
<1>4. CASE result = "busy" /\ Advanced
  <2>1. Due' \subseteq Due /\ todo' \in Seq(Calls) /\ Increasing(todo')
    BY <1>4, DueAfter DEF Typed, Ordered
  <2>2. Typed'
    BY <1>1, <1>4, <2>1, TypedData DEF Typed, Advanced
  <2>3. result' = "busy"
    BY <1>4 DEF Advanced
  <2> QED BY <1>1, <1>2, <1>4, <2>1, <2>2, <2>3 DEF Ordered
<1>5. CASE result = "busy" /\ GiveUp
  <2>1. Due' = {} /\ todo' \in Seq(Calls) /\ Increasing(todo') /\ todo' = <<>>
    BY <1>5, NothingDue DEF GiveUp
  <2>2. Typed'
    BY <1>1, <1>5, <2>1, TypedData DEF Typed, GiveUp
  <2>3. op.name # "NewBlockchain"
    BY <1>5 DEF Ordered
  <2> QED BY <1>1, <2>1, <2>2, <2>3 DEF Ordered
<1>6. CASE Finish
  <2>1. Typed'
    BY <1>1, <1>6, TypedData DEF Typed, Finish
  <2> QED BY <1>1, <1>2, <1>6, <2>1 DEF Ordered, Due, Finish
<1> QED BY <1>1, <1>3, <1>4, <1>5, <1>6

\* One call about created nodes keeps everything within them.
LEMMA CreatedStep ==
  ASSUME Typed, Ordered, Created, Step \/ Silent
  PROVE  Created'
<1>1. UNCHANGED <<created, op>> /\ Leaving' = Leaving /\ Joining' = Joining
  BY StepForms
<1>c. ASSUME todo # <<>> PROVE Next1 \in Calls /\ Next1 \in Due /\ Fits(Next1)
  <2>1. todo[1] \in Due
    BY <1>c, EmptySeq, ValuesType DEF Typed, Due
  <2> QED BY <1>c, <2>1, NextCall DEF Next1, Ordered
<1>2. CASE UNCHANGED <<fullnodes, newFullnodes, proposal>>
  BY <1>1, <1>2 DEF Created, Members, Kept
<1>3. CASE Propose
  <2>1. UNCHANGED <<fullnodes, newFullnodes>>
    BY <1>3 DEF Propose, harness
  <2>2. \/ proposal' = proposal
        \/ proposal' = [proposal EXCEPT ![Next1.node][Next1.candidate] = Next1.way]
    BY <1>3 DEF Propose
  <2>3. Next1.node \in 1 .. created /\ Next1.candidate \in Leaving \cup Joining
    BY <1>3, <1>c DEF Propose, Doing, Fits
  <2>4. Next1.candidate \in 1 .. created
    BY <2>3 DEF Created
  <2>5. ASSUME NEW v \in Nodes, NEW c \in Nodes, v \notin 1 .. created \/ c \notin 1 .. created
        PROVE  proposal'[v][c] = proposal[v][c]
    BY <2>2, <2>3, <2>4, <2>5 DEF Typed
  <2> QED BY <1>1, <2>1, <2>5 DEF Created, Members, Kept
<1>4. CASE Keep
  <2>1. UNCHANGED <<fullnodes, proposal>>
    BY <1>4 DEF Keep, nodeVars
  <2>2. Next1.node \in 1 .. created /\ Next1.node \in Nodes
    BY <1>4, <1>c, CallForms DEF Keep, Doing, Fits
  <2>3. newFullnodes' = newFullnodes \/ newFullnodes' = Append(newFullnodes, Next1.node)
    BY <1>4 DEF Keep
  <2>4. newFullnodes \in Seq(1 .. created)
    <3>1. newFullnodes \in Seq(Nodes) /\ Kept \subseteq 1 .. created
      BY DEF Typed, Created
    <3>2. \A i \in DOMAIN newFullnodes : newFullnodes[i] \in 1 .. created
      BY <3>1 DEF Kept, Values
    <3>3. Len(newFullnodes) \in Nat /\ newFullnodes \in [1 .. Len(newFullnodes) -> 1 .. created]
      BY <3>1, <3>2, LenProperties
    <3> QED BY <3>3, SeqDef
  <2>5. newFullnodes' \in Seq(1 .. created)
    <3> DEFINE S == 1 .. created
    <3>1. newFullnodes \in Seq(S) /\ Next1.node \in S
      BY <2>2, <2>4
    <3> HIDE DEF S
    <3>2. Append(newFullnodes, Next1.node) \in Seq(S)
      BY <3>1, AppendProperties
    <3>3. newFullnodes' \in Seq(S)
      BY <2>3, <3>1, <3>2
    <3> QED BY <3>3 DEF S
  <2>6. Kept' \subseteq 1 .. created
    BY <2>5, ValuesType DEF Kept
  <2>7. Members' = Members
    BY <2>1 DEF Members
  <2> QED BY <1>1, <2>1, <2>6, <2>7 DEF Created
<1>5. CASE Assign
  <2>1. fullnodes' = newFullnodes /\ UNCHANGED <<newFullnodes, proposal>>
    BY <1>5 DEF Assign, nodeVars
  <2>2. Members' = Kept
    BY <2>1, MembersAre DEF Kept, Members, Values
  <2>3. op.name = "RemoveFullnodes"
    BY <1>5, <1>c DEF Assign, Doing, Fits
  <2>4. Joining = {}
    BY <2>3 DEF Joining
  <2> QED BY <1>1, <2>1, <2>2, <2>4 DEF Created, Kept
<1>6. CASE StartNode \/ Connect \/ Wait \/ StopNode \/ Return \/ Silent
  BY <1>2, <1>6 DEF StartNode, Connect, Wait, StopNode, Return, Silent, Tally, Crash, harness,
     nodeVars, vars
<1> QED BY <1>3, <1>4, <1>5, <1>6 DEF Step

\* What holds of the calls of an operation that has just been called.
LEMMA Called ==
  ASSUME Typed, Ordered, NEW o \in Operations, NEW calls \in Seq(Calls), Call(o, calls)
  PROVE  /\ UNCHANGED <<container, address, peers, proposal, validators>>
         /\ op' = o /\ todo' = calls /\ Due' = Values(calls) /\ result' = "busy"
         /\ ops' \in 0 .. MaxOps /\ todo = <<>> /\ Due = {}
<1>1. result # "busy" /\ todo = <<>>
  BY DEF Call, Ordered
<1>2. Due = {}
  BY <1>1, EmptyValues DEF Due
<1>3. ops' \in 0 .. MaxOps
  BY SizesAssumption DEF Call, Typed
<1> QED BY <1>1, <1>2, <1>3 DEF Call, Due, nodeVars

\* Start, with its plan.
LEMMA StartForm ==
  ASSUME Typed, Ordered, NEW strong \in BOOLEAN, Start(strong)
  PROVE  /\ op.name = "NewBlockchain" /\ op' = [name |-> "Start", strong |-> strong]
         /\ op'.name = "Start" /\ op'.strong = strong /\ op' \in Operations
         /\ todo' \in Seq(Calls) /\ Increasing(todo')
         /\ \A n \in Nodes : StartCall(n) \in Due' <=> n \in Members
         /\ strong => \A v, w \in Members : MeshCall(v, w) \in Due'
         /\ \A c \in Due' : c.do \in {"start", "connect"}
         /\ Leaving' = {} /\ Joining' = {} /\ result = "nil" /\ result' = "busy"
         /\ UNCHANGED <<fullnodes, newFullnodes, created, faults>>
         /\ UNCHANGED <<container, address, peers, proposal, validators>>
         /\ ops' \in 0 .. MaxOps
<1> DEFINE o == [name |-> "Start", strong |-> strong]
           connects == ConnectCalls(fullnodes, strong)
           calls == StartCalls(fullnodes) \o connects
<1>0. fullnodes \in Seq(Nodes) /\ Members = Values(fullnodes)
  BY MembersAre DEF Typed
<1>1. o \in Operations /\ o.name = "Start" /\ o.strong = strong
  BY DEF Operations
<1>2. /\ connects \in Seq(Calls) /\ Values(connects) \subseteq MeshSet \cup RingSet
      /\ strong => \A v, w \in Members : MeshCall(v, w) \in Values(connects)
  <2>1. CASE strong = TRUE
    <3>1. connects \in Seq(Calls) /\ Values(connects) = Mesh(Values(fullnodes))
      BY <1>0, <2>1, MeshCallsAre
    <3>2. Values(fullnodes) \subseteq Nodes
      BY <1>0, ValuesType
    <3>3. Mesh(Values(fullnodes)) \subseteq MeshSet
      BY <3>2 DEF Mesh, MeshSet
    <3> HIDE DEF connects
    <3> QED BY <1>0, <3>1, <3>3 DEF Mesh
  <2>2. CASE strong = FALSE
    <3>1. connects \in Seq(Calls) /\ Values(connects) \subseteq RingSet
      BY <1>0, <2>2, RingCallsAre
    <3> HIDE DEF connects
    <3> QED BY <2>2, <3>1
  <2> QED BY <2>1, <2>2
<1>3. /\ op.name = "NewBlockchain" /\ Call(o, calls)
      /\ UNCHANGED <<fullnodes, newFullnodes, created, faults>>
  BY DEF Start
<1> HIDE DEF connects
<1>4. /\ calls \in Seq(Calls) /\ Increasing(calls)
      /\ Values(calls) = {StartCall(n) : n \in Members} \cup Values(connects)
  BY <1>0, <1>2, StartPlan
<1> HIDE DEF calls, o
<1>5. /\ UNCHANGED <<container, address, peers, proposal, validators>>
      /\ op' = o /\ todo' = calls /\ Due' = Values(calls) /\ result' = "busy"
      /\ ops' \in 0 .. MaxOps
  BY <1>1, <1>3, <1>4, Called
<1>6. \A c \in Values(calls) : c.do \in {"start", "connect"}
  BY <1>2, <1>4 DEF StartCall, MeshSet, RingSet, MeshCall, RingCall
<1>7. Leaving' = {} /\ Joining' = {}
  BY <1>1, <1>5 DEF Leaving, Joining
<1>8. result = "nil"
  BY <1>3 DEF Ordered
<1>10. \A n \in Nodes : StartCall(n) \in Values(calls) <=> n \in Members
  <2>1. \A n \in Nodes : StartCall(n) \notin Values(connects)
    BY <1>2 DEF StartCall, MeshSet, RingSet, MeshCall, RingCall
  <2>2. \A n, m : StartCall(n) = StartCall(m) => n = m
    BY DEF StartCall
  <2> QED BY <1>4, <2>1, <2>2
<1>9. op' = [name |-> "Start", strong |-> strong]
  BY <1>5 DEF o
<1> QED BY <1>1, <1>2, <1>3, <1>4, <1>5, <1>6, <1>7, <1>8, <1>9, <1>10

\* The numbers of new nodes.
LEMMA NewIDsAre ==
  ASSUME Typed, NEW made \in Nat, created + made <= MaxNodes
  PROVE  /\ NewIDs(made) \in Seq(Nodes) /\ created + made \in 0 .. MaxNodes
         /\ Values(NewIDs(made)) = created + 1 .. created + made
<1>1. created \in Nat /\ MaxNodes \in Nat
  BY SizesAssumption DEF Typed
<1>2. \A i \in 1 .. made : created + i \in Nodes /\ created + i \in created + 1 .. created + made
  BY <1>1 DEF Nodes
<1>3. NewIDs(made) = [i \in 1 .. made |-> created + i]
  BY DEF NewIDs
<1>4. NewIDs(made) \in [1 .. made -> Nodes]
  BY <1>2, <1>3
<1>5. NewIDs(made) \in Seq(Nodes) /\ DOMAIN NewIDs(made) = 1 .. made
  BY <1>4, MakeSeq
<1>6. ASSUME NEW n \in created + 1 .. created + made
      PROVE  \E i \in 1 .. made : n = created + i
  <2>1. n - created \in 1 .. made /\ n = created + (n - created)
    BY <1>1
  <2> QED BY <2>1
<1>7. Values(NewIDs(made)) = created + 1 .. created + made
  <2>1. \A i \in 1 .. made : NewIDs(made)[i] = created + i
    BY <1>3
  <2>2. Values(NewIDs(made)) \subseteq created + 1 .. created + made
    BY <1>2, <1>5, <2>1 DEF Values
  <2>3. created + 1 .. created + made \subseteq Values(NewIDs(made))
    BY <1>5, <1>6, <2>1 DEF Values
  <2> QED BY <2>2, <2>3
<1> QED BY <1>1, <1>5, <1>7

\* AddFullnodes, with its plan.
LEMMA AddForm ==
  ASSUME Typed, Ordered, Created, NEW k \in AddSizes, AddFullnodes(k)
  PROVE  /\ Usable /\ op'.name = "AddFullnodes" /\ op' \in Operations
         /\ fullnodes' \in Seq(Nodes) /\ Members' = Members \cup Joining'
         /\ created' \in created .. MaxNodes /\ Joining' = created + 1 .. created'
         /\ Members \cap Joining' = {} /\ Joining' \subseteq Nodes /\ Leaving' = {}
         /\ 1 .. created \subseteq 1 .. created' /\ Joining' \subseteq 1 .. created'
         /\ todo' \in Seq(Calls) /\ Increasing(todo')
         /\ Due' = {StartCall(n) : n \in Joining'} \cup Ballot(Members, Joining', "in")
                     \cup Mesh(Members')
         /\ result = "nil" /\ result' = "busy" /\ newFullnodes' = newFullnodes
         /\ UNCHANGED <<container, address, peers, proposal, validators>>
         /\ ops' \in 0 .. MaxOps /\ (faults' = faults \/ (Fault /\ faults' = faults + 1))
<1> USE SizesAssumption
<1>1. PICK made \in 0 .. k :
        LET new == NewIDs(made) all == fullnodes \o new IN
        /\ IF made = k THEN UNCHANGED faults ELSE Fault
        /\ fullnodes' = all
        /\ created' = created + made
        /\ Call([name |-> "AddFullnodes", requested |-> k, new |-> new],
                StartCalls(new) \o ProposeCalls(fullnodes, new) \o ConnectCalls(all, TRUE))
  BY DEF AddFullnodes
<1>2. Usable /\ created + k <= MaxNodes /\ newFullnodes' = newFullnodes
  BY DEF AddFullnodes
<1>3. k \in Nat /\ made \in Nat /\ made <= k /\ created \in Nat /\ created + made <= MaxNodes
  BY <1>2 DEF Typed
<1> DEFINE new == NewIDs(made)
           all == fullnodes \o new
           calls == StartCalls(new) \o ProposeCalls(fullnodes, new) \o ConnectCalls(all, TRUE)
           o == [name |-> "AddFullnodes", requested |-> k, new |-> new]
<1>4. /\ new \in Seq(Nodes) /\ created + made \in 0 .. MaxNodes
      /\ Values(new) = created + 1 .. created + made
  BY <1>3, NewIDsAre
<1>5. fullnodes \in Seq(Nodes) /\ Members = Values(fullnodes)
  BY MembersAre DEF Typed
<1>6. all \in Seq(Nodes) /\ Values(all) = Members \cup Values(new)
  <2> HIDE DEF new
  <2>1. fullnodes \in Seq(Nodes) /\ new \in Seq(Nodes)
    BY <1>4, <1>5
  <2>2. /\ fullnodes \o new \in Seq(Nodes)
        /\ Values(fullnodes \o new) = Values(fullnodes) \cup Values(new)
    BY ONLY <2>1, ConcatValues
  <2> QED BY ONLY <1>5, <2>2
<1>7. /\ calls \in Seq(Calls) /\ Increasing(calls)
      /\ Values(calls) = {StartCall(n) : n \in Values(new)} \cup Ballot(Members, Values(new), "in")
                           \cup Mesh(Members \cup Values(new))
  BY <1>4, <1>5, AddPlan
<1>8. o \in Operations /\ o.name = "AddFullnodes" /\ o.new = new
  BY <1>3, <1>4 DEF Operations
<1>9. /\ fullnodes' = all /\ created' = created + made /\ Call(o, calls)
      /\ faults' = faults \/ Fault
  BY <1>1
<1> HIDE DEF new, all, calls, o
<1>10. /\ UNCHANGED <<container, address, peers, proposal, validators>>
       /\ op' = o /\ todo' = calls /\ Due' = Values(calls) /\ result' = "busy"
       /\ ops' \in 0 .. MaxOps
  BY <1>7, <1>8, <1>9, Called
<1>11. Joining' = Values(new) /\ Leaving' = {}
  BY <1>8, <1>10 DEF Joining, Leaving
<1>12. Members' = Members \cup Values(new)
  BY <1>6, <1>9, MembersAre DEF Members, Values
<1>13. result = "nil"
  BY <1>2 DEF Usable
<1>14. Members \cap Values(new) = {}
  BY <1>3, <1>4 DEF Created
<1>15. created' \in created .. MaxNodes /\ Values(new) = created + 1 .. created'
  BY <1>3, <1>4, <1>9
<1>16. /\ 1 .. created \subseteq 1 .. created' /\ Joining' \subseteq 1 .. created'
       /\ Joining' \subseteq Nodes
  <2>1. created' \in Nat /\ created \in Nat /\ created <= created'
    BY <1>3, <1>9
  <2>2. \A n \in created + 1 .. created' : n \in 1 .. created'
    BY <2>1
  <2>3. 1 .. created \subseteq 1 .. created'
    BY <2>1
  <2>4. Values(new) \subseteq Nodes
    BY <1>4, ValuesType
  <2> QED BY <1>11, <1>15, <2>2, <2>3, <2>4
<1>17. faults' = faults \/ (Fault /\ faults' = faults + 1)
  BY <1>9 DEF Fault
<1> QED BY <1>2, <1>6, <1>7, <1>8, <1>9, <1>10, <1>11, <1>12, <1>13, <1>14, <1>15, <1>16, <1>17

\* RemoveFullnodes, with its plan.
LEMMA RemoveForm ==
  ASSUME Typed, Ordered, NEW cs \in Candidates, RemoveFullnodes(cs)
  PROVE  /\ Usable /\ op'.name = "RemoveFullnodes" /\ op' \in Operations
         /\ Leaving' \subseteq Members /\ Joining' = {} /\ Kept' = {} /\ newFullnodes' \in Seq(Nodes)
         /\ todo' \in Seq(Calls) /\ Increasing(todo')
         /\ Due' = Ballot(Members, Leaving', "out") \cup {KeepCall(v) : v \in Members}
                     \cup {WaitCall, AssignCall} \cup {StopCall(n) : n \in Leaving'}
         /\ result = "nil" /\ result' = "busy" /\ UNCHANGED <<fullnodes, created, faults>>
         /\ UNCHANGED <<container, address, peers, proposal, validators>>
         /\ ops' \in 0 .. MaxOps
<1> DEFINE calls == RemovalCalls(fullnodes, cs) \o <<WaitCall, AssignCall>> \o StopCalls(cs, FALSE)
           o == [name |-> "RemoveFullnodes", candidates |-> cs]
<1>1. /\ Usable /\ newFullnodes' = <<>> /\ Call(o, calls)
      /\ UNCHANGED <<fullnodes, created, faults>>
  BY DEF RemoveFullnodes, WaitCall, AssignCall
<1>2. cs \in Seq(Nodes) /\ Values(cs) \subseteq Members
  BY CandidatesAre
<1>3. fullnodes \in Seq(Nodes) /\ Members = Values(fullnodes)
  BY MembersAre DEF Typed
<1>4. /\ calls \in Seq(Calls) /\ Increasing(calls)
      /\ Values(calls) = Ballot(Members, Values(cs), "out") \cup {KeepCall(v) : v \in Members}
                           \cup {WaitCall, AssignCall} \cup {StopCall(n) : n \in Values(cs)}
  BY <1>2, <1>3, RemovePlan
<1>5. o \in Operations /\ o.name = "RemoveFullnodes" /\ o.candidates = cs
  BY <1>2 DEF Operations
<1> HIDE DEF calls, o
<1>6. /\ UNCHANGED <<container, address, peers, proposal, validators>>
      /\ op' = o /\ todo' = calls /\ Due' = Values(calls) /\ result' = "busy"
      /\ ops' \in 0 .. MaxOps
  BY <1>1, <1>4, <1>5, Called
<1>7. Leaving' = Values(cs) /\ Joining' = {}
  BY <1>5, <1>6 DEF Leaving, Joining
<1>8. newFullnodes' \in Seq(Nodes) /\ Kept' = {}
  <2>1. Kept' = Values(<<>>)
    BY <1>1 DEF Kept
  <2> QED BY <1>1, <2>1, EmptySeq, EmptyValues
<1>9. result = "nil"
  BY <1>1 DEF Usable
<1> QED BY <1>1, <1>2, <1>4, <1>5, <1>6, <1>7, <1>8, <1>9

\* Stop, with its plan.
LEMMA StopForm ==
  ASSUME Typed, Ordered, NEW force \in BOOLEAN, Stop(force)
  PROVE  /\ op.name \notin {"NewBlockchain", "Stop"} /\ op'.name = "Stop" /\ op' \in Operations
         /\ (op'.force <=> force) /\ Leaving' = {} /\ Joining' = {}
         /\ todo' \in Seq(Calls) /\ Increasing(todo')
         /\ force => Due' = {ForcedStopCall(n) : n \in Members}
         /\ ~ force => Due' = {StopCall(n) : n \in Members}
         /\ result # "busy" /\ result' = "busy"
         /\ UNCHANGED <<fullnodes, newFullnodes, created, faults>>
         /\ UNCHANGED <<container, address, peers, proposal, validators>>
         /\ ops' \in 0 .. MaxOps
<1> DEFINE calls == StopCalls(fullnodes, force)
           o == [name |-> "Stop", force |-> force]
<1>1. /\ op.name \notin {"NewBlockchain", "Stop"} /\ Call(o, calls)
      /\ UNCHANGED <<fullnodes, newFullnodes, created, faults>>
  BY DEF Stop
<1>2. fullnodes \in Seq(Nodes) /\ Members = Values(fullnodes) /\ Members \subseteq Nodes
  BY MembersAre, ValuesType DEF Typed
<1>3. /\ calls \in Seq(Calls)
      /\ force => Values(calls) = {ForcedStopCall(n) : n \in Members}
      /\ ~ force => Values(calls) = {StopCall(n) : n \in Members}
  <2>1. CASE force = TRUE
    BY <1>2, <2>1, ForcedStopCallsAre
  <2>2. CASE force = FALSE
    BY <1>2, <2>2, StopCallsAre
  <2> QED BY <2>1, <2>2
<1>4. o \in Operations /\ o.name = "Stop" /\ (o.force <=> force)
  BY DEF Operations
<1>5. result # "busy"
  BY <1>1 DEF Call
<1> HIDE DEF calls, o
<1>6. \A c \in Values(calls) : Rank(c) = 5
  BY <1>2, <1>3, CallTypes
<1>7. Increasing(calls)
  BY <1>3, <1>6, FlatIncreasing
<1>8. /\ UNCHANGED <<container, address, peers, proposal, validators>>
      /\ op' = o /\ todo' = calls /\ Due' = Values(calls) /\ result' = "busy"
      /\ ops' \in 0 .. MaxOps
  BY <1>1, <1>3, <1>4, Called
<1>9. Leaving' = {} /\ Joining' = {}
  BY <1>4, <1>8 DEF Leaving, Joining
<1> QED BY <1>1, <1>3, <1>4, <1>5, <1>7, <1>8, <1>9

\* An operation is called with calls that fit.
LEMMA ShapeStart ==
  ASSUME Typed, Ordered, Created, NEW strong \in BOOLEAN, Start(strong)
  PROVE  Typed' /\ Ordered' /\ Created'
<1>1. Typed'
  BY StartForm DEF Typed
<1>2. \A c \in Due' : Fits(c)'
  BY StartForm DEF Fits
<1>3. Ordered'
  BY <1>2, StartForm DEF Ordered
<1>4. Members' = Members /\ Kept' = Kept /\ Leaving' = {} /\ Joining' = {}
  BY StartForm DEF Members, Kept
<1>5. Created'
  BY <1>4, StartForm DEF Created
<1> QED BY <1>1, <1>3, <1>5

\* AddFullnodes creates nodes and makes them members, before its calls.
LEMMA ShapeAdd ==
  ASSUME Typed, Ordered, Created, NEW k \in AddSizes, AddFullnodes(k)
  PROVE  Typed' /\ Ordered' /\ Created'
<1> USE AddForm
<1>1. Typed'
  <2>1. created' \in 0 .. MaxNodes
    BY SizesAssumption DEF Typed
  <2>2. faults' \in 0 .. MaxFaults
    <3>1. faults' = faults \/ (faults < MaxFaults /\ faults' = faults + 1)
      BY DEF Fault
    <3> QED BY ONLY <3>1, SizesAssumption, Typed DEF Typed
  <2> QED BY <2>1, <2>2 DEF Typed
<1>2. Members' \subseteq 1 .. created' /\ 1 .. created \subseteq 1 .. created'
  <2>1. Members \subseteq 1 .. created
    BY DEF Created
  <2> QED BY <2>1
<1>3. \A c \in Due' : Fits(c)'
  <2>1. \A n \in Joining' : Fits(StartCall(n))'
    BY DEF Fits, StartCall
  <2>2. \A v \in Members, c \in Joining' : Fits(ProposeCall(v, c, "in"))'
    <3>1. \A v \in Members : v \in 1 .. created'
      BY <1>2 DEF Created
    <3> QED BY <3>1 DEF Fits, ProposeCall
  <2>3. \A v, w \in Members' : Fits(MeshCall(v, w))'
    BY DEF Fits, MeshCall
  <2> QED BY <2>1, <2>2, <2>3 DEF Ballot, Mesh
<1>4. Ordered'
  BY <1>3 DEF Ordered
<1>5. Created'
  BY <1>2 DEF Created, Kept
<1> QED BY <1>1, <1>4, <1>5

\* The calls of RemoveFullnodes are about the candidates and the members.
LEMMA ShapeRemove ==
  ASSUME Typed, Ordered, Created, NEW cs \in Candidates, RemoveFullnodes(cs)
  PROVE  Typed' /\ Ordered' /\ Created'
<1> USE RemoveForm
<1>1. Typed'
  BY DEF Typed
<1>2. Members' = Members /\ Members \subseteq 1 .. created
  BY DEF Members, Created
<1>3. \A c \in Due' : Fits(c)'
  <2>1. \A v \in Members, c \in Leaving' : Fits(ProposeCall(v, c, "out"))'
    BY <1>2 DEF Fits, ProposeCall
  <2>2. \A v \in Members : Fits(KeepCall(v))'
    BY <1>2 DEF Fits, KeepCall
  <2>3. Fits(WaitCall)' /\ Fits(AssignCall)'
    BY DEF Fits, WaitCall, AssignCall
  <2>4. \A n \in Leaving' : Fits(StopCall(n))'
    BY DEF Fits, StopCall
  <2> QED BY <2>1, <2>2, <2>3, <2>4 DEF Ballot
<1>4. Ordered'
  BY <1>3 DEF Ordered
<1>5. Created'
  BY <1>2 DEF Created
<1> QED BY <1>1, <1>4, <1>5

\* Stop only stops.
LEMMA ShapeStop ==
  ASSUME Typed, Ordered, Created, NEW force \in BOOLEAN, Stop(force)
  PROVE  Typed' /\ Ordered' /\ Created'
<1> USE StopForm
<1>1. Typed'
  BY DEF Typed
<1>2. \A c \in Due' : Fits(c)'
  <2>1. CASE force
    <3>1. \A n : ForcedStopCall(n).do = "stop" /\ ForcedStopCall(n).force
      BY DEF ForcedStopCall
    <3>2. Due' = {ForcedStopCall(n) : n \in Members}
      BY <2>1
    <3>3. \A c \in Due' : c.do = "stop" /\ c.force
      BY ONLY <3>1, <3>2
    <3>4. op'.name = "Stop" /\ op'.force
      BY <2>1
    <3> QED BY <3>3, <3>4 DEF Fits
  <2>2. CASE ~ force
    BY <2>2 DEF Fits, StopCall
  <2> QED BY <2>1, <2>2
<1>3. Ordered'
  BY <1>2 DEF Ordered
<1>4. Members' = Members /\ Kept' = Kept
  BY DEF Members, Kept
<1>5. Created'
  BY <1>4 DEF Created
<1> QED BY <1>1, <1>3, <1>5

\* Every step of the harness and the chain keeps the shape.
LEMMA ShapeNext == Typed /\ Ordered /\ Created /\ [Next]_vars => Typed' /\ Ordered' /\ Created'
<1> SUFFICES ASSUME Typed, Ordered, Created, [Next]_vars PROVE Typed' /\ Ordered' /\ Created'
  OBVIOUS
<1>1. CASE Step \/ Silent
  BY <1>1, OrderedStep, CreatedStep
<1>2. ASSUME NEW strong \in BOOLEAN, Start(strong) PROVE Typed' /\ Ordered' /\ Created'
  BY <1>2, ShapeStart
<1>3. ASSUME NEW k \in AddSizes, AddFullnodes(k) PROVE Typed' /\ Ordered' /\ Created'
  BY <1>3, ShapeAdd
<1>4. ASSUME NEW cs \in Candidates, RemoveFullnodes(cs) PROVE Typed' /\ Ordered' /\ Created'
  BY <1>4, ShapeRemove
<1>5. ASSUME NEW force \in BOOLEAN, Stop(force) PROVE Typed' /\ Ordered' /\ Created'
  BY <1>5, ShapeStop
<1> QED BY <1>1, <1>2, <1>3, <1>4, <1>5 DEF Next, Silent

\* Types, the order of calls, and that lists hold created nodes, hold forever.
LEMMA Shape == Spec => [](Typed /\ Ordered /\ Created)
BY ShapeInit, ShapeNext, PTL DEF Spec

\* The lists, the votes, the containers and the calls have their types: nodes
\* are only those that were made, also after additions that failed halfway.
THEOREM TypeCorrect == Spec => []TypeOK
BY Shape, TypedTypeOK, PTL

-----------------------------------------------------------------------------
(* The steps of an operation that does not fail                            *)

\* Call c was due, has been made, and nothing due comes before it.
Made(c) ==
  /\ c \in Due /\ Fits(c) /\ Due' \subseteq Due /\ \A d \in Due : d = c \/ d \in Due'
  /\ \A d \in Due : Rank(c) <= Rank(d)

\* What is fine after a step has been fine before it.
LEMMA FineBefore ==
  ASSUME Step \/ Silent, Fine'
  PROVE  /\ Fine /\ UNCHANGED <<op, created>> /\ Leaving' = Leaving /\ Joining' = Joining
         /\ ~ GiveUp
<1>1. /\ UNCHANGED <<op, created>> /\ Leaving' = Leaving /\ Joining' = Joining
      /\ UNCHANGED <<todo, result>> \/ (result = "busy" /\ (Advanced \/ GiveUp \/ Finish))
  BY StepForms
<1>2. ~ GiveUp
  BY DEF Fine, GiveUp
<1> QED BY <1>1, <1>2 DEF Fine, Advanced, Finish

\* When a call has been made, the calls due are the rest.
LEMMA MadeNext ==
  ASSUME Typed, Ordered, todo # <<>>, Continue, result = "busy"
  PROVE  Next1 \in Calls /\ Made(Next1)
<1>1. Advanced
  BY DEF Advanced, Continue
<1> QED BY <1>1, DueAfter DEF Typed, Ordered, Made

\* A node that has been started runs.
LEMMA FineStart ==
  ASSUME Typed, Ordered, StartNode, Fine'
  PROVE  \E n \in Nodes :
           /\ Made(StartCall(n)) /\ container' = [container EXCEPT ![n] = "running"]
           /\ UNCHANGED <<fullnodes, newFullnodes, peers, proposal, validators, faults>>
<1>1. Continue /\ todo # <<>> /\ result = "busy" /\ Next1.do = "start"
  BY DEF StartNode, Doing, Abort, Fine
<1>2. Next1 \in Calls /\ Made(Next1)
  BY <1>1, MadeNext
<1>3. Next1.node \in Nodes /\ Next1 = StartCall(Next1.node)
  BY <1>1, <1>2, CallForms
<1>4. /\ container' = [container EXCEPT ![Next1.node] = "running"]
      /\ UNCHANGED <<fullnodes, newFullnodes, peers, proposal, validators, faults>>
  BY DEF StartNode, Abort, Fine, harness
<1> QED BY <1>2, <1>3, <1>4

\* A vote has been cast.
LEMMA FinePropose ==
  ASSUME Typed, Ordered, Propose, Fine'
  PROVE  \E v, c \in Nodes, way \in {"in", "out"} :
           /\ Made(ProposeCall(v, c, way)) /\ v \in Running
           /\ proposal' = [proposal EXCEPT ![v][c] = way]
           /\ UNCHANGED <<fullnodes, newFullnodes, container, peers, validators, faults>>
<1>1. Continue /\ todo # <<>> /\ result = "busy" /\ Next1.do = "propose"
  BY DEF Propose, Doing, Abort, Fine
<1>2. Next1 \in Calls /\ Made(Next1)
  BY <1>1, MadeNext
<1>3. /\ Next1.node \in Nodes /\ Next1.candidate \in Nodes /\ Next1.way \in {"in", "out"}
      /\ Next1 = ProposeCall(Next1.node, Next1.candidate, Next1.way)
  BY <1>1, <1>2, CallForms
<1>4. /\ proposal' = [proposal EXCEPT ![Next1.node][Next1.candidate] = Next1.way]
      /\ Next1.node \in Running
      /\ UNCHANGED <<fullnodes, newFullnodes, container, peers, validators, faults>>
  BY DEF Propose, Abort, Fine, harness
<1> QED BY <1>2, <1>3, <1>4

\* A node that is none of the candidates has been kept.
LEMMA FineKeep ==
  ASSUME Typed, Ordered, Keep, Fine'
  PROVE  \E n \in Nodes :
           /\ Made(KeepCall(n))
           /\ Kept' = IF Stays(n) THEN Kept \cup {n} ELSE Kept
           /\ UNCHANGED <<fullnodes, container, peers, proposal, validators, faults>>
<1>1. Continue /\ todo # <<>> /\ result = "busy" /\ Next1.do = "keep"
  BY DEF Keep, Doing
<1>2. Next1 \in Calls /\ Made(Next1)
  BY <1>1, MadeNext
<1>3. Next1.node \in Nodes /\ Next1 = KeepCall(Next1.node)
  BY <1>1, <1>2, CallForms
<1>4. /\ newFullnodes' = IF Stays(Next1.node) THEN Append(newFullnodes, Next1.node)
                                             ELSE newFullnodes
      /\ UNCHANGED <<fullnodes, container, peers, proposal, validators, faults>>
  BY DEF Keep, nodeVars
<1>5. Values(Append(newFullnodes, Next1.node)) = Kept \cup {Next1.node}
  <2> DEFINE s == Append(newFullnodes, Next1.node)
  <2>1. newFullnodes \in Seq(Nodes)
    BY DEF Typed
  <2>2. /\ s \in Seq(Nodes) /\ Len(s) = Len(newFullnodes) + 1
        /\ \A i \in 1 .. Len(newFullnodes) : s[i] = newFullnodes[i]
        /\ s[Len(newFullnodes) + 1] = Next1.node
    BY <1>3, <2>1, AppendProperties
  <2> HIDE DEF s
  <2>3. /\ Len(newFullnodes) \in Nat /\ DOMAIN newFullnodes = 1 .. Len(newFullnodes)
        /\ DOMAIN s = 1 .. Len(newFullnodes) + 1
    BY <2>1, <2>2, LenProperties
  <2>4. \A i \in 1 .. Len(newFullnodes) + 1 :
          i \in 1 .. Len(newFullnodes) \/ i = Len(newFullnodes) + 1
    BY <2>3
  <2>5. /\ 1 .. Len(newFullnodes) \subseteq 1 .. Len(newFullnodes) + 1
        /\ Len(newFullnodes) + 1 \in 1 .. Len(newFullnodes) + 1
    BY <2>3
  <2>6. Values(s) \subseteq Kept \cup {Next1.node}
    BY <2>2, <2>3, <2>4 DEF Values, Kept
  <2>7. Kept \cup {Next1.node} \subseteq Values(s)
    BY <2>2, <2>3, <2>5 DEF Values, Kept
  <2> QED BY <2>6, <2>7 DEF s
<1>6. Kept' = IF Stays(Next1.node) THEN Kept \cup {Next1.node} ELSE Kept
  BY <1>4, <1>5 DEF Kept
<1> QED BY <1>2, <1>3, <1>4, <1>6

\* A node has been told of a peer, unless the two have the same container ID.
LEMMA FineConnect ==
  ASSUME Typed, Ordered, Connect, Fine'
  PROVE  \E v, w \in Nodes :
           /\ \/ /\ Made(MeshCall(v, w))
                 /\ peers' = peers => <<v, w>> \in peers \/ ContainerID(v) = ContainerID(w)
              \/ Made(RingCall(v, w))
           /\ peers' = peers \/ peers' = peers \cup {<<v, w>>}
           /\ UNCHANGED <<fullnodes, newFullnodes, container, proposal, validators, faults>>
<1>1. Continue /\ todo # <<>> /\ result = "busy" /\ Next1.do = "connect"
  BY DEF Connect, Doing, Abort, Fine
<1>2. Next1 \in Calls /\ Made(Next1)
  BY <1>1, MadeNext
<1>3. /\ Next1.node \in Nodes /\ Next1.peer \in Nodes
      /\ \/ Next1 = MeshCall(Next1.node, Next1.peer)
         \/ Next1 = RingCall(Next1.node, Next1.peer) /\ Next1.self
  BY <1>1, <1>2, CallForms
<1>4. /\ \/ peers' = peers /\ ContainerID(Next1.node) = ContainerID(Next1.peer)
         \/ peers' = peers \cup {<<Next1.node, Next1.peer>>}
      /\ UNCHANGED <<fullnodes, newFullnodes, container, proposal, validators, faults>>
  BY DEF Connect, Abort, Fine, harness
<1>5. \/ Made(MeshCall(Next1.node, Next1.peer)) \/ Made(RingCall(Next1.node, Next1.peer))
  BY <1>2, <1>3
<1>6. peers' = peers => \/ <<Next1.node, Next1.peer>> \in peers
                        \/ ContainerID(Next1.node) = ContainerID(Next1.peer)
  BY <1>4
<1> QED BY <1>3, <1>4, <1>5, <1>6

\* The wait is over.
LEMMA FineWait ==
  ASSUME Typed, Ordered, Wait, Fine'
  PROVE  /\ Made(WaitCall) /\ op.name = "RemoveFullnodes"
         /\ UNCHANGED <<fullnodes, newFullnodes, container, peers, proposal, validators, faults>>
<1>1. Continue /\ todo # <<>> /\ result = "busy" /\ Next1.do = "wait"
  BY DEF Wait, Doing
<1>2. Next1 \in Calls /\ Made(Next1)
  BY <1>1, MadeNext
<1>3. Next1 = WaitCall
  BY <1>1, <1>2, CallForms
<1>4. UNCHANGED <<fullnodes, newFullnodes, container, peers, proposal, validators, faults>>
  BY DEF Wait, harness, nodeVars
<1>5. op.name = "RemoveFullnodes"
  BY <1>1, <1>2 DEF Made, Fits
<1> QED BY <1>2, <1>3, <1>4, <1>5

\* The nodes that stay are the fullnodes now.
LEMMA FineAssign ==
  ASSUME Typed, Ordered, Assign, Fine'
  PROVE  /\ Made(AssignCall) /\ op.name = "RemoveFullnodes" /\ Members' = Kept
         /\ UNCHANGED <<newFullnodes, container, peers, proposal, validators, faults>>
<1>1. Continue /\ todo # <<>> /\ result = "busy" /\ Next1.do = "assign"
  BY DEF Assign, Doing
<1>2. Next1 \in Calls /\ Made(Next1)
  BY <1>1, MadeNext
<1>3. Next1 = AssignCall
  BY <1>1, <1>2, CallForms
<1>4. fullnodes' = newFullnodes
      /\ UNCHANGED <<newFullnodes, container, peers, proposal, validators, faults>>
  BY DEF Assign, nodeVars
<1>5. Members' = Kept
  BY <1>4 DEF Members, Kept, Values
<1>6. op.name = "RemoveFullnodes"
  BY <1>1, <1>2 DEF Made, Fits
<1> QED BY <1>2, <1>3, <1>4, <1>5, <1>6

\* A candidate's container has been removed.
LEMMA FineStopNode ==
  ASSUME Typed, Ordered, StopNode, Fine'
  PROVE  \E n \in Nodes :
           /\ Made(StopCall(n)) /\ op.name = "RemoveFullnodes" /\ n \in Leaving
           /\ container' = [container EXCEPT ![n] = "removed"]
           /\ peers' = {p \in peers : p[1] # n}
           /\ UNCHANGED <<fullnodes, newFullnodes, proposal, validators, faults>>
<1>1. Next1.do = "stop" /\ todo # <<>> /\ result = "busy" /\ op' = op
  BY DEF StopNode, Doing, harness
<1>2. Next1 \in Calls /\ Next1 \in Due
  <2>1. todo[1] \in Due
    BY <1>1, EmptySeq, ValuesType DEF Typed, Due
  <2> QED BY <1>1, <2>1, NextCall DEF Next1
<1>3. Fits(Next1)
  BY <1>2 DEF Ordered
<1>4. op.name = "RemoveFullnodes" /\ Next1.node \in Leaving /\ ~ Next1.force
  BY <1>1, <1>3 DEF Fits, Fine
<1>5. Next1.node \in Nodes /\ Next1 = StopCall(Next1.node)
  BY <1>1, <1>2, <1>4, CallForms
<1>6. /\ container' = [container EXCEPT ![Next1.node] = "removed"]
      /\ peers' = {p \in peers : p[1] # Next1.node} /\ Continue
      /\ UNCHANGED <<fullnodes, newFullnodes, proposal, validators, faults>>
  BY <1>4 DEF StopNode, Abort, Fine, harness
<1>7. Made(Next1)
  BY <1>1, <1>6, MadeNext
<1> QED BY <1>4, <1>5, <1>6, <1>7

\* What happens besides changes no call.
LEMMA FineSilent ==
  ASSUME Return \/ Silent
  PROVE  Due' = Due /\ Members' = Members /\ UNCHANGED <<fullnodes, newFullnodes, peers, proposal>>
<1>1. UNCHANGED <<todo, fullnodes, newFullnodes, peers, proposal>>
  BY DEF Return, Silent, Tally, Crash, harness, nodeVars, vars
<1> QED BY <1>1 DEF Due, Members

-----------------------------------------------------------------------------
(* No container is forgotten                                               *)

\* The kinds of calls, and whom they are about, tell them apart.
LEMMA CallFields ==
  /\ \A n : StartCall(n).do = "start" /\ StartCall(n).node = n
  /\ \A v, c, way : /\ ProposeCall(v, c, way).do = "propose" /\ ProposeCall(v, c, way).node = v
                    /\ ProposeCall(v, c, way).candidate = c /\ ProposeCall(v, c, way).way = way
  /\ \A n : KeepCall(n).do = "keep" /\ KeepCall(n).node = n
  /\ \A v, w : /\ MeshCall(v, w).do = "connect" /\ MeshCall(v, w).node = v
               /\ MeshCall(v, w).peer = w /\ ~ MeshCall(v, w).self
  /\ \A v, w : RingCall(v, w).do = "connect" /\ RingCall(v, w).self
  /\ WaitCall.do = "wait" /\ AssignCall.do = "assign"
  /\ \A n : StopCall(n).do = "stop" /\ StopCall(n).node = n /\ ~ StopCall(n).force
  /\ \A n : ForcedStopCall(n).do = "stop" /\ ForcedStopCall(n).node = n /\ ForcedStopCall(n).force
<1>1. /\ \A n : StartCall(n).do = "start" /\ StartCall(n).node = n
      /\ \A n : KeepCall(n).do = "keep" /\ KeepCall(n).node = n
      /\ WaitCall.do = "wait" /\ AssignCall.do = "assign"
  BY DEF StartCall, KeepCall, WaitCall, AssignCall
<1>2. \A v, c, way : /\ ProposeCall(v, c, way).do = "propose" /\ ProposeCall(v, c, way).node = v
                     /\ ProposeCall(v, c, way).candidate = c /\ ProposeCall(v, c, way).way = way
  BY DEF ProposeCall
<1>3. /\ \A v, w : /\ MeshCall(v, w).do = "connect" /\ MeshCall(v, w).node = v
                   /\ MeshCall(v, w).peer = w /\ ~ MeshCall(v, w).self
      /\ \A v, w : RingCall(v, w).do = "connect" /\ RingCall(v, w).self
  BY DEF MeshCall, RingCall
<1>4. /\ \A n : StopCall(n).do = "stop" /\ StopCall(n).node = n /\ ~ StopCall(n).force
      /\ \A n : ForcedStopCall(n).do = "stop" /\ ForcedStopCall(n).node = n
                  /\ ForcedStopCall(n).force
  BY DEF StopCall, ForcedStopCall
<1> QED BY <1>1, <1>2, <1>3, <1>4

\* Where the containers are: those of nodes that are no fullnodes, or no
\* longer, are gone or about to be stopped; RemoveFullnodes keeps exactly those
\* it was not told to remove, which it can tell because every fullnode that is
\* not about to be started has a container.
Homes ==
  /\ \A n \in Nodes \ Members : container[n] \in {"none", "removed"} \/ StopCall(n) \in Due
  /\ \A n \in Nodes : StartCall(n) \in Due => n \in Members
  /\ \A n \in Nodes :
       KeepCall(n) \in Due => n \in Members /\ Leaving \subseteq Members /\ AssignCall \in Due
  /\ AssignCall \in Due =>
       /\ \A n \in Leaving : StopCall(n) \in Due
       /\ Kept \subseteq Members \ Leaving
       /\ \A n \in Members : KeepCall(n) \in Due \/ n \in Leaving \/ n \in Kept
  /\ op.name = "RemoveFullnodes" /\ AssignCall \notin Due => Leaving \cap Members = {}
  /\ op.name = "NewBlockchain" => \A n \in Nodes : container[n] = "none"
  /\ op.name # "NewBlockchain" => \A n \in Members : container[n] # "none" \/ StartCall(n) \in Due

\* A fullnode stays when it is none of the candidates.
LEMMA StaysWhen ==
  ASSUME Typed, Ordered, Created, Homes, op.name = "RemoveFullnodes", Leaving \subseteq Members,
         NEW n \in Members
  PROVE  Stays(n) <=> n \notin Leaving
<1>1. \A m \in Members : m \in Nodes
  BY MembersAre, ValuesType DEF Typed
<1>2. \A m \in Nodes : StartCall(m) \notin Due
  BY CallFields DEF Ordered, Fits
<1>3. \A m \in Members : ContainerID(m) = m
  BY <1>1, <1>2 DEF Homes, ContainerID
<1>4. Leaving = {op.candidates[i] : i \in DOMAIN op.candidates}
  BY DEF Leaving, Values
<1>5. \A i \in DOMAIN op.candidates : op.candidates[i] \in Members
  BY <1>4
<1> QED BY <1>3, <1>4, <1>5 DEF Stays

\* Every call keeps the containers where they should be.
LEMMA HomesStep ==
  ASSUME Typed, Ordered, Created, Fine => Homes, Step \/ Silent, Fine'
  PROVE  Homes'
<1>1. /\ Fine /\ Homes /\ UNCHANGED op /\ Leaving' = Leaving
      /\ container \in [Nodes -> {"none", "running", "exited", "removed"}]
  BY FineBefore DEF Typed
<1>2. Members \subseteq Nodes
  BY MembersAre, ValuesType DEF Typed
<1>3. CASE StartNode
  <2>1. PICK n \in Nodes : /\ Made(StartCall(n))
                           /\ container' = [container EXCEPT ![n] = "running"]
                           /\ UNCHANGED <<fullnodes, newFullnodes>>
    BY <1>1, <1>3, FineStart
  <2>2. /\ StartCall(n) \in Due /\ Due' \subseteq Due
        /\ \A d \in Due : d = StartCall(n) \/ d \in Due'
    BY <2>1 DEF Made
  <2>3. Members' = Members /\ Kept' = Kept
    BY <2>1 DEF Members, Kept
  <2>4. n \in Members /\ op.name # "NewBlockchain"
    BY <1>1, <2>2, CallFields DEF Homes, Ordered, Fits
  <2> QED BY <1>1, <1>2, <2>1, <2>2, <2>3, <2>4, CallFields DEF Homes
<1>4. CASE Propose
  <2>1. PICK v, c \in Nodes, way \in {"in", "out"} :
          Made(ProposeCall(v, c, way)) /\ UNCHANGED <<fullnodes, newFullnodes, container>>
    BY <1>1, <1>4, FinePropose
  <2>2. Due' \subseteq Due /\ \A d \in Due : d = ProposeCall(v, c, way) \/ d \in Due'
    BY <2>1 DEF Made
  <2>3. Members' = Members /\ Kept' = Kept
    BY <2>1 DEF Members, Kept
  <2> QED BY <1>1, <2>1, <2>2, <2>3, CallFields DEF Homes
<1>5. CASE Keep
  <2>1. PICK n \in Nodes : /\ Made(KeepCall(n))
                           /\ Kept' = IF Stays(n) THEN Kept \cup {n} ELSE Kept
                           /\ UNCHANGED <<fullnodes, container>>
    BY <1>1, <1>5, FineKeep
  <2>2. KeepCall(n) \in Due /\ Due' \subseteq Due /\ \A d \in Due : d = KeepCall(n) \/ d \in Due'
    BY <2>1 DEF Made
  <2>3. Members' = Members
    BY <2>1 DEF Members
  <2>4. /\ op.name = "RemoveFullnodes" /\ n \in Members /\ AssignCall \in Due
        /\ Leaving \subseteq Members
    BY <1>1, <2>2, CallFields DEF Homes, Ordered, Fits
  <2>5. Stays(n) <=> n \notin Leaving
    BY <1>1, <2>4, StaysWhen DEF Homes
  <2> QED BY <1>1, <2>1, <2>2, <2>3, <2>4, <2>5, CallFields DEF Homes
<1>6. CASE Connect
  <2>1. PICK v, w \in Nodes : /\ Made(MeshCall(v, w)) \/ Made(RingCall(v, w))
                              /\ UNCHANGED <<fullnodes, newFullnodes, container>>
    BY <1>1, <1>6, FineConnect
  <2>2. /\ Due' \subseteq Due
        /\ \A d \in Due : d \in {MeshCall(v, w), RingCall(v, w)} \/ d \in Due'
    BY <2>1 DEF Made
  <2>3. Members' = Members /\ Kept' = Kept
    BY <2>1 DEF Members, Kept
  <2> QED BY <1>1, <2>1, <2>2, <2>3, CallFields DEF Homes
<1>7. CASE Wait
  <2>1. Made(WaitCall) /\ UNCHANGED <<fullnodes, newFullnodes, container>>
    BY <1>1, <1>7, FineWait
  <2>2. Due' \subseteq Due /\ \A d \in Due : d = WaitCall \/ d \in Due'
    BY <2>1 DEF Made
  <2>3. Members' = Members /\ Kept' = Kept
    BY <2>1 DEF Members, Kept
  <2> QED BY <1>1, <2>1, <2>2, <2>3, CallFields DEF Homes
<1>8. CASE Assign
  <2>1. Made(AssignCall) /\ Members' = Kept /\ UNCHANGED <<newFullnodes, container>>
        /\ op.name = "RemoveFullnodes"
    BY <1>1, <1>8, FineAssign
  <2>2. /\ AssignCall \in Due /\ Due' \subseteq Due /\ \A d \in Due : d = AssignCall \/ d \in Due'
        /\ \A d \in Due : Rank(AssignCall) <= Rank(d)
    BY <2>1 DEF Made
  <2>3. \A n \in Nodes : KeepCall(n) \notin Due /\ StartCall(n) \notin Due
    BY <2>2, CallTypes
  <2>4. Kept = Members \ Leaving
    BY <1>1, <1>2, <2>2, <2>3 DEF Homes
  <2>5. \A n \in Leaving : StopCall(n) \in Due'
    BY <1>1, <2>2, CallFields DEF Homes
  <2>6. ASSUME NEW n \in Nodes \ Members'
        PROVE  container'[n] \in {"none", "removed"} \/ StopCall(n) \in Due'
    <3>1. n \in Leaving \/ n \in Nodes \ Members
      BY <2>1, <2>4
    <3> QED BY <1>1, <2>1, <2>2, <2>5, <3>1, CallFields DEF Homes
  <2>7. Kept' = Members' \ Leaving
    BY <2>1, <2>4 DEF Kept
  <2> QED BY <1>1, <2>1, <2>2, <2>3, <2>4, <2>5, <2>6, <2>7, CallFields DEF Homes
<1>9. CASE StopNode
  <2>1. PICK n \in Nodes : /\ Made(StopCall(n)) /\ op.name = "RemoveFullnodes" /\ n \in Leaving
                           /\ container' = [container EXCEPT ![n] = "removed"]
                           /\ UNCHANGED <<fullnodes, newFullnodes>>
    BY <1>1, <1>9, FineStopNode
  <2>2. /\ StopCall(n) \in Due /\ Due' \subseteq Due /\ \A d \in Due : d = StopCall(n) \/ d \in Due'
        /\ \A d \in Due : Rank(StopCall(n)) <= Rank(d)
    BY <2>1 DEF Made
  <2>3. Members' = Members /\ Kept' = Kept
    BY <2>1 DEF Members, Kept
  <2>4. AssignCall \notin Due
    BY <2>2, CallTypes
  <2> QED BY <1>1, <1>2, <2>1, <2>2, <2>3, <2>4, CallFields DEF Homes
<1>10. CASE Return \/ Silent
  <2>1. Due' = Due /\ Members' = Members /\ Kept' = Kept
    BY <1>10, FineSilent DEF Kept
  <2>2. \/ container' = container
        \/ \E n \in Nodes : /\ container[n] = "running"
                            /\ container' = [container EXCEPT ![n] = "exited"]
    BY <1>10 DEF Return, Silent, Tally, Crash, harness, nodeVars, vars
  <2>3. \A n \in Nodes : /\ container'[n] = "none" <=> container[n] = "none"
                         /\ container'[n] = "removed" <=> container[n] = "removed"
    BY <1>1, <2>2
  <2> QED BY <1>1, <1>2, <2>1, <2>3 DEF Homes
<1> QED BY <1>3, <1>4, <1>5, <1>6, <1>7, <1>8, <1>9, <1>10 DEF Step

\* Calling an operation forgets no container either.
LEMMA HomesCall ==
  ASSUME Typed, Ordered, Created, Fine => Homes, Fine',
         \/ \E strong \in BOOLEAN : Start(strong)
         \/ \E k \in AddSizes : AddFullnodes(k)
         \/ \E cs \in Candidates : RemoveFullnodes(cs)
  PROVE  Homes'
<1>2. Members \subseteq Nodes
  BY MembersAre, ValuesType DEF Typed
<1>3. ASSUME NEW strong \in BOOLEAN, Start(strong) PROVE Homes'
  <2>1. /\ Fine /\ Homes /\ op.name = "NewBlockchain" /\ op'.name = "Start"
        /\ \A n \in Nodes : StartCall(n) \in Due' <=> n \in Members
        /\ \A c \in Due' : c.do \in {"start", "connect"}
        /\ Members' = Members /\ container' = container
    BY <1>3, StartForm DEF Fine, Members
  <2>2. \A n \in Nodes : KeepCall(n) \notin Due'
    BY <2>1, CallFields
  <2>3. AssignCall \notin Due'
    BY <2>1, CallFields
  <2> QED BY <1>2, <2>1, <2>2, <2>3 DEF Homes
<1>4. ASSUME NEW k \in AddSizes, AddFullnodes(k) PROVE Homes'
  <2>1. /\ Usable /\ result = "nil" /\ op'.name = "AddFullnodes" /\ Members' = Members \cup Joining'
        /\ Due' = {StartCall(n) : n \in Joining'} \cup Ballot(Members, Joining', "in")
                    \cup Mesh(Members')
        /\ container' = container
    BY <1>4, AddForm
  <2>2. Fine /\ Homes /\ op.name # "NewBlockchain" /\ Due = {}
    BY <2>1, EmptyValues DEF Usable, Fine, Ordered, Due
  <2>3. \A n \in Nodes : KeepCall(n) \notin Due'
    BY <2>1, CallFields DEF Ballot, Mesh
  <2>4. AssignCall \notin Due'
    BY <2>1, CallFields DEF Ballot, Mesh
  <2>5. \A n \in Nodes : StartCall(n) \in Due' <=> n \in Joining'
    BY <2>1, CallFields DEF Ballot, Mesh
  <2> QED BY <1>2, <2>1, <2>2, <2>3, <2>4, <2>5 DEF Homes
<1>5. ASSUME NEW cs \in Candidates, RemoveFullnodes(cs) PROVE Homes'
  <2>1. /\ Usable /\ result = "nil" /\ op'.name = "RemoveFullnodes" /\ Members' = Members
        /\ Leaving' \subseteq Members /\ Kept' = {} /\ container' = container
        /\ Due' = Ballot(Members, Leaving', "out") \cup {KeepCall(v) : v \in Members}
                    \cup {WaitCall, AssignCall} \cup {StopCall(n) : n \in Leaving'}
    BY <1>5, RemoveForm DEF Members
  <2>2. Fine /\ Homes /\ op.name # "NewBlockchain" /\ Due = {}
    BY <2>1, EmptyValues DEF Usable, Fine, Ordered, Due
  <2>3. \A n \in Nodes : StartCall(n) \notin Due' /\ (KeepCall(n) \in Due' <=> n \in Members)
    BY <2>1, CallFields DEF Ballot
  <2>4. AssignCall \in Due' /\ \A n \in Leaving' : StopCall(n) \in Due'
    BY <2>1
  <2>5. \A n \in Members : KeepCall(n) \in Due'
    BY <2>1
  <2> QED BY <1>2, <2>1, <2>2, <2>3, <2>4, <2>5 DEF Homes
<1> QED BY <1>3, <1>4, <1>5

\* There are no containers at first.
LEMMA HomesInit == Init => Homes
<1> SUFFICES ASSUME Init PROVE Homes
  OBVIOUS
<1>1. Due = {}
  BY EmptyValues DEF Init, Due
<1>2. op.name = "NewBlockchain" /\ \A n \in Nodes : container[n] = "none"
  BY DEF Init
<1> QED BY <1>1, <1>2 DEF Homes

\* Operations keep the containers where they should be, until one fails.
LEMMA HomesNext ==
  Typed /\ Ordered /\ Created /\ (Fine => Homes) /\ [Next]_vars => (Fine => Homes)'
<1> SUFFICES ASSUME Typed, Ordered, Created, Fine => Homes, [Next]_vars, Fine' PROVE Homes'
  OBVIOUS
<1>1. CASE Step \/ Silent
  BY <1>1, HomesStep
<1>2. CASE \/ \E strong \in BOOLEAN : Start(strong)
           \/ \E k \in AddSizes : AddFullnodes(k)
           \/ \E cs \in Candidates : RemoveFullnodes(cs)
  BY <1>2, HomesCall
<1>3. ~ \E force \in BOOLEAN : Stop(force)
  BY StopForm DEF Fine
<1> QED BY <1>1, <1>2, <1>3 DEF Next, Silent

\* As long as nothing has failed, containers are where they should be.
LEMMA AlwaysHomes == Spec => [](Fine => Homes)
BY HomesInit, HomesNext, Shape, PTL DEF Spec

\* As long as operations succeed, every container belongs to a fullnode the
\* blockchain knows: RemoveFullnodes stops each node it takes off the list.
THEOREM NoStray == Spec => []NoStrayContainer
<1>1. Typed /\ Ordered /\ (Fine => Homes) => NoStrayContainer
  <2> SUFFICES ASSUME Ordered, Fine => Homes,
                      Succeeded({"Start", "AddFullnodes", "RemoveFullnodes"}),
                      NEW n \in Nodes \ Members
               PROVE  container[n] \in {"none", "removed"}
    BY DEF NoStrayContainer
  <2>1. Due = {}
    BY EmptyValues DEF Succeeded, Ordered, Due
  <2> QED BY <2>1 DEF Succeeded, Fine, Homes
<1> QED BY <1>1, Shape, AlwaysHomes, PTL
-----------------------------------------------------------------------------
(* Everybody is connected to everybody                                     *)

\* Every fullnode knows every other, or is about to be told.
Meshed == \A v, w \in Members : v # w => <<v, w>> \in peers \/ MeshCall(v, w) \in Due

\* A mesh stays one: what is skipped because of equal container IDs are the
\* connections of nodes to themselves, and the node whose connections a stop
\* takes away is no fullnode any more.
LEMMA MeshedStep ==
  ASSUME Typed, Ordered, Created, Fine => Homes, Meshed, op.name # "NewBlockchain",
         Step \/ Silent, Fine'
  PROVE  Meshed'
<1>1. Fine /\ Homes /\ op' = op
  BY FineBefore
<1>2. Members \subseteq Nodes
  BY MembersAre, ValuesType DEF Typed
<1>3. CASE StartNode \/ Propose \/ Keep \/ Wait
  <2>1. \E c : Made(c) /\ c.do # "connect" /\ UNCHANGED <<fullnodes, peers>>
    BY <1>1, <1>3, FineStart, FinePropose, FineKeep, FineWait, CallFields
  <2>2. PICK c : Made(c) /\ c.do # "connect" /\ UNCHANGED <<fullnodes, peers>>
    BY <2>1
  <2>3. \A d \in Due : d = c \/ d \in Due'
    BY <2>2 DEF Made
  <2>4. Members' = Members
    BY <2>2 DEF Members
  <2> QED BY <2>2, <2>3, <2>4, CallFields DEF Meshed
<1>4. CASE Connect
  <2>1. PICK v, w \in Nodes :
          /\ \/ /\ Made(MeshCall(v, w))
                /\ peers' = peers => <<v, w>> \in peers \/ ContainerID(v) = ContainerID(w)
             \/ Made(RingCall(v, w))
          /\ peers' = peers \/ peers' = peers \cup {<<v, w>>}
          /\ UNCHANGED fullnodes
    BY <1>1, <1>4, FineConnect
  <2>2. Members' = Members /\ peers \subseteq peers'
    BY <2>1 DEF Members
  <2>3. CASE Made(RingCall(v, w))
    <3>1. \A d \in Due : d = RingCall(v, w) \/ d \in Due'
      BY <2>3 DEF Made
    <3> QED BY <2>2, <3>1, CallFields DEF Meshed
  <2>4. CASE Made(MeshCall(v, w)) /\ ~ Made(RingCall(v, w))
    <3>1. /\ \A d \in Due : d = MeshCall(v, w) \/ d \in Due'
          /\ \A d \in Due : Rank(MeshCall(v, w)) <= Rank(d)
      BY <2>4 DEF Made
    <3>2. \A n \in Nodes : StartCall(n) \notin Due
      BY <2>1, <3>1, CallTypes
    <3>3. \A n \in Members : ContainerID(n) = n
      BY <1>1, <1>2, <3>2 DEF Homes, ContainerID
    <3>4. v \in Members /\ w \in Members /\ v # w => <<v, w>> \in peers'
      BY <2>1, <2>4, <3>3
    <3>5. \A x, y : MeshCall(x, y) = MeshCall(v, w) => x = v /\ y = w
      BY CallFields
    <3> QED BY <2>2, <3>1, <3>4, <3>5 DEF Meshed
  <2> QED BY <2>1, <2>3, <2>4
<1>5. CASE Assign
  <2>1. Made(AssignCall) /\ Members' = Kept /\ peers' = peers
    BY <1>1, <1>5, FineAssign
  <2>2. AssignCall \in Due /\ \A d \in Due : d = AssignCall \/ d \in Due'
    BY <2>1 DEF Made
  <2>3. Members' \subseteq Members
    BY <1>1, <2>1, <2>2 DEF Homes
  <2> QED BY <2>1, <2>2, <2>3, CallFields DEF Meshed
<1>6. CASE StopNode
  <2>1. PICK n \in Nodes : /\ Made(StopCall(n)) /\ op.name = "RemoveFullnodes" /\ n \in Leaving
                           /\ peers' = {p \in peers : p[1] # n} /\ fullnodes' = fullnodes
    BY <1>1, <1>6, FineStopNode
  <2>2. /\ \A d \in Due : d = StopCall(n) \/ d \in Due'
        /\ \A d \in Due : Rank(StopCall(n)) <= Rank(d)
    BY <2>1 DEF Made
  <2>3. AssignCall \notin Due
    BY <2>2, CallTypes
  <2>4. n \notin Members /\ Members' = Members
    BY <1>1, <2>1, <2>3 DEF Homes, Members
  <2> QED BY <2>1, <2>2, <2>4, CallFields DEF Meshed
<1>7. CASE Return \/ Silent
  BY <1>7, FineSilent DEF Meshed
<1> QED BY <1>3, <1>4, <1>5, <1>6, <1>7 DEF Step

\* The operations that make a mesh, unless they fail.
MeshMade ==
  Fine /\ op.name \in {"Start", "AddFullnodes"} /\ (op.name = "Start" => op.strong) => Meshed

\* No operation has been called that would make a mesh.
LEMMA MeshInit == Init => MeshMade
BY DEF Init, MeshMade

\* Every step keeps the mesh that is being made.
LEMMA MeshNext ==
  /\ Typed /\ Ordered /\ Created /\ (Fine => Homes)
  /\ MeshMade /\ [Next]_vars
  => MeshMade'
<1> SUFFICES ASSUME Typed, Ordered, Created, Fine => Homes, MeshMade, [Next]_vars, Fine',
                    op'.name \in {"Start", "AddFullnodes"}, op'.name = "Start" => op'.strong
             PROVE  Meshed'
  BY DEF MeshMade
<1>1. CASE Step \/ Silent
  BY <1>1, FineBefore, MeshedStep DEF MeshMade
<1>2. ASSUME NEW strong \in BOOLEAN, Start(strong) PROVE Meshed'
  <2>1. /\ Members' = Members /\ op'.name = "Start" /\ op'.strong = strong
        /\ strong => \A v, w \in Members : MeshCall(v, w) \in Due'
    BY <1>2, StartForm DEF Members
  <2> QED BY <2>1 DEF Meshed
<1>3. ASSUME NEW k \in AddSizes, AddFullnodes(k) PROVE Meshed'
  <2>1. Mesh(Members') \subseteq Due'
    BY <1>3, AddForm
  <2> QED BY <2>1 DEF Meshed, Mesh
<1>4. ASSUME NEW cs \in Candidates, RemoveFullnodes(cs) PROVE FALSE
  BY <1>4, RemoveForm
<1>5. ASSUME NEW force \in BOOLEAN, Stop(force) PROVE FALSE
  BY <1>5, StopForm
<1> QED BY <1>1, <1>2, <1>3, <1>4, <1>5 DEF Next, Silent

\* The operations that make a mesh always leave one.
LEMMA AlwaysMesh == Spec => []MeshMade
BY MeshInit, MeshNext, Shape, AlwaysHomes, PTL DEF Spec

\* A strong Start and an AddFullnodes that succeed leave a complete mesh,
\* whatever the number of nodes and however many were asked for.
THEOREM MeshComplete == Spec => []MeshAfterSuccess
<1>1. Ordered /\ MeshMade => MeshAfterSuccess
  <2> SUFFICES ASSUME Ordered, MeshMade, Succeeded({"Start", "AddFullnodes"}),
                      op.name = "Start" => op.strong,
                      NEW v \in Members, NEW w \in Members, v # w
               PROVE  <<v, w>> \in peers
    BY DEF MeshAfterSuccess
  <2>1. Due = {} /\ Fine /\ op.name \in {"Start", "AddFullnodes"}
    BY EmptyValues DEF Succeeded, Ordered, Due, Fine
  <2> QED BY <2>1 DEF MeshMade, Meshed
<1> QED BY <1>1, Shape, AlwaysMesh, PTL

-----------------------------------------------------------------------------
(* A forced stop reaches everybody                                         *)

\* The containers a stop has passed by and left behind.
PassedBy ==
  {n \in Members : container[n] \in {"running", "exited"} /\ ForcedStopCall(n) \notin Due}

\* Each of them is the result of one failure.
StopInv == op.name = "Stop" /\ op.force => Cardinality(PassedBy) <= faults

\* What a stop has passed by can be counted.
LEMMA PassedByFinite ==
  ASSUME Typed
  PROVE  /\ Members \subseteq Nodes /\ IsFiniteSet(PassedBy) /\ Cardinality(PassedBy) \in Nat
<1>1. Members \subseteq Nodes
  BY MembersAre, ValuesType DEF Typed
<1>2. IsFiniteSet(Nodes)
  BY SizesAssumption, FS_Interval DEF Nodes
<1>3. PassedBy \subseteq Nodes
  BY <1>1 DEF PassedBy
<1> QED BY <1>1, <1>2, <1>3, FS_Subset, FS_CardinalityType

\* A stop passes by at most one more container with each failure.
LEMMA StopStep ==
  ASSUME Typed, Ordered, Typed', StopInv, op.name = "Stop", op.force, Step \/ Silent
  PROVE  Cardinality(PassedBy') <= faults'
<1>1. /\ Members \subseteq Nodes /\ IsFiniteSet(PassedBy) /\ Cardinality(PassedBy) \in Nat
      /\ Cardinality(PassedBy) <= faults /\ faults \in Nat
  BY PassedByFinite, SizesAssumption DEF StopInv, Typed
<1>2. IsFiniteSet(PassedBy')
  <2>1. fullnodes' \in Seq(Nodes) /\ Members' = Values(fullnodes')
    BY DEF Typed, Members, Values
  <2>2. PassedBy' \subseteq Nodes
    BY <2>1, ValuesType DEF PassedBy
  <2>3. IsFiniteSet(Nodes)
    BY SizesAssumption, FS_Interval DEF Nodes
  <2> QED BY <2>2, <2>3, FS_Subset
<1>c. ASSUME todo # <<>> PROVE Next1 \in Calls /\ Next1.do = "stop" /\ Next1.force
  <2>1. todo[1] \in Due
    BY <1>c, EmptySeq, ValuesType DEF Typed, Due
  <2>2. Next1 \in Due /\ Next1 \in Calls
    BY <1>c, <2>1, NextCall DEF Next1
  <2>3. Fits(Next1)
    BY <2>2 DEF Ordered
  <2>4. Next1.do \in {"start", "propose", "keep", "connect", "wait", "assign", "stop"}
    BY <2>2, CallForms
  <2> QED BY <2>2, <2>3, <2>4 DEF Fits
<1>3. CASE StopNode
  <2> DEFINE n == Next1.node
  <2>1. /\ result = "busy" /\ todo # <<>> /\ Next1 \in Calls /\ Next1.force /\ n \in Nodes
        /\ Next1 = ForcedStopCall(n)
    BY <1>3, <1>c, CallForms DEF StopNode, Doing
  <2>2. Continue /\ fullnodes' = fullnodes
    BY <1>3, <2>1 DEF StopNode, harness
  <2>3. \A d \in Due : d = ForcedStopCall(n) \/ d \in Due'
    BY <2>1, <2>2, DueAfter DEF Typed, Ordered, Advanced, Continue
  <2>4. Members' = Members
    BY <2>2 DEF Members
  <2>5. \A m : ForcedStopCall(m) = ForcedStopCall(n) => m = n
    BY CallFields
  <2>6. \A m \in Nodes : m # n => container'[m] = container[m]
    BY <1>3, <2>1 DEF StopNode, Typed
  <2>7. PassedBy' \subseteq PassedBy \cup {n}
    BY <1>1, <2>3, <2>4, <2>5, <2>6 DEF PassedBy
  <2>8. CASE faults' = faults
    <3>1. container'[n] \in {"none", "removed"}
      BY <1>3, <2>1, <2>8, <1>1 DEF StopNode, Typed, Fault
    <3>2. PassedBy' \subseteq PassedBy
      BY <2>7, <3>1 DEF PassedBy
    <3>3. Cardinality(PassedBy') <= Cardinality(PassedBy) /\ Cardinality(PassedBy') \in Nat
      BY <1>1, <1>2, <3>2, FS_Subset, FS_CardinalityType
    <3> QED BY <1>1, <2>8, <3>3
  <2>9. CASE faults' = faults + 1
    <3>1. /\ IsFiniteSet(PassedBy \cup {n})
          /\ Cardinality(PassedBy \cup {n}) <= Cardinality(PassedBy) + 1
          /\ Cardinality(PassedBy \cup {n}) \in Nat
      <4>1. /\ IsFiniteSet(PassedBy \cup {n})
            /\ \/ Cardinality(PassedBy \cup {n}) = Cardinality(PassedBy)
               \/ Cardinality(PassedBy \cup {n}) = Cardinality(PassedBy) + 1
        BY <1>1, FS_AddElement
      <4> QED BY <1>1, <4>1
    <3>2. Cardinality(PassedBy') <= Cardinality(PassedBy \cup {n}) /\ Cardinality(PassedBy') \in Nat
      BY <1>2, <2>7, <3>1, FS_Subset, FS_CardinalityType
    <3> QED BY <1>1, <2>9, <3>1, <3>2
  <2> QED BY <1>3, <2>8, <2>9 DEF StopNode, Fault
<1>4. CASE Return \/ Silent
  <2>1. Due' = Due /\ Members' = Members
    BY <1>4, FineSilent
  <2>2. /\ \/ container' = container
           \/ \E n \in Nodes : /\ container[n] = "running"
                               /\ container' = [container EXCEPT ![n] = "exited"]
        /\ faults' = faults \/ faults' = faults + 1
    BY <1>4 DEF Return, Silent, Tally, Crash, harness, nodeVars, vars, Fault
  <2>3. \A n \in Nodes : container'[n] \in {"running", "exited"} <=>
                           container[n] \in {"running", "exited"}
    BY <2>2 DEF Typed
  <2>4. PassedBy' = PassedBy
    BY <1>1, <2>1, <2>3 DEF PassedBy
  <2>5. Cardinality(PassedBy') = Cardinality(PassedBy)
    BY <2>4
  <2> QED BY <1>1, <2>2, <2>5
<1>5. CASE StartNode \/ Propose \/ Keep \/ Connect \/ Wait \/ Assign
  BY <1>5, <1>c DEF StartNode, Propose, Keep, Connect, Wait, Assign, Doing
<1> QED BY <1>3, <1>4, <1>5 DEF Step

\* Nothing has been stopped at first.
LEMMA StopInit == Init => StopInv
BY DEF Init, StopInv

\* Every step keeps the count of what was passed by.
LEMMA StopNext == Typed /\ Ordered /\ Created /\ StopInv /\ [Next]_vars => StopInv'
<1> SUFFICES ASSUME Typed, Ordered, Created, StopInv, [Next]_vars, op'.name = "Stop", op'.force
             PROVE  Cardinality(PassedBy') <= faults'
  BY DEF StopInv
<1>1. Typed'
  BY ShapeNext
<1>2. CASE Step \/ Silent
  BY <1>1, <1>2, StepForms, StopStep
<1>3. ASSUME NEW force \in BOOLEAN, Stop(force) PROVE Cardinality(PassedBy') <= faults'
  <2>1. /\ Due' = {ForcedStopCall(n) : n \in Members} /\ fullnodes' = fullnodes
        /\ faults' = faults
    BY <1>3, StopForm
  <2>2. Members' = Members
    BY <2>1 DEF Members
  <2>3. PassedBy' = {}
    BY <2>1, <2>2 DEF PassedBy
  <2>4. Cardinality(PassedBy') = 0 /\ faults' \in Nat
    BY <1>1, <2>3, FS_EmptySet, SizesAssumption DEF Typed
  <2> QED BY <2>4
<1>4. ASSUME NEW strong \in BOOLEAN, Start(strong) PROVE FALSE
  BY <1>4, StartForm
<1>5. ASSUME NEW k \in AddSizes, AddFullnodes(k) PROVE FALSE
  BY <1>5, AddForm
<1>6. ASSUME NEW cs \in Candidates, RemoveFullnodes(cs) PROVE FALSE
  BY <1>6, RemoveForm
<1> QED BY <1>2, <1>3, <1>4, <1>5, <1>6 DEF Next, Silent

\* Stop(true) reaches every fullnode: what it leaves behind are at most as
\* many containers as there were failures.
THEOREM ForcedStopComplete == Spec => []ForcedStopReachesAll
<1>1. Spec => []StopInv
  BY StopInit, StopNext, Shape, PTL DEF Spec
<1>2. StopInv => ForcedStopReachesAll
  <2> SUFFICES ASSUME StopInv, op.name = "Stop", op.force, todo = <<>>
               PROVE  Cardinality({n \in Members : container[n] \in {"running", "exited"}})
                        <= faults
    BY DEF ForcedStopReachesAll
  <2>1. Due = {}
    BY EmptyValues DEF Due
  <2>2. PassedBy = {n \in Members : container[n] \in {"running", "exited"}}
    BY <2>1 DEF PassedBy
  <2> QED BY <2>2 DEF StopInv
<1> QED BY <1>1, <1>2, PTL
=============================================================================

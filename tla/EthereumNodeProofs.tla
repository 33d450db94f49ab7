------------------------- MODULE EthereumNodeProofs -------------------------
(***************************************************************************)
(* Theorems about EthereumNode, for any number of health checks, calls and *)
(* failures: type correctness, that Stop survives one failure, that        *)
(* containers are left over only by failures, and that Init returning nil  *)
(* means that there is a genesis block.                                    *)
(***************************************************************************)
EXTENDS EthereumNode, FiniteSetTheorems, TLAPS

USE BoundsAssumption DEF BoundsAssumption

-----------------------------------------------------------------------------
(* Type correctness                                                        *)

\* The type invariant holds at first.
LEMMA TypeInit == Init => TypeOK
<1> SUFFICES ASSUME Init PROVE TypeOK
  OBVIOUS
<1>1. FlagsOK
  BY DEF Init, FlagsOK
<1> QED
  BY <1>1 DEF Init, TypeOK

\* No step makes a flag anything but TRUE or FALSE.
LEMMA FlagsNext == FlagsOK /\ [Next]_vars => FlagsOK'
<1> SUFFICES ASSUME FlagsOK, [Next]_vars PROVE FlagsOK'
  OBVIOUS
<1> USE DEF FlagsOK, ethVars, world, locals
<1>1. CASE Step
  BY <1>1, Zenon DEF Step, InitCreate, InitStart, InitWait, InitRemove, Create,
     StartContainer, HealthCheck, Check, StopContainer, RemoveContainer
<1>2. CASE InitNode \/ Start \/ Stop
  BY <1>2, Zenon DEF InitNode, Start, Stop, Invoke
<1>3. CASE InitWaitFails \/ GethInitExits \/ Serve \/ Crash
  BY <1>3, Zenon DEF InitWaitFails, GethInitExits, Serve, Crash
<1>4. CASE UNCHANGED vars
  BY <1>4, Zenon DEF vars
<1> QED
  BY <1>1, <1>2, <1>3, <1>4 DEF Next

\* Every step of the caller, the daemon and the processes keeps the types.
LEMMA TypeNext == TypeOK /\ [Next]_vars => TypeOK'
<1> SUFFICES ASSUME TypeOK, [Next]_vars PROVE TypeOK'
  OBVIOUS
<1> FlagsOK'
  BY FlagsNext DEF TypeOK
<1> USE DEF TypeOK, At, Goto, Return, Fault, NoFault, Existing, Is, Exists,
            ethVars, world, locals
<1>1. CASE InitNode
  BY <1>1 DEF InitNode, Invoke
<1>2. CASE InitCreate
  <2>1. CASE containers' = Append(containers, "created")
    <3>1. /\ containers' \in Seq(Existing \cup {"removed"})
          /\ Len(containers') = Len(containers) + 1
      BY <2>1
    <3> QED BY <1>2, <3>1 DEF InitCreate
  <2>2. CASE UNCHANGED containers
    BY <1>2, <2>2 DEF InitCreate
  <2> QED BY <1>2, <2>1, <2>2 DEF InitCreate
<1>3. CASE InitStart
  BY <1>3 DEF InitStart
<1>4. CASE InitWait
  BY <1>4 DEF InitWait
<1>5. CASE InitWaitFails
  BY <1>5 DEF InitWaitFails
<1>6. CASE InitRemove
  BY <1>6 DEF InitRemove
<1>7. CASE GethInitExits
  BY <1>7 DEF GethInitExits
<1>8. CASE Start
  BY <1>8 DEF Start, Invoke
<1>9. CASE Create
  <2>1. CASE containers' = Append(containers, "created")
    <3>1. /\ containers' \in Seq(Existing \cup {"removed"})
          /\ Len(containers') = Len(containers) + 1
      BY <2>1
    <3> QED BY <1>9, <3>1 DEF Create
  <2>2. CASE UNCHANGED containers
    BY <1>9, <2>2 DEF Create
  <2> QED BY <1>9, <2>1, <2>2 DEF Create
<1>10. CASE StartContainer
  BY <1>10 DEF StartContainer
<1>11. CASE HealthCheck
  BY <1>11 DEF HealthCheck
<1>12. CASE Check
  BY <1>12 DEF Check
<1>13. CASE Serve
  BY <1>13 DEF Serve
<1>14. CASE Crash
  BY <1>14 DEF Crash
<1>15. CASE Stop
  BY <1>15 DEF Stop, Invoke
<1>16. CASE StopContainer
  BY <1>16 DEF StopContainer, AfterStopError
<1>17. CASE RemoveContainer
  BY <1>17 DEF RemoveContainer
<1>18. CASE UNCHANGED vars
  BY <1>18 DEF vars
<1> QED
  BY <1>1, <1>2, <1>3, <1>4, <1>5, <1>6, <1>7, <1>8, <1>9, <1>10, <1>11,
     <1>12, <1>13, <1>14, <1>15, <1>16, <1>17, <1>18 DEF Next, Step

\* The node, its containers and the caller always have their types.
THEOREM TypeCorrect == Spec => []TypeOK
  BY TypeInit, TypeNext, PTL DEF Spec

-----------------------------------------------------------------------------
(* Stop survives one failure                                               *)

Down == ~ Is(containerID, "running")

\* Where the caller is tells which call it is in, and how far Stop has got:
\* without a failure so far, stopping the container has worked.
StopInv ==
  /\ pc \in {"initCreate", "initStart", "initWait", "initRemove", "hung"} => call = "Init"
  /\ pc \in {"create", "start", "health", "check"} => call = "Start"
  /\ pc \in {"stop", "remove"} => call = "Stop"
  /\ pc = "stop" => failed = 0
  /\ pc = "remove" => failed <= 1 /\ (failed = 0 => Down)
  /\ call = "Stop" /\ pc = "idle" /\ failed <= 1 => Down

\* No Stop is under way at first.
LEMMA StopInit == Init => StopInv
  BY DEF Init, StopInv, Down, Is

\* No step makes a container run while the caller is in Stop.
LEMMA StopNext == TypeOK /\ StopInv /\ [Next]_vars => StopInv'
<1> SUFFICES ASSUME TypeOK, StopInv, [Next]_vars PROVE StopInv'
  OBVIOUS
<1> USE DEF StopInv, At, Goto, Return, Fault, NoFault, ethVars, world, locals
<1>1. CASE InitNode \/ Start \/ Stop
  BY <1>1 DEF InitNode, Start, Stop, Invoke
<1>2. CASE InitCreate \/ InitStart \/ InitWait \/ InitRemove \/ InitWaitFails
  BY <1>2 DEF InitCreate, InitStart, InitWait, InitRemove, InitWaitFails
<1>3. CASE Create \/ StartContainer \/ HealthCheck \/ Check
  BY <1>3 DEF Create, StartContainer, HealthCheck, Check
<1>4. CASE GethInitExits
  <2>1. Down => Down'
    BY <1>4 DEF GethInitExits, Down, Is, TypeOK
  <2> QED BY <1>4, <2>1 DEF GethInitExits, TypeOK
<1>5. CASE Serve \/ Crash
  <2>1. Down => Down'
    BY <1>5 DEF Serve, Crash, Down, Is, TypeOK
  <2> QED BY <1>5, <2>1 DEF Serve, Crash
<1>6. CASE StopContainer
  <2>1. failed' = 0 => Down'
    BY <1>6 DEF StopContainer, AfterStopError, Down, Is, Exists, Existing, TypeOK
  <2> QED BY <1>6, <2>1 DEF StopContainer, AfterStopError, TypeOK
<1>7. CASE RemoveContainer
  <2>1. failed' <= 1 => Down'
    BY <1>7 DEF RemoveContainer, Down, Is, Exists, Existing, TypeOK
  <2> QED BY <1>7, <2>1 DEF RemoveContainer
<1>8. CASE UNCHANGED vars
  BY <1>8 DEF vars, Down, Is
<1> QED
  BY <1>1, <1>2, <1>3, <1>4, <1>5, <1>6, <1>7, <1>8 DEF Next, Step

\* Stop needs only one of the daemon's two calls to succeed.
THEOREM OneFailure == Spec => []OneFailureStillStops
<1>1. TypeOK /\ StopInv => OneFailureStillStops
  BY DEF StopInv, OneFailureStillStops, Down
<1> QED
  BY <1>1, TypeInit, TypeNext, StopInit, StopNext, PTL DEF Spec

-----------------------------------------------------------------------------
(* Containers are left over only by failures                               *)

Left == {c \in DOMAIN containers : Exists(c)}
Strays == Left \ {containerID}

\* Before a Start nothing exists but what a failure has left; from Create to
\* the end of Stop the node's own container is on top of that.
StrayInv ==
  /\ call \in {"NewEthereum", "Init"} => containerID = 0
  /\ call = "NewEthereum" => pc = "idle"
  /\ call = "NewEthereum" \/ pc = "initCreate" => containers = <<>>
  /\ pc \in {"initStart", "initWait", "initRemove"} =>
       Len(containers) = 1 /\ id = 1 /\ (containers[1] = "crashed" => faults >= 1)
  /\ pc = "create" \/ (pc = "idle" /\ call # "Start") => Cardinality(Left) <= faults
  /\ pc \in {"start", "health", "check", "stop", "remove"} \/ (pc = "idle" /\ call = "Start")
       => Cardinality(Strays) <= faults

\* The containers left over can be counted.
LEMMA LeftFinite == TypeOK => IsFiniteSet(Left) /\ IsFiniteSet(Strays)
<1> SUFFICES ASSUME TypeOK PROVE IsFiniteSet(Left) /\ IsFiniteSet(Strays)
  OBVIOUS
<1>1. Len(containers) \in Nat /\ DOMAIN containers = 1 .. Len(containers)
  BY DEF TypeOK
<1>2. IsFiniteSet(1 .. Len(containers))
  BY <1>1, FS_Interval
<1>3. Left \subseteq 1 .. Len(containers) /\ Strays \subseteq 1 .. Len(containers)
  BY <1>1 DEF Left, Strays
<1> QED
  BY <1>2, <1>3, FS_Subset

\* A bound on the size of a set is one on the size of its subsets.
LEMMA Smaller ==
  ASSUME NEW S, NEW T, NEW n \in Nat, IsFiniteSet(S), T \subseteq S, Cardinality(S) <= n
  PROVE  Cardinality(T) <= n
<1>1. /\ Cardinality(S) \in Nat /\ Cardinality(T) \in Nat
      /\ Cardinality(T) <= Cardinality(S)
  BY FS_Subset, FS_CardinalityType
<1> QED BY <1>1

\* The node's own container counts for one.
LEMMA OneMore == TypeOK /\ Cardinality(Strays) <= faults => Cardinality(Left) <= faults + 1
<1> SUFFICES ASSUME TypeOK, Cardinality(Strays) <= faults PROVE Cardinality(Left) <= faults + 1
  OBVIOUS
<1>1. /\ IsFiniteSet(Left) /\ IsFiniteSet(Strays)
      /\ Cardinality(Strays) \in Nat /\ faults \in Nat
  BY LeftFinite, FS_CardinalityType DEF TypeOK
<1>2. CASE containerID \in Left
  <2>1. Cardinality(Strays) = Cardinality(Left) - 1
    BY <1>1, <1>2, FS_RemoveElement DEF Strays
  <2> QED BY <1>1, <2>1, FS_CardinalityType
<1>3. CASE containerID \notin Left
  <2>1. Strays = Left
    BY <1>3 DEF Strays
  <2> QED BY <1>1, <2>1
<1> QED BY <1>2, <1>3

\* There are no containers at first.
LEMMA StrayInit == Init => StrayInv
<1> SUFFICES ASSUME Init PROVE StrayInv
  OBVIOUS
<1>1. Left = {} /\ Strays = {}
  BY DEF Init, Left, Strays
<1>2. Cardinality(Left) = 0 /\ Cardinality(Strays) = 0
  BY <1>1, FS_EmptySet
<1> QED BY <1>2 DEF Init, StrayInv

\* Only Create adds to the node's containers, and it does so under a new ID;
\* only a failure keeps one that InitRemove or Stop was to remove.
LEMMA StrayNext ==
  TypeOK /\ TypeOK' /\ StopInv /\ StrayInv /\ [Next]_vars => StrayInv'
<1> SUFFICES ASSUME TypeOK, TypeOK', StopInv, StrayInv, [Next]_vars PROVE StrayInv'
  OBVIOUS
<1>a. /\ faults \in Nat /\ faults' \in Nat
      /\ IsFiniteSet(Left) /\ IsFiniteSet(Strays)
      /\ IsFiniteSet(Left') /\ IsFiniteSet(Strays')
      /\ Strays \subseteq Left /\ Strays' \subseteq Left'
  <2>1. Len(containers') \in Nat /\ DOMAIN containers' = 1 .. Len(containers')
    BY DEF TypeOK
  <2>2. IsFiniteSet(1 .. Len(containers'))
    BY <2>1, FS_Interval
  <2>3. Left' \subseteq 1 .. Len(containers') /\ Strays' \subseteq 1 .. Len(containers')
    BY <2>1 DEF Left, Strays
  <2>4. IsFiniteSet(Left') /\ IsFiniteSet(Strays')
    BY <2>2, <2>3, FS_Subset
  <2> QED BY <2>4, LeftFinite DEF TypeOK, Strays
<1> USE DEF At, Goto, Return, Fault, NoFault, ethVars, world, locals
<1>s. ASSUME UNCHANGED <<containers, containerID>>
      PROVE  Left' = Left /\ Strays' = Strays
  BY <1>s DEF Left, Strays, Exists
<1>1. CASE InitNode \/ Start \/ Stop
  <2>1. /\ Left' = Left /\ Strays' = Strays /\ faults' = faults
        /\ UNCHANGED <<containers, containerID>>
    BY <1>1, <1>s DEF InitNode, Start, Stop, Invoke
  <2>2. CASE InitNode
    BY <2>1, <2>2 DEF InitNode, Invoke, StrayInv
  <2>3. CASE Start
    BY <2>1, <2>3 DEF Start, Invoke, StrayInv
  <2>4. CASE Stop
    <3>1. Cardinality(Strays) <= faults
      BY <2>4, <1>a, Smaller DEF Stop, Invoke, StrayInv
    <3> QED BY <2>1, <2>4, <3>1 DEF Stop, Invoke, StrayInv
  <2> QED BY <1>1, <2>2, <2>3, <2>4
<1>2. CASE InitCreate
  <2>1. containers = <<>> /\ call = "Init" /\ containerID' = 0
    BY <1>2 DEF InitCreate, StopInv, StrayInv
  <2>2. CASE containers' = Append(containers, "created")
    <3>1. Len(containers') = 1 /\ containers'[1] = "created"
      BY <2>1, <2>2
    <3> QED BY <1>2, <2>1, <2>2, <3>1 DEF InitCreate, StrayInv
  <2>3. CASE UNCHANGED containers
    <3>1. Left' = {}
      BY <2>1, <2>3 DEF Left
    <3>2. Cardinality(Left') <= faults'
      BY <3>1, <1>a, FS_EmptySet
    <3> QED BY <1>2, <2>1, <2>3, <3>2 DEF InitCreate, StrayInv
  <2> QED BY <1>2, <2>2, <2>3 DEF InitCreate
<1>3. CASE InitStart
  <2>1. /\ call = "Init" /\ call' = "Init" /\ pc' = "initWait" /\ containerID' = 0 /\ id' = 1
    BY <1>3 DEF InitStart, StopInv, StrayInv
  <2>2. Len(containers') = 1 /\ (containers'[1] = "crashed" => faults' >= 1)
    BY <1>3, <1>a DEF InitStart, StrayInv, TypeOK
  <2> QED BY <2>1, <2>2 DEF StrayInv
<1>4. CASE InitWait
  <2>1. /\ call = "Init" /\ call' = "Init" /\ containerID' = 0 /\ faults' = faults
        /\ Left' = Left /\ UNCHANGED <<containers, id>> /\ Len(containers) = 1
    BY <1>4, <1>s DEF InitWait, StopInv, StrayInv
  <2>2. CASE pc' = "initRemove"
    BY <1>4, <2>1, <2>2 DEF InitWait, StrayInv
  <2>3. CASE pc' = "idle" /\ containers[1] = "crashed"
    <3>1. Left \subseteq {1}
      BY <2>1 DEF Left
    <3>2. Cardinality({1}) = 1 /\ IsFiniteSet({1})
      BY FS_Singleton
    <3>3. Cardinality(Left') <= faults'
      BY <2>1, <2>3, <3>1, <3>2, <1>4, <1>a, Smaller DEF InitWait, StrayInv
    <3> QED BY <2>1, <2>3, <3>3 DEF StrayInv
  <2> QED BY <1>4, <2>1, <2>2, <2>3 DEF InitWait, StatusCode, StrayInv
<1>5. CASE InitWaitFails
  BY <1>5 DEF InitWaitFails, StopInv, StrayInv
<1>6. CASE InitRemove
  <2>1. /\ call = "Init" /\ call' = "Init" /\ pc' = "idle" /\ containerID' = 0
        /\ id = 1 /\ Len(containers) = 1
    BY <1>6 DEF InitRemove, StopInv, StrayInv
  <2>2. CASE containers' = [containers EXCEPT ![id] = "removed"] /\ faults' = faults
    <3>1. Left' = {}
      BY <2>1, <2>2 DEF Left, Exists, Existing, TypeOK
    <3>2. Cardinality(Left') <= faults'
      BY <3>1, <1>a, FS_EmptySet
    <3> QED BY <2>1, <3>2 DEF StrayInv
  <2>3. CASE UNCHANGED containers /\ faults' = faults + 1
    <3>1. Left' \subseteq {1}
      BY <2>1, <2>3 DEF Left, TypeOK
    <3>2. Cardinality({1}) = 1 /\ IsFiniteSet({1})
      BY FS_Singleton
    <3>3. Cardinality({1}) <= faults'
      BY <2>3, <3>2, <1>a
    <3>4. Cardinality(Left') <= faults'
      BY <3>1, <3>2, <3>3, <1>a, Smaller
    <3> QED BY <2>1, <3>4 DEF StrayInv
  <2> QED BY <1>6, <2>2, <2>3 DEF InitRemove
<1>7. CASE GethInitExits
  <2>1. /\ Left' = Left /\ Strays' = Strays /\ faults' >= faults
        /\ Len(containers') = Len(containers)
        /\ UNCHANGED <<containerID, pc, call, id>>
    BY <1>7, <1>a DEF GethInitExits, Is, Left, Strays, Exists, Existing, TypeOK
  <2>2. Cardinality(Left) \in Nat /\ Cardinality(Strays) \in Nat
    BY <1>a, FS_CardinalityType
  <2>3. pc \in {"initStart", "initWait", "initRemove"} =>
          (containers'[1] = "crashed" => faults' >= 1)
    BY <1>7, <1>a DEF GethInitExits, Is, StrayInv, TypeOK
  <2>4. containers # <<>>
    BY <1>7 DEF GethInitExits, Is
  <2> QED BY <1>a, <2>1, <2>2, <2>3, <2>4 DEF StrayInv
<1>8. CASE Create
  <2>1. call = "Start" /\ call' = "Start" /\ Cardinality(Left) <= faults
    BY <1>8 DEF Create, StopInv, StrayInv
  <2>2. CASE containers' = Append(containers, "created") /\ containerID' = Len(containers')
    <3>1. Strays' \subseteq Left
      BY <2>2 DEF Strays, Left, Exists, TypeOK
    <3>2. Cardinality(Strays') <= faults
      BY <2>1, <3>1, <1>a, Smaller
    <3> QED BY <1>8, <2>1, <2>2, <3>2 DEF Create, StrayInv
  <2>3. CASE UNCHANGED <<containers, containerID>>
    <3>1. Cardinality(Strays) <= faults
      BY <2>1, <1>a, Smaller
    <3> QED BY <1>8, <1>a, <1>s, <2>1, <2>3, <3>1, FS_CardinalityType DEF Create, StrayInv
  <2> QED BY <1>8, <2>2, <2>3 DEF Create
<1>9. CASE StartContainer
  <2>1. call = "Start" /\ call' = "Start" /\ Cardinality(Strays) <= faults
    BY <1>9 DEF StartContainer, StopInv, StrayInv
  <2>2. Strays' = Strays
    BY <1>9 DEF StartContainer, Strays, Left, Exists, TypeOK
  <2> QED BY <1>9, <1>a, <2>1, <2>2, FS_CardinalityType DEF StartContainer, StrayInv
<1>10. CASE HealthCheck \/ Check
  <2>1. /\ call = "Start" /\ call' = "Start" /\ Strays' = Strays /\ faults' = faults
        /\ Cardinality(Strays) <= faults
    BY <1>10, <1>s DEF HealthCheck, Check, StopInv, StrayInv
  <2> QED BY <1>10, <2>1 DEF HealthCheck, Check, StrayInv
<1>11. CASE Serve
  BY <1>11, <1>s DEF Serve, StrayInv
<1>12. CASE Crash
  <2>1. /\ Left' = Left /\ Strays' = Strays
        /\ UNCHANGED <<containerID, pc, call, id, faults>>
        /\ containerID # 0 /\ containers # <<>>
    BY <1>12 DEF Crash, Is, Left, Strays, Exists, Existing, TypeOK
  <2> QED BY <2>1, <1>12 DEF StrayInv, StopInv
<1>13. CASE StopContainer
  <2>1. /\ call = "Stop" /\ call' = "Stop" /\ pc' = "remove" /\ UNCHANGED containerID
        /\ faults' >= faults /\ Cardinality(Strays) <= faults
    BY <1>13, <1>a DEF StopContainer, AfterStopError, StopInv, StrayInv
  <2>2. Strays' = Strays
    BY <1>13 DEF StopContainer, Strays, Left, Exists, TypeOK
  <2> QED BY <1>a, <2>1, <2>2, FS_CardinalityType DEF StrayInv
<1>14. CASE RemoveContainer
  <2>1. /\ call = "Stop" /\ call' = "Stop" /\ pc' = "idle" /\ UNCHANGED containerID
        /\ Cardinality(Strays) <= faults
    BY <1>14 DEF RemoveContainer, StopInv, StrayInv
  <2>2. CASE /\ containers' = [containers EXCEPT ![containerID] = "removed"]
             /\ faults' = faults
    <3>1. Left' \subseteq Strays
      BY <2>2 DEF Left, Strays, Exists, Existing, TypeOK
    <3>2. Cardinality(Left') <= faults'
      BY <2>1, <2>2, <3>1, <1>a, Smaller
    <3> QED BY <2>1, <3>2 DEF StrayInv
  <2>3. CASE UNCHANGED containers /\ faults' = faults + 1
    <3>1. Left' = Left
      BY <2>3 DEF Left, Exists
    <3>2. Cardinality(Left') <= faults'
      BY <2>1, <2>3, <3>1, OneMore
    <3> QED BY <2>1, <3>2 DEF StrayInv
  <2>4. CASE ~ Exists(containerID) /\ UNCHANGED containers /\ faults' = faults
    <3>1. Left' \subseteq Strays
      BY <2>4 DEF Left, Strays, Exists
    <3>2. Cardinality(Left') <= faults'
      BY <2>1, <2>4, <3>1, <1>a, Smaller
    <3> QED BY <2>1, <3>2 DEF StrayInv
  <2> QED BY <1>14, <2>2, <2>3, <2>4 DEF RemoveContainer
<1>15. CASE UNCHANGED vars
  BY <1>15, <1>s DEF vars, StrayInv
<1> QED
  BY <1>1, <1>2, <1>3, <1>4, <1>5, <1>6, <1>7, <1>8, <1>9, <1>10, <1>11,
     <1>12, <1>13, <1>14, <1>15 DEF Next, Step

\* Between calls, a container that is not the node's is there because of a
\* failure: calls that went well leave nothing over.
THEOREM StraysFail == Spec => []StraysAreFailures
<1>1. TypeOK /\ StrayInv => StraysAreFailures
  <2> SUFFICES ASSUME TypeOK, StrayInv, pc = "idle" PROVE Cardinality(Strays) <= faults
    <3>1. {c \in DOMAIN containers : Exists(c) /\ c # containerID} = Strays
      BY DEF Strays, Left
    <3> QED BY <3>1 DEF StraysAreFailures
  <2>1. /\ faults \in Nat /\ IsFiniteSet(Left) /\ Strays \subseteq Left
        /\ (Cardinality(Left) <= faults \/ Cardinality(Strays) <= faults)
    BY LeftFinite DEF TypeOK, StrayInv, Strays
  <2> QED BY <2>1, Smaller
<1> QED
  BY <1>1, TypeInit, TypeNext, StopInit, StopNext, StrayInit, StrayNext, PTL DEF Spec

-----------------------------------------------------------------------------
(* A nil Init leaves a genesis block                                       *)

\* The container of Init runs until geth init has ended, well or badly, or was
\* never started because the daemon failed.
GenesisInv ==
  /\ pc \in {"initCreate", "initStart", "initWait", "initRemove", "hung"} => result = "busy"
  /\ pc = "initStart" => containers[1] = "created"
  /\ pc = "initWait" => containers[1] \in {"running", "crashed"} \/ genesis \/ failed > 0
  /\ pc = "initRemove" => genesis \/ failed > 0
  /\ call = "Init" /\ result = "nil" => genesis \/ failed > 0

\* Every step of Init keeps what is known of its container.
LEMMA GenesisNext ==
  TypeOK /\ StopInv /\ StrayInv /\ GenesisInv /\ [Next]_vars => GenesisInv'
<1> SUFFICES ASSUME TypeOK, StopInv, StrayInv, GenesisInv, [Next]_vars PROVE GenesisInv'
  OBVIOUS
<1> USE DEF GenesisInv, At, Goto, Return, Fault, NoFault, ethVars, world, locals
<1>f. failed \in Nat /\ genesis \in BOOLEAN /\ DOMAIN containers = 1 .. Len(containers)
  BY DEF TypeOK, FlagsOK
<1>1. CASE InitNode \/ Start \/ Stop
  BY <1>1 DEF InitNode, Start, Stop, Invoke
<1>2. CASE InitCreate
  <2>1. /\ pc = "initCreate" /\ containers = <<>> /\ call' = call
        /\ \/ pc' = "initStart" /\ containers' = Append(containers, "created")
              /\ result' = result
           \/ pc' = "idle" /\ result' = "error"
    BY <1>2 DEF InitCreate, StrayInv
  <2>2. Append(<<>>, "created")[1] = "created"
    OBVIOUS
  <2> QED BY <2>1, <2>2
<1>3. CASE InitStart
  <2>1. /\ pc = "initStart" /\ pc' = "initWait" /\ id = 1 /\ 1 \in DOMAIN containers
        /\ result' = "busy"
    BY <1>3, <1>f DEF InitStart, StrayInv
  <2>2. containers'[1] = "running" \/ failed' > 0
    BY <1>3, <1>f, <2>1 DEF InitStart
  <2> QED BY <2>1, <2>2
<1>4. CASE InitWait
  <2>1. /\ pc = "initWait" /\ id = 1 /\ 1 \in DOMAIN containers /\ containers[1] # "running"
    BY <1>4, <1>f DEF InitWait, StrayInv, Is
  <2>2. /\ UNCHANGED <<containers, genesis, failed, call>>
        /\ \/ pc' = "idle" /\ result' = "error"
           \/ pc' = "initRemove" /\ result' = result /\ containers[1] # "crashed"
    BY <1>4, <2>1 DEF InitWait, StatusCode
  <2> QED BY <2>1, <2>2
<1>5. CASE InitRemove
  BY <1>5, <1>f DEF InitRemove
<1>6. CASE InitWaitFails
  BY <1>6, <1>f DEF InitWaitFails
<1>7. CASE GethInitExits
  <2>1. /\ UNCHANGED <<pc, call, result, id, failed>> /\ containers[id] = "running"
        /\ id \in DOMAIN containers
        /\ \/ genesis' = TRUE
           \/ containers' = [containers EXCEPT ![id] = "crashed"] /\ genesis' = genesis
    BY <1>7 DEF GethInitExits, Is
  <2>2. pc \in {"initStart", "initWait"} => id = 1
    BY DEF StrayInv
  <2>3. pc # "initStart"
    BY <2>1, <2>2
  <2>4. pc = "initWait" => containers'[1] \in {"running", "crashed"} \/ genesis'
    BY <2>1, <2>2
  <2> QED BY <2>1, <2>3, <2>4
<1>8. CASE Create \/ StartContainer \/ HealthCheck \/ Check \/ StopContainer \/ RemoveContainer
  <2>1. /\ call \in {"Start", "Stop"} /\ call' = call
        /\ pc' \notin {"initCreate", "initStart", "initWait", "initRemove", "hung"}
    BY <1>8 DEF Create, StartContainer, HealthCheck, Check, StopContainer, RemoveContainer,
                AfterStopError, StopInv
  <2> QED BY <2>1
<1>9. CASE Serve \/ Crash
  <2>1. containerID # 0 /\ UNCHANGED <<pc, call, result, genesis, failed>>
    BY <1>9, <1>f DEF Serve, Crash, Is, TypeOK
  <2>2. pc \notin {"initStart", "initWait"}
    BY <2>1 DEF StrayInv, StopInv
  <2> QED BY <2>1, <2>2
<1>10. CASE UNCHANGED vars
  BY <1>10 DEF vars
<1> QED
  BY <1>1, <1>2, <1>3, <1>4, <1>5, <1>6, <1>7, <1>8, <1>9, <1>10 DEF Next, Step

\* An Init that returns nil without a failure of the daemon has made a genesis
\* block, at whichever point geth init ends.
THEOREM GenesisMade == Spec => []InitLeavesGenesis
<1>1. Init => GenesisInv
  BY DEF Init, GenesisInv
<1>2. GenesisInv => InitLeavesGenesis
  BY DEF GenesisInv, InitLeavesGenesis
<1> QED
  BY <1>1, <1>2, TypeInit, TypeNext, StopInit, StopNext, StrayInit, StrayNext, GenesisNext,
     PTL DEF Spec
=============================================================================

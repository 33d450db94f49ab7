----------------------- MODULE ConsensusMonitorProofs -----------------------
(***************************************************************************)
(* Theorems about ConsensusMonitor, for any number of monitors and any     *)
(* waits: type correctness, that nobody blocks on a channel, that the      *)
(* verdict refines the promise of EnsureConsensus, and that nil means that *)
(* the nodes are alive.                                                    *)
(***************************************************************************)
EXTENDS ConsensusMonitor, FiniteSetTheorems, SequenceTheorems, TLAPS

-----------------------------------------------------------------------------
(* Type correctness                                                        *)

\* Cap is the number of monitors, of which there is one at least.
LEMMA CapType == Cap \in Nat \ {0} /\ Quits = Cap
<1>1. Cardinality(Monitors) \in Nat
  BY MonitorsAssumption, FS_CardinalityType
<1>2. Cardinality(Monitors) # 0
  BY MonitorsAssumption, FS_EmptySet
<1> QED BY <1>1, <1>2 DEF Cap, Quits

\* Receiving the first value of a channel.
LEMMA HeadTail ==
  ASSUME NEW S, NEW s \in Seq(S), s # <<>> PROVE Head(s) \in S /\ Tail(s) \in Seq(S)
  OBVIOUS

\* Sending one more.
LEMMA AppendType ==
  ASSUME NEW S, NEW s \in Seq(S), NEW e \in S PROVE Append(s, e) \in Seq(S)
  OBVIOUS

\* The call begins with nothing sent and no timer running.
LEMMA TypeInit == Init => TypeOK
<1> SUFFICES ASSUME Init PROVE TypeOK
  OBVIOUS
<1> QED
  BY CapType, WaitsAssumption DEF Init, TypeOK, Off, Errors

\* A monitor that returns resets what belongs to it.
LEMMA LeaveTypes ==
  ASSUME TypeOK, NEW m \in Monitors, Leave(m)
  PROVE  /\ timer' \in [Monitors -> 0 .. Off] /\ fired' \in [Monitors -> BOOLEAN]
         /\ blockNumber' \in [Monitors -> 0 .. StableHeight] /\ err' \in [Monitors -> Errors]
         /\ pending' \in [Monitors -> Seq(1 .. StableHeight)] /\ lost' \in [Monitors -> BOOLEAN]
         /\ height' \in [Monitors -> 0 .. StableHeight] /\ burst' \in [Monitors -> 0 .. MaxBurst]
         /\ idle' \in [Monitors -> 0 .. InitialWait + 1]
<1>1. <<>> \in Seq(1 .. StableHeight)
  OBVIOUS
<1>2. pending' \in [Monitors -> Seq(1 .. StableHeight)]
  BY <1>1 DEF TypeOK, Leave
<1>3. timer' \in [Monitors -> 0 .. Off] /\ fired' \in [Monitors -> BOOLEAN]
  BY WaitsAssumption DEF TypeOK, Leave, StopTimer, Off
<1>4. err' \in [Monitors -> Errors] /\ lost' \in [Monitors -> BOOLEAN]
  BY DEF TypeOK, Leave, Errors
<1>5. /\ blockNumber' \in [Monitors -> 0 .. StableHeight]
      /\ height' \in [Monitors -> 0 .. StableHeight]
  BY WaitsAssumption DEF TypeOK, Leave
<1>6. burst' \in [Monitors -> 0 .. MaxBurst] /\ idle' \in [Monitors -> 0 .. InitialWait + 1]
  BY WaitsAssumption DEF TypeOK, Leave
<1> QED
  BY <1>2, <1>3, <1>4, <1>5, <1>6

\* Every step of the caller, the monitors and the nodes keeps the types.
LEMMA TypeNext == TypeOK /\ [Next]_vars => TypeOK'
<1> SUFFICES ASSUME TypeOK, [Next]_vars PROVE TypeOK'
  OBVIOUS
<1> USE CapType, WaitsAssumption
        DEF TypeOK, At, Goto, callerVars, chanVars, monVars, nodeVars
<1>t. Off \in Nat /\ InitialWait \in 0 .. Off /\ ResetWait \in 0 .. Off
  BY DEF Off
<1>e. ErrConn \in Errors /\ ErrNoBlock \in Errors /\ ErrTimeout \in Errors
  BY DEF Errors
<1>1. CASE Select
  <2>1. CASE NothingSent BY <1>1, <2>1 DEF Select
  <2>2. CASE ~ NothingSent
    <3>1. errCh # <<>> /\ errCh' = Tail(errCh) /\ verdict' = Head(errCh)
      BY <1>1, <2>2 DEF Select, NothingSent
    <3>2. errCh' \in Seq(Errors) /\ verdict' \in Errors
      BY <3>1, HeadTail DEF TypeOK
    <3> QED BY <1>1, <2>2, <3>2 DEF Select
  <2> QED BY <2>1, <2>2
<1>2. CASE TimeIsOver BY <1>2 DEF TimeIsOver
<1>3. CASE SendQuit
  <2>1. quitsLeft' \in 0 .. Quits BY <1>3 DEF SendQuit
  <2>2. CASE \E m \in Monitors : Goto(m, "parked", "done") /\ Leave(m) /\ UNCHANGED quitCh
    <3>1. PICK m \in Monitors : Goto(m, "parked", "done") /\ Leave(m) /\ UNCHANGED quitCh
      BY <2>2
    <3> QED BY <1>3, <2>1, <3>1, LeaveTypes DEF SendQuit
  <2>3. CASE quitCh < Cap /\ quitCh' = quitCh + 1 /\ UNCHANGED <<pc, monVars, nodeVars, idle>>
    BY <1>3, <2>1, <2>3 DEF SendQuit
  <2> QED BY <1>3, <2>2, <2>3 DEF SendQuit
<1>4. CASE ReturnNil BY <1>4 DEF ReturnNil
<1>5. CASE Tick
  <2>0. /\ \A m \in Monitors : timer[m] \in 0 .. Off /\ timer[m] > 0
        /\ deadline \in 0 .. Timeout /\ (caller = "parked" => deadline > 0)
        /\ deadline' = IF caller = "parked" THEN deadline - 1 ELSE deadline
    BY <1>5 DEF Tick, Quiet
  <2>1. \A m \in Monitors : timer[m] = Off \/ timer[m] - 1 \in 0 .. Off
    BY <2>0, <1>t
  <2>2. timer' \in [Monitors -> 0 .. Off]
    BY <1>5, <2>1 DEF Tick
  <2>3. idle' \in [Monitors -> 0 .. InitialWait + 1]
    <3>1. \A m \in Monitors : Lesser(idle[m] + 1, InitialWait + 1) \in 0 .. InitialWait + 1
      BY DEF Lesser
    <3>2. idle' = [m \in Monitors |-> IF Subscribed(m) THEN Lesser(idle[m] + 1, InitialWait + 1)
                                                      ELSE 0]
      BY <1>5 DEF Tick
    <3>3. 0 \in 0 .. InitialWait + 1
      OBVIOUS
    <3> HIDE DEF TypeOK
    <3> QED BY <3>1, <3>2, <3>3
  <2>4. deadline' \in 0 .. Timeout
    BY <2>0
  <2>5. burst' \in [Monitors -> 0 .. MaxBurst]
    BY <1>5 DEF Tick
  <2> QED BY <1>5, <2>2, <2>3, <2>4, <2>5 DEF Tick
<1>6. ASSUME NEW m \in Monitors, Dial(m) PROVE TypeOK'
  BY <1>6 DEF Dial
<1>7. ASSUME NEW m \in Monitors, Subscribe(m) PROVE TypeOK'
  <2>0. /\ timer' = [timer EXCEPT ![m] = InitialWait] \/ timer' = timer
        /\ idle' = [idle EXCEPT ![m] = 0] \/ idle' = idle
        /\ err' = [err EXCEPT ![m] = ErrConn] \/ err' = err
    BY <1>7 DEF Subscribe
  <2>a. timer' \in [Monitors -> 0 .. Off]
    BY <2>0, <1>t
  <2>b. err' \in [Monitors -> Errors]
    BY <2>0, <1>e
  <2>1. idle' \in [Monitors -> 0 .. InitialWait + 1]
    <3>1. idle \in [Monitors -> 0 .. InitialWait + 1] /\ 0 \in 0 .. InitialWait + 1
      OBVIOUS
    <3> QED BY <2>0, <3>1
  <2>2. pc' = [pc EXCEPT ![m] = "select"] \/ pc' = [pc EXCEPT ![m] = "send"]
    BY <1>7 DEF Subscribe
  <2> QED BY <1>7, <2>a, <2>b, <2>1, <2>2 DEF Subscribe
<1>8. ASSUME NEW m \in Monitors, Park(m) PROVE TypeOK'
  BY <1>8 DEF Park
<1>9. ASSUME NEW m \in Monitors, TakeLost(m) PROVE TypeOK'
  BY <1>9, <1>e DEF TakeLost, OnLost
<1>10. ASSUME NEW m \in Monitors, TakeTimer(m) PROVE TypeOK'
  BY <1>10, <1>e DEF TakeTimer, OnTimer
<1>11. ASSUME NEW m \in Monitors, TakeHead(m) PROVE TypeOK'
  <2>1. pending[m] \in Seq(1 .. StableHeight) /\ pending[m] # <<>>
    BY <1>11 DEF TakeHead
  <2>2. Head(pending[m]) \in 1 .. StableHeight /\ Tail(pending[m]) \in Seq(1 .. StableHeight)
    BY <2>1, HeadTail
  <2>3. pending' \in [Monitors -> Seq(1 .. StableHeight)]
    BY <1>11, <2>2 DEF TakeHead
  <2>4. blockNumber' \in [Monitors -> 0 .. StableHeight]
    BY <1>11, <2>2 DEF TakeHead, OnHead
  <2> QED BY <1>11, <2>3, <2>4 DEF TakeHead, OnHead
<1>12. ASSUME NEW m \in Monitors, TakeQuit(m) PROVE TypeOK'
  <2>1. quitCh' \in 0 .. Cap BY <1>12 DEF TakeQuit
  <2> QED BY <1>12, <2>1, LeaveTypes DEF TakeQuit
<1>13. ASSUME NEW m \in Monitors, Handle(m) PROVE TypeOK'
  BY <1>13, <1>t DEF Handle, NewWait
<1>14. ASSUME NEW m \in Monitors, Send(m) PROVE TypeOK'
  <2>1. <<m, err[m]>> \in Monitors \X Errors /\ err[m] \in Errors
    OBVIOUS
  <2>2. reports' \in Seq(Monitors \X Errors)
    BY <1>14, <2>1, AppendType DEF Send
  <2>3. errCh' \in Seq(Errors) /\ verdict' \in {Pending, Success} \cup Errors
    <3>1. Append(errCh, err[m]) \in Seq(Errors)
      BY <2>1, AppendType
    <3> QED BY <1>14, <2>1, <3>1 DEF Send
  <2> QED BY <1>14, <2>2, <2>3, LeaveTypes DEF Send
<1>15. ASSUME NEW m \in Monitors, Fire(m) PROVE TypeOK'
  <2>1. timer' \in [Monitors -> 0 .. Off]
    BY <1>15, <1>t DEF Fire, StopTimer
  <2>2. CASE pc[m] = "parked"
    <3>1. /\ pc' = [pc EXCEPT ![m] = "send"] /\ UNCHANGED fired
          /\ err' = [err EXCEPT ![m] = IF blockNumber[m] = 0 THEN ErrNoBlock ELSE ErrTimeout]
      BY <1>15, <2>2 DEF Fire, OnTimer
    <3>2. err' \in [Monitors -> Errors]
      BY <1>e, <3>1
    <3> QED BY <1>15, <2>1, <3>1, <3>2 DEF Fire
  <2>3. CASE pc[m] # "parked"
    BY <1>15, <2>1, <2>3 DEF Fire
  <2> QED BY <2>2, <2>3
<1>16. ASSUME NEW m \in Monitors, NewHead(m) PROVE TypeOK'
  <2>1. PICK number \in 1 .. StableHeight : height' = [height EXCEPT ![m] = number]
    BY <1>16 DEF NewHead
  <2>2. height'[m] \in 1 .. StableHeight /\ height' \in [Monitors -> 0 .. StableHeight]
    BY <2>1
  <2>3. /\ burst' \in [Monitors -> 0 .. MaxBurst] /\ idle' \in [Monitors -> 0 .. InitialWait + 1]
        /\ UNCHANGED <<callerVars, chanVars, timer, fired, err, lost, reports>>
    BY <1>16 DEF NewHead
  <2>4. Append(pending[m], height'[m]) \in Seq(1 .. StableHeight)
    BY <2>2, AppendType
  <2>5. CASE pc[m] = "parked"
    <3>1. /\ pc' = [pc EXCEPT ![m] = "handle"] /\ UNCHANGED pending
          /\ blockNumber' = [blockNumber EXCEPT ![m] = height'[m]]
      BY <1>16, <2>5 DEF NewHead, OnHead
    <3>2. blockNumber' \in [Monitors -> 0 .. StableHeight]
      BY <2>2, <3>1
    <3> QED BY <2>2, <2>3, <3>1, <3>2
  <2>6. CASE pc[m] # "parked"
    <3>1. pending' = [pending EXCEPT ![m] = Append(@, height'[m])] /\ UNCHANGED <<pc, blockNumber>>
      BY <1>16, <2>6 DEF NewHead
    <3>2. pending' \in [Monitors -> Seq(1 .. StableHeight)]
      BY <2>4, <3>1
    <3> QED BY <2>2, <2>3, <3>1, <3>2
  <2> QED BY <2>5, <2>6
<1>17. ASSUME NEW m \in Monitors, Disconnect(m) PROVE TypeOK'
  BY <1>17, <1>e DEF Disconnect, OnLost
<1>18. CASE UNCHANGED vars
  BY <1>18 DEF vars
<1> QED
  BY <1>1, <1>2, <1>3, <1>4, <1>5, <1>6, <1>7, <1>8, <1>9, <1>10, <1>11, <1>12, <1>13,
     <1>14, <1>15, <1>16, <1>17, <1>18 DEF Next, Caller, Monitor

\* Type correctness, for every number of monitors and all durations.
THEOREM TypeCorrect == Spec => []TypeOK
  BY TypeInit, TypeNext, PTL DEF Spec

-----------------------------------------------------------------------------
(* Nobody blocks on a channel                                              *)

Done == {m \in Monitors : pc[m] = "done"}

\* Every error in the channel is by a monitor that has returned, and every quit
\* in it by an iteration of the loop.  Before the loop there are none.
ChanInv ==
  /\ Len(errCh) <= Cardinality(Done)
  /\ quitCh + quitsLeft <= Cap
  /\ caller \in {"started", "parked"} => quitCh = 0 /\ quitsLeft = 0

\* What is done is a part of the monitors, and not all as long as one is not.
LEMMA DoneBound ==
  /\ IsFiniteSet(Done) /\ Cardinality(Done) \in Nat /\ Cardinality(Done) <= Cap
  /\ \A m \in Monitors : pc[m] # "done" => Cardinality(Done) < Cap
<1>1. /\ IsFiniteSet(Done) /\ Cardinality(Done) <= Cardinality(Monitors)
      /\ Cardinality(Monitors) = Cardinality(Done) => Monitors = Done
  BY MonitorsAssumption, FS_Subset DEF Done
<1>2. Cardinality(Done) \in Nat /\ Cardinality(Monitors) \in Nat
  BY <1>1, MonitorsAssumption, FS_CardinalityType
<1>3. ASSUME NEW m \in Monitors, pc[m] # "done" PROVE Monitors # Done
  BY <1>3 DEF Done
<1> QED BY <1>1, <1>2, <1>3 DEF Cap

\* A monitor that returns is one more, and what another does changes nothing.
LEMMA DoneGrows ==
  ASSUME TypeOK, NEW m \in Monitors, NEW to, pc[m] # "done", pc' = [pc EXCEPT ![m] = to]
  PROVE  Cardinality(Done)' = IF to = "done" THEN Cardinality(Done) + 1 ELSE Cardinality(Done)
<1>1. m \notin Done
  BY DEF Done
<1>2. CASE to = "done"
  <2>1. Done' = Done \cup {m}
    BY <1>2 DEF Done, TypeOK
  <2> QED BY <1>1, <1>2, <2>1, DoneBound, FS_AddElement
<1>3. CASE to # "done"
  <2>1. Done' = Done
    BY <1>3 DEF Done, TypeOK
  <2> QED BY <1>3, <2>1
<1> QED BY <1>2, <1>3

\* Nothing has been sent at the beginning.
LEMMA ChanInit == Init => ChanInv
<1> SUFFICES ASSUME Init PROVE ChanInv
  OBVIOUS
<1> QED BY CapType, DoneBound DEF Init, ChanInv

\* Where a monitor can be when it does something, and what that can do to pc.
LEMMA MonitorMoves ==
  ASSUME TypeOK, NEW m \in Monitors,
         Monitor(m) \/ Fire(m) \/ NewHead(m) \/ Disconnect(m)
  PROVE  \/ UNCHANGED pc
         \/ /\ pc[m] # "done"
            /\ \E to \in {"subscribe", "select", "parked", "handle", "send", "done"} :
                 pc' = [pc EXCEPT ![m] = to]
<1> USE DEF At, Goto
<1>1. CASE Monitor(m)
  <2>1. CASE Dial(m) \/ Subscribe(m) \/ Park(m) \/ TakeQuit(m) \/ Handle(m) \/ Send(m)
    BY <2>1 DEF Dial, Subscribe, Park, TakeQuit, Handle, Send
  <2>2. CASE TakeLost(m) \/ TakeTimer(m) \/ TakeHead(m)
    BY <2>2 DEF TakeLost, TakeTimer, TakeHead, OnLost, OnTimer, OnHead
  <2> QED BY <1>1, <2>1, <2>2 DEF Monitor
<1>2. CASE Fire(m) \/ NewHead(m) \/ Disconnect(m)
  BY <1>2 DEF Fire, NewHead, Disconnect, OnLost, OnTimer, OnHead
<1> QED BY <1>1, <1>2

\* What is done does not become fewer, whoever makes the step.
LEMMA DoneNext == TypeOK /\ [Next]_vars => Cardinality(Done) <= Cardinality(Done)'
<1> SUFFICES ASSUME TypeOK, [Next]_vars PROVE Cardinality(Done) <= Cardinality(Done)'
  OBVIOUS
<1>1. CASE UNCHANGED pc
  BY <1>1, DoneBound DEF Done
<1>2. ASSUME NEW m \in Monitors, NEW to, pc[m] # "done", pc' = [pc EXCEPT ![m] = to]
      PROVE  Cardinality(Done) <= Cardinality(Done)'
  <2>1. Cardinality(Done) \in Nat
    BY DoneBound
  <2>2. Cardinality(Done)' = IF to = "done" THEN Cardinality(Done) + 1 ELSE Cardinality(Done)
    BY <1>2, DoneGrows
  <2> QED BY <2>1, <2>2
<1>3. CASE Select \/ TimeIsOver \/ ReturnNil \/ Tick \/ UNCHANGED vars
  <2>1. UNCHANGED pc
    BY <1>3 DEF Select, TimeIsOver, ReturnNil, Tick, vars
  <2> QED BY <1>1, <2>1
<1>4. CASE SendQuit
  <2>1. UNCHANGED pc \/ \E m \in Monitors : pc[m] # "done" /\ pc' = [pc EXCEPT ![m] = "done"]
    BY <1>4 DEF SendQuit, Goto, At
  <2> QED BY <1>1, <1>2, <2>1
<1>5. ASSUME NEW m \in Monitors, Monitor(m) \/ Fire(m) \/ NewHead(m) \/ Disconnect(m)
      PROVE  Cardinality(Done) <= Cardinality(Done)'
  BY <1>1, <1>2, <1>5, MonitorMoves
<1> QED BY <1>3, <1>4, <1>5 DEF Next, Caller

\* Only a monitor that returns sends an error, and each iteration one quit.
LEMMA ChanNext == TypeOK /\ ChanInv /\ [Next]_vars => ChanInv'
<1> SUFFICES ASSUME TypeOK, ChanInv, [Next]_vars PROVE ChanInv'
  OBVIOUS
<1>t. /\ Cap \in Nat /\ Quits = Cap /\ Cap' = Cap /\ quitCh \in Nat /\ quitsLeft \in Nat
      /\ errCh \in Seq(Errors) /\ Len(errCh) \in Nat
  BY CapType DEF TypeOK, Cap
<1>d. /\ Cardinality(Done) \in Nat /\ Cardinality(Done)' \in Nat
      /\ Cardinality(Done) <= Cardinality(Done)'
  <2>1. Done' \in SUBSET Monitors
    BY DEF Done
  <2>2. Cardinality(Done') \in Nat
    BY <2>1, MonitorsAssumption, FS_Subset, FS_CardinalityType
  <2> QED BY <2>2, DoneNext, DoneBound
<1>1. ASSUME UNCHANGED errCh, UNCHANGED <<quitCh, quitsLeft>>,
             caller' \in {"started", "parked"} => caller \in {"started", "parked"}
      PROVE  ChanInv'
  BY <1>1, <1>t, <1>d DEF ChanInv
<1>2. CASE Select
  <2>1. errCh' = errCh \/ (errCh # <<>> /\ errCh' = Tail(errCh))
    BY <1>2 DEF Select, NothingSent
  <2>2. Len(errCh') <= Len(errCh) /\ Len(errCh') \in Nat
    BY <2>1, <1>t
  <2>3. UNCHANGED <<quitCh, quitsLeft>> /\ caller = "started"
    BY <1>2 DEF Select
  <2>4. Len(errCh') <= Cardinality(Done)'
    BY <2>2, <1>t, <1>d DEF ChanInv
  <2> QED BY <2>3, <2>4, <1>t DEF ChanInv
<1>3. CASE TimeIsOver
  BY <1>3, <1>t, <1>d DEF TimeIsOver, chanVars, ChanInv
<1>4. CASE SendQuit
  <2>1. /\ caller = "quitting" /\ UNCHANGED <<caller, errCh>> /\ quitsLeft > 0
        /\ quitsLeft' = quitsLeft - 1
        /\ quitCh' = quitCh \/ quitCh' = quitCh + 1
    BY <1>4 DEF SendQuit
  <2> QED BY <2>1, <1>t, <1>d DEF ChanInv
<1>5. CASE ReturnNil \/ Tick \/ UNCHANGED vars
  BY <1>1, <1>5 DEF ReturnNil, Tick, vars, callerVars, chanVars
<1>6. ASSUME NEW m \in Monitors, TakeQuit(m) PROVE ChanInv'
  <2>1. quitCh > 0 /\ quitCh' = quitCh - 1 /\ UNCHANGED <<caller, quitsLeft, errCh>>
    BY <1>6 DEF TakeQuit, callerVars
  <2> QED BY <2>1, <1>t, <1>d DEF ChanInv
<1>7. ASSUME NEW m \in Monitors, Send(m) PROVE ChanInv'
  <2>1. /\ errCh' = errCh \/ (errCh' = Append(errCh, err[m]) /\ err[m] \in Errors)
        /\ UNCHANGED <<quitsLeft, quitCh>>
        /\ caller' \in {"started", "parked"} => caller' = caller
        /\ pc[m] # "done" /\ pc' = [pc EXCEPT ![m] = "done"]
    BY <1>7 DEF Send, Goto, At, TypeOK
  <2>2. Cardinality(Done)' = Cardinality(Done) + 1
    BY <2>1, DoneGrows
  <2>3. Len(errCh') \in Nat /\ Len(errCh') <= Len(errCh) + 1
    BY <2>1, <1>t
  <2>4. Len(errCh') <= Cardinality(Done)'
    BY <2>2, <2>3, <1>t, <1>d DEF ChanInv
  <2> QED BY <2>1, <2>4, <1>t DEF ChanInv
<1>8. ASSUME NEW m \in Monitors,
             \/ Dial(m) \/ Subscribe(m) \/ Park(m) \/ TakeLost(m) \/ TakeTimer(m)
             \/ TakeHead(m) \/ Handle(m) \/ Fire(m) \/ NewHead(m) \/ Disconnect(m)
      PROVE  ChanInv'
  <2>1. UNCHANGED <<errCh, quitCh, quitsLeft>> /\ (caller' = caller \/ caller' = "crashed")
    BY <1>8 DEF Dial, Subscribe, Park, TakeLost, TakeTimer, TakeHead, Handle, Fire, NewHead,
       Disconnect, callerVars, chanVars
  <2> QED BY <1>1, <2>1
<1> QED
  BY <1>2, <1>3, <1>4, <1>5, <1>6, <1>7, <1>8 DEF Next, Caller, Monitor

\* No send on a channel ever blocks: each has a place for every monitor.
THEOREM ChannelsSuffice == Spec => []NobodyBlocks
<1>1. TypeOK /\ ChanInv => NobodyBlocks
  <2> SUFFICES ASSUME TypeOK, ChanInv PROVE NobodyBlocks
    OBVIOUS
  <2>1. ASSUME NEW m \in Monitors, pc[m] = "send" PROVE Len(errCh) < Cap
    <3>1. Cardinality(Done) \in Nat /\ Cardinality(Done) < Cap
      BY <2>1, DoneBound
    <3>2. Cap \in Nat /\ Len(errCh) \in Nat
      BY CapType DEF TypeOK
    <3> QED BY <3>1, <3>2 DEF ChanInv
  <2>2. quitsLeft > 0 => quitCh < Cap
    BY CapType DEF TypeOK, ChanInv
  <2> QED BY <2>1, <2>2 DEF NobodyBlocks
<1> QED
  BY <1>1, TypeInit, TypeNext, ChanInit, ChanNext, PTL DEF Spec

-----------------------------------------------------------------------------
(* The verdict is the first error                                          *)

\* Who has reported has returned.  A caller that has not decided has either not
\* looked yet, and finds the errors in the channel in the order of the reports,
\* or waits and would have been handed one.
FirstInv ==
  /\ \A i \in 1 .. Len(reports) : pc[reports[i][1]] = "done"
  /\ caller \in {"started", "parked"} => verdict = Pending
  /\ caller = "parked" => reports = <<>>
  /\ caller = "started" =>
       /\ Len(errCh) = Len(reports)
       /\ \A i \in 1 .. Len(reports) : errCh[i] = reports[i][2]

\* Nothing has been reported at the beginning.
LEMMA FirstInit == Init => FirstInv
  BY DEF Init, FirstInv

\* A step of a monitor keeps what is said of reports, unless it makes one.
LEMMA FirstKept ==
  ASSUME TypeOK, FirstInv, UNCHANGED <<verdict, errCh, reports>>,
         caller' = caller \/ caller' \notin {"started", "parked"},
         UNCHANGED pc \/ \E m \in Monitors : \E to : pc[m] # "done" /\ pc' = [pc EXCEPT ![m] = to]
  PROVE  FirstInv'
<1>1. ASSUME NEW i \in 1 .. Len(reports) PROVE pc'[reports[i][1]] = "done"
  <2>1. reports[i] \in Monitors \X Errors
    BY DEF TypeOK
  <2>2. reports[i][1] \in Monitors /\ pc[reports[i][1]] = "done"
    BY <2>1 DEF FirstInv
  <2> QED BY <2>2 DEF TypeOK
<1>2. Len(reports') = Len(reports) /\ reports' = reports
  OBVIOUS
<1> QED BY <1>1, <1>2 DEF FirstInv

\* A report is one more, at the end of the sequence.
LEMMA ReportsGrow ==
  ASSUME TypeOK, NEW m \in Monitors, NEW e \in Errors, reports' = Append(reports, <<m, e>>)
  PROVE  /\ Len(reports) \in Nat /\ Len(reports') = Len(reports) + 1
         /\ reports'[Len(reports) + 1] = <<m, e>>
         /\ \A i \in 1 .. Len(reports) : reports'[i] = reports[i]
<1>1. reports \in Seq(Monitors \X Errors) /\ <<m, e>> \in Monitors \X Errors
  BY DEF TypeOK
<1> QED BY <1>1

\* Every step keeps the order of the errors.
LEMMA FirstNext == TypeOK /\ FirstInv /\ [Next]_vars => FirstInv'
<1> SUFFICES ASSUME TypeOK, FirstInv, [Next]_vars PROVE FirstInv'
  OBVIOUS
<1>1. CASE Select
  <2>1. UNCHANGED <<pc, reports>> /\ caller = "started"
    BY <1>1 DEF Select
  <2>2. CASE NothingSent
    <3>1. errCh = <<>> /\ caller' = "parked" /\ verdict' = verdict
      BY <1>1, <2>2 DEF Select, NothingSent
    <3>2. Len(reports) = 0 /\ reports \in Seq(Monitors \X Errors)
      BY <2>1, <3>1 DEF FirstInv, TypeOK
    <3>3. reports = <<>>
      BY <3>2
    <3> QED BY <2>1, <3>1, <3>3 DEF FirstInv
  <2>3. CASE ~ NothingSent
    BY <1>1, <2>1, <2>3 DEF Select, FirstInv
  <2> QED BY <2>2, <2>3
<1>2. CASE TimeIsOver
  BY <1>2 DEF TimeIsOver, chanVars, FirstInv
<1>3. CASE SendQuit
  <2>1. UNCHANGED <<caller, verdict, errCh, reports>>
    BY <1>3 DEF SendQuit
  <2>2. UNCHANGED pc \/ \E m \in Monitors : pc[m] # "done" /\ pc' = [pc EXCEPT ![m] = "done"]
    BY <1>3 DEF SendQuit, Goto, At
  <2> QED BY <2>1, <2>2, FirstKept
<1>4. CASE ReturnNil \/ Tick \/ UNCHANGED vars
  <2>1. /\ UNCHANGED <<verdict, errCh, reports, pc>>
        /\ caller' = caller \/ caller' \notin {"started", "parked"}
    BY <1>4 DEF ReturnNil, Tick, vars, callerVars, chanVars
  <2> QED BY <2>1, FirstKept
<1>5. ASSUME NEW m \in Monitors, Send(m) PROVE FirstInv'
  <2>1. /\ err[m] \in Errors /\ reports' = Append(reports, <<m, err[m]>>)
        /\ pc[m] = "send" /\ pc' = [pc EXCEPT ![m] = "done"]
    BY <1>5 DEF Send, Goto, At, TypeOK
  <2>2. /\ Len(reports) \in Nat /\ Len(reports') = Len(reports) + 1
        /\ reports'[Len(reports) + 1] = <<m, err[m]>>
        /\ \A i \in 1 .. Len(reports) : reports'[i] = reports[i]
    BY <2>1, ReportsGrow
  <2>3. ASSUME NEW i \in 1 .. Len(reports) PROVE pc'[reports[i][1]] = "done"
    <3>1. reports[i] \in Monitors \X Errors
      BY DEF TypeOK
    <3>2. reports[i][1] \in Monitors /\ pc[reports[i][1]] = "done"
      BY <3>1 DEF FirstInv
    <3> QED BY <2>1, <3>2 DEF TypeOK
  <2>4. ASSUME NEW i \in 1 .. Len(reports') PROVE pc'[reports'[i][1]] = "done"
    <3>1. CASE i = Len(reports) + 1
      BY <2>1, <2>2, <3>1 DEF TypeOK
    <3>2. CASE i # Len(reports) + 1
      <4>1. i \in 1 .. Len(reports)
        BY <2>2, <3>2
      <4> QED BY <2>2, <2>3, <4>1
    <3> QED BY <3>1, <3>2
  <2>5. CASE caller = "parked"
    <3>1. caller' = "returned"
      BY <1>5, <2>5 DEF Send
    <3> QED BY <2>4, <3>1 DEF FirstInv
  <2>6. CASE caller # "parked"
    <3>1. UNCHANGED <<caller, verdict>> /\ errCh' = Append(errCh, err[m])
      BY <1>5, <2>6 DEF Send
    <3>2. /\ errCh \in Seq(Errors) /\ Len(errCh') = Len(errCh) + 1
          /\ errCh'[Len(errCh) + 1] = err[m]
          /\ \A i \in 1 .. Len(errCh) : errCh'[i] = errCh[i]
      BY <2>1, <3>1 DEF TypeOK
    <3>3. ASSUME caller = "started", NEW i \in 1 .. Len(reports')
          PROVE  Len(errCh') = Len(reports') /\ errCh'[i] = reports'[i][2]
      <4>0. Len(errCh) = Len(reports)
        BY <3>3 DEF FirstInv
      <4>1. CASE i = Len(reports) + 1
        BY <2>2, <3>2, <4>0, <4>1
      <4>2. CASE i # Len(reports) + 1
        <5>1. i \in 1 .. Len(reports)
          BY <2>2, <4>2
        <5>2. errCh[i] = reports[i][2]
          BY <3>3, <5>1 DEF FirstInv
        <5> QED BY <2>2, <3>2, <4>0, <5>1, <5>2
      <4> QED BY <4>1, <4>2
    <3>4. caller = "started" => Len(errCh') = Len(reports')
      BY <2>2, <3>2 DEF FirstInv
    <3> QED BY <2>4, <2>6, <3>1, <3>3, <3>4 DEF FirstInv
  <2> QED BY <2>5, <2>6
<1>6. ASSUME NEW m \in Monitors,
             \/ Dial(m) \/ Subscribe(m) \/ Park(m) \/ TakeLost(m) \/ TakeTimer(m) \/ TakeQuit(m)
             \/ TakeHead(m) \/ Handle(m) \/ Fire(m) \/ NewHead(m) \/ Disconnect(m)
      PROVE  FirstInv'
  <2>1. /\ UNCHANGED <<verdict, errCh, reports>>
        /\ caller' = caller \/ caller' \notin {"started", "parked"}
    BY <1>6 DEF Dial, Subscribe, Park, TakeLost, TakeTimer, TakeHead, TakeQuit, Handle, Fire,
       NewHead, Disconnect, callerVars, chanVars
  <2>2. Monitor(m) \/ Fire(m) \/ NewHead(m) \/ Disconnect(m)
    BY <1>6 DEF Monitor
  <2> QED BY <2>1, <2>2, MonitorMoves, FirstKept
<1> QED
  BY <1>1, <1>2, <1>3, <1>4, <1>5, <1>6 DEF Next, Caller, Monitor

\* Each step is one of the promise, or none.
LEMMA StepKeepsPromise ==
  TypeOK /\ FirstInv /\ [Next]_vars => [Promise!Next]_<<reports, verdict>>
<1> SUFFICES ASSUME TypeOK, FirstInv, [Next]_vars
             PROVE  [Promise!Next]_<<reports, verdict>>
  OBVIOUS
<1>1. CASE Select
  <2>1. UNCHANGED reports /\ caller = "started"
    BY <1>1 DEF Select
  <2>2. CASE NothingSent
    BY <1>1, <2>1, <2>2 DEF Select
  <2>3. CASE ~ NothingSent
    <3>1. errCh # <<>> /\ verdict' = Head(errCh) /\ verdict = Pending
      BY <1>1, <2>1, <2>3 DEF Select, NothingSent, FirstInv
    <3>2. errCh \in Seq(Errors) /\ Len(errCh) > 0 /\ Head(errCh) = errCh[1]
      BY <3>1 DEF TypeOK
    <3>3. reports # <<>> /\ errCh[1] = reports[1][2]
      BY <2>1, <3>2 DEF FirstInv
    <3>4. Promise!Fail
      BY <2>1, <3>1, <3>2, <3>3 DEF Promise!Fail
    <3> QED BY <3>4 DEF Promise!Next
  <2> QED BY <2>2, <2>3
<1>2. CASE TimeIsOver
  <2>1. Promise!Succeed
    BY <1>2 DEF TimeIsOver, FirstInv, Promise!Succeed
  <2> QED BY <2>1 DEF Promise!Next
<1>3. CASE SendQuit \/ ReturnNil \/ Tick \/ UNCHANGED vars
  BY <1>3 DEF SendQuit, ReturnNil, Tick, vars, callerVars
<1>4. ASSUME NEW m \in Monitors, Send(m) PROVE [Promise!Next]_<<reports, verdict>>
  <2>1. /\ err[m] \in Errors /\ pc[m] = "send"
        /\ reports' = Append(reports, <<m, err[m]>>)
    BY <1>4 DEF Send, Goto, At, TypeOK
  <2>2. m \notin Promise!Reporters
    <3>1. ASSUME NEW i \in DOMAIN reports PROVE reports[i][1] # m
      <4>0. reports \in Seq(Monitors \X Errors)
        BY DEF TypeOK
      <4>1. i \in 1 .. Len(reports)
        BY <4>0, LenProperties
      <4>2. pc[reports[i][1]] = "done"
        BY <4>1 DEF FirstInv
      <4> QED BY <2>1, <4>2
    <3> QED BY <3>1 DEF Promise!Reporters
  <2>3. \/ verdict' = verdict
        \/ verdict = Pending /\ reports = <<>> /\ verdict' = err[m]
    BY <1>4 DEF Send, FirstInv
  <2>4. Promise!Report(m, err[m])
    BY <2>1, <2>2, <2>3 DEF Promise!Report
  <2> QED BY <2>1, <2>4 DEF Promise!Next
<1>5. ASSUME NEW m \in Monitors,
             \/ Dial(m) \/ Subscribe(m) \/ Park(m) \/ TakeLost(m) \/ TakeTimer(m) \/ TakeQuit(m)
             \/ TakeHead(m) \/ Handle(m) \/ Fire(m) \/ NewHead(m) \/ Disconnect(m)
      PROVE  UNCHANGED <<reports, verdict>>
  BY <1>5 DEF Dial, Subscribe, Park, TakeLost, TakeTimer, TakeHead, TakeQuit, Handle, Fire,
     NewHead, Disconnect, callerVars
<1> QED
  BY <1>1, <1>2, <1>3, <1>4, <1>5 DEF Next, Caller, Monitor

\* EnsureConsensusWorking implements its promise, for every number of monitors:
\* its verdict is the first error that any of them reports, and nil only if
\* there was none.
THEOREM PromiseKept == Spec => VerdictIsFirstError
<1>1. Init => Promise!Init
  BY DEF Init, Promise!Init
<1> QED
  BY <1>1, TypeInit, TypeNext, FirstInit, FirstNext, StepKeepsPromise,
     PTL DEF Spec, VerdictIsFirstError, Promise!Spec

-----------------------------------------------------------------------------
(* nil means that the nodes are alive                                      *)

\* How long a monitor may have waited for the next block.
Patience(m) == IF height[m] = StableHeight THEN ResetWait ELSE InitialWait

\* A monitor that has not subscribed yet has nothing to watch.
Untouched(m) ==
  pc[m] \in {"dial", "subscribe"} =>
    pending[m] = <<>> /\ height[m] = 0 /\ timer[m] = Off /\ ~ fired[m]

\* A monitor that watches has not waited too long, and its timer runs out
\* before it does.  A header that is still to be handled has just come, and the
\* last one is the height of the node: so the timer is short once the monitor
\* waits again.
Watchful(m) ==
  pc[m] \in {"select", "parked", "handle"} =>
    /\ idle[m] <= Patience(m)
    /\ timer[m] # Off => idle[m] + timer[m] <= InitialWait
    /\ timer[m] # Off /\ pc[m] # "handle" /\ pending[m] = <<>> =>
         idle[m] + timer[m] <= Patience(m)
    /\ timer[m] # Off \/ fired[m]
    /\ pc[m] = "parked" => ~ fired[m] /\ pending[m] = <<>>
    /\ pc[m] = "handle" \/ pending[m] # <<>> => idle[m] = 0
    /\ pending[m] # <<>> => pending[m][Len(pending[m])] = height[m]
    /\ pc[m] = "handle" /\ pending[m] = <<>> => blockNumber[m] = height[m]

WatchInv == \A m \in Monitors : Untouched(m) /\ Watchful(m)

\* A step that leaves a monitor alone keeps what holds of it.
LEMMA WatchSame ==
  ASSUME NEW x \in Monitors, Untouched(x), Watchful(x),
         pc'[x] = pc[x], timer'[x] = timer[x], fired'[x] = fired[x],
         blockNumber'[x] = blockNumber[x], pending'[x] = pending[x],
         height'[x] = height[x], idle'[x] = idle[x]
  PROVE  Untouched(x)' /\ Watchful(x)'
BY DEF Untouched, Watchful, Patience

\* A monitor that has ended or is about to has nothing to watch.
LEMMA WatchOver ==
  ASSUME NEW x \in Monitors, pc'[x] \in {"send", "done"}
  PROVE  Untouched(x)' /\ Watchful(x)'
BY DEF Untouched, Watchful

\* What the types say of one monitor.
LEMMA MonitorTypes ==
  ASSUME TypeOK, NEW x \in Monitors
  PROVE  /\ timer[x] \in Nat /\ timer[x] <= Off /\ idle[x] \in Nat
         /\ pending[x] \in Seq(1 .. StableHeight) /\ fired[x] \in BOOLEAN
         /\ height[x] \in Nat /\ height[x] <= StableHeight
         /\ blockNumber[x] \in Nat /\ blockNumber[x] <= StableHeight
         /\ InitialWait \in Nat \ {0} /\ ResetWait \in Nat \ {0} /\ ResetWait <= InitialWait
         /\ StableHeight \in Nat \ {0} /\ Off = InitialWait + 1
         /\ Patience(x) \in Nat /\ Patience(x) <= InitialWait
BY WaitsAssumption DEF TypeOK, Off, Patience

\* After the last pending value there is none, before it there is the same last.
LEMMA LastOfTail ==
  ASSUME NEW S, NEW s \in Seq(S), s # <<>>
  PROVE  /\ Tail(s) \in Seq(S)
         /\ Tail(s) = <<>> => Head(s) = s[Len(s)]
         /\ Tail(s) # <<>> => Tail(s)[Len(Tail(s))] = s[Len(s)]
<1>1. Tail(s) \in Seq(S) /\ Len(Tail(s)) = Len(s) - 1 /\ Len(s) \in Nat \ {0}
  OBVIOUS
<1>2. \A i \in 1 .. Len(s) - 1 : Tail(s)[i] = s[i + 1]
  OBVIOUS
<1>3. Tail(s) = <<>> => Len(s) = 1
  <2> DEFINE t == Tail(s)
  <2>1. Len(t) = Len(s) - 1 /\ Len(s) \in Nat
    BY <1>1
  <2> HIDE DEF t
  <2>2. t = <<>> => Len(t) = 0
    BY EmptySeq
  <2>3. t = <<>> => Len(s) = 1
    BY <2>1, <2>2
  <2> QED BY <2>3 DEF t
<1>4. Tail(s) # <<>> => Len(s) - 1 \in 1 .. Len(s) - 1
  BY <1>1
<1> QED BY <1>1, <1>2, <1>3, <1>4

\* The monitors begin before their subscriptions.
LEMMA WatchInit == Init => WatchInv
BY DEF Init, WatchInv, Untouched, Watchful

\* A monitor that subscribes has its whole wait before it.
LEMMA WatchSubscribe ==
  ASSUME TypeOK, NEW m \in Monitors, Untouched(m), Subscribe(m)
  PROVE  Untouched(m)' /\ Watchful(m)'
<1>1. CASE pc' = [pc EXCEPT ![m] = "select"]
  <2>1. /\ pc[m] = "subscribe" /\ pc'[m] = "select" /\ timer'[m] = InitialWait /\ idle'[m] = 0
        /\ UNCHANGED <<fired, blockNumber, pending, height>>
    BY <1>1 DEF Subscribe, Goto, At, TypeOK, nodeVars
  <2>2. height[m] = 0 /\ pending[m] = <<>> /\ ~ fired[m]
    BY <2>1 DEF Untouched
  <2>3. Patience(m)' = InitialWait
    BY <2>1, <2>2, MonitorTypes DEF Patience
  <2> QED BY <2>1, <2>2, <2>3, MonitorTypes DEF Untouched, Watchful
<1>2. CASE pc' = [pc EXCEPT ![m] = "send"]
  BY <1>2, WatchOver DEF TypeOK
<1> QED BY <1>1, <1>2 DEF Subscribe, Goto

\* Taking a header leaves its number in blockNumber.
LEMMA WatchTakeHead ==
  ASSUME TypeOK, NEW m \in Monitors, Watchful(m), TakeHead(m)
  PROVE  Untouched(m)' /\ Watchful(m)'
<1>1. /\ pc[m] = "select" /\ pc'[m] = "handle" /\ pending[m] # <<>>
      /\ pending'[m] = Tail(pending[m]) /\ blockNumber'[m] = Head(pending[m])
      /\ UNCHANGED <<timer, fired, height, idle>>
  BY DEF TakeHead, OnHead, At, TypeOK
<1>2. pending[m] \in Seq(1 .. StableHeight)
  BY MonitorTypes
<1>3. /\ Tail(pending[m]) = <<>> => Head(pending[m]) = height[m]
      /\ Tail(pending[m]) # <<>> => Tail(pending[m])[Len(Tail(pending[m]))] = height[m]
  BY <1>1, <1>2, LastOfTail DEF Watchful
<1>4. Patience(m)' = Patience(m)
  BY <1>1 DEF Patience
<1> QED BY <1>1, <1>3, <1>4 DEF Untouched, Watchful

\* After a header the timer is reset, if the chain is stable.
LEMMA WatchHandle ==
  ASSUME TypeOK, NEW m \in Monitors, Watchful(m), Handle(m)
  PROVE  Untouched(m)' /\ Watchful(m)'
<1>1. /\ pc[m] = "handle" /\ pc'[m] = "select"
      /\ timer'[m] = IF blockNumber[m] < StableHeight THEN timer[m] ELSE ResetWait
      /\ UNCHANGED <<fired, blockNumber, pending, height, idle>>
  BY DEF Handle, Goto, At, TypeOK, NewWait, nodeVars
<1>2. idle[m] = 0 /\ Patience(m)' = Patience(m)
  BY <1>1 DEF Watchful, Patience
<1>3. timer'[m] # Off => timer'[m] <= InitialWait
  BY <1>1, <1>2, MonitorTypes DEF Watchful
<1>4. timer'[m] # Off /\ pending[m] = <<>> => timer'[m] <= Patience(m)
  BY <1>1, <1>2, <1>3, MonitorTypes DEF Watchful, Patience
<1>5. timer'[m] # Off \/ fired[m]
  BY <1>1, MonitorTypes DEF Watchful
<1>6. timer'[m] \in Nat
  BY <1>1, MonitorTypes
<1> QED BY <1>1, <1>2, <1>3, <1>4, <1>5, <1>6, MonitorTypes DEF Untouched, Watchful

\* A new block ends the silence.
LEMMA WatchNewHead ==
  ASSUME TypeOK, NEW m \in Monitors, Watchful(m), NewHead(m)
  PROVE  Untouched(m)' /\ Watchful(m)'
<1>0. pc[m] \in {"select", "parked", "handle"} /\ idle'[m] = 0 /\ UNCHANGED <<timer, fired>>
  BY DEF NewHead, Subscribed, TypeOK
<1>1. PICK number \in 1 .. StableHeight : height' = [height EXCEPT ![m] = number]
  BY DEF NewHead
<1>2. height'[m] = number
  BY <1>1 DEF TypeOK
<1>3. Patience(m)' \in Nat
  BY MonitorTypes DEF Patience
<1>4. timer[m] # Off => timer[m] <= InitialWait
  BY <1>0, MonitorTypes DEF Watchful
<1>5. CASE pc[m] = "parked"
  <2>1. pc'[m] = "handle" /\ blockNumber'[m] = height'[m] /\ UNCHANGED pending
    BY <1>5 DEF NewHead, OnHead, TypeOK
  <2>2. pending[m] = <<>> /\ ~ fired[m]
    BY <1>5 DEF Watchful
  <2> QED BY <1>0, <1>3, <1>4, <1>5, <2>1, <2>2, MonitorTypes DEF Untouched, Watchful
<1>6. CASE pc[m] # "parked"
  <2>1. pc' = pc /\ pending'[m] = Append(pending[m], height'[m])
    BY <1>6 DEF NewHead, TypeOK
  <2>2. pending[m] \in Seq(Nat) /\ height'[m] \in Nat
    BY <1>2, MonitorTypes
  <2>3. pending'[m] # <<>> /\ pending'[m][Len(pending'[m])] = height'[m]
    BY <2>1, <2>2
  <2>4. idle'[m] <= Patience(m)' /\ (timer'[m] # Off => idle'[m] + timer'[m] <= InitialWait)
    BY <1>0, <1>3, <1>4, MonitorTypes
  <2>5. timer'[m] # Off \/ fired'[m]
    BY <1>0 DEF Watchful
  <2> QED BY <1>0, <1>6, <2>1, <2>3, <2>4, <2>5 DEF Untouched, Watchful
<1> QED BY <1>5, <1>6

\* A tick: a monitor that is parked has a timer that runs, and no header.
LEMMA WatchTick ==
  ASSUME TypeOK, NEW m \in Monitors, Untouched(m), Watchful(m), Tick
  PROVE  Untouched(m)' /\ Watchful(m)'
<1>1. /\ UNCHANGED <<pc, fired, blockNumber, pending, height>>
      /\ caller # "crashed" /\ timer[m] > 0
      /\ pc[m] \in {"dial", "subscribe", "parked", "done"}
      /\ timer'[m] = IF timer[m] = Off THEN Off ELSE timer[m] - 1
      /\ idle'[m] = IF Subscribed(m) THEN Lesser(idle[m] + 1, InitialWait + 1) ELSE 0
  BY DEF Tick, Quiet
<1>2. CASE pc[m] = "parked"
  <2>1. timer[m] # Off /\ ~ fired[m] /\ pending[m] = <<>>
    BY <1>2 DEF Watchful
  <2>2. timer'[m] = timer[m] - 1 /\ idle[m] + timer[m] <= Patience(m)
    BY <1>1, <1>2, <2>1 DEF Watchful
  <2>3. idle[m] + 1 <= Patience(m)
    BY <1>1, <2>2, MonitorTypes
  <2>4. idle'[m] = idle[m] + 1
    BY <1>1, <1>2, <2>3, MonitorTypes DEF Subscribed, Lesser
  <2>5. Patience(m)' = Patience(m)
    BY <1>1 DEF Patience
  <2>6. idle'[m] <= Patience(m)' /\ idle'[m] + timer'[m] <= Patience(m)'
    BY <2>2, <2>3, <2>4, <2>5, MonitorTypes
  <2>7. idle'[m] + timer'[m] <= InitialWait /\ timer'[m] # Off
    BY <1>1, <2>1, <2>2, <2>4, MonitorTypes
  <2> QED BY <1>1, <1>2, <2>1, <2>6, <2>7 DEF Untouched, Watchful
<1>3. CASE pc[m] # "parked"
  BY <1>1, <1>3 DEF Untouched, Watchful
<1> QED BY <1>2, <1>3

\* Every step keeps the watch of every monitor.
LEMMA WatchNext == TypeOK /\ WatchInv /\ [Next]_vars => WatchInv'
<1> SUFFICES ASSUME TypeOK, WatchInv, [Next]_vars, NEW x \in Monitors
             PROVE  Untouched(x)' /\ Watchful(x)'
  BY DEF WatchInv
<1>0. Untouched(x) /\ Watchful(x)
  BY DEF WatchInv
<1>1. CASE UNCHANGED <<pc, monVars, nodeVars, idle>>
  BY <1>0, <1>1, WatchSame DEF monVars, nodeVars
<1>2. CASE Caller
  <2>1. CASE \E m \in Monitors : Goto(m, "parked", "done") /\ Leave(m)
    <3>1. PICK m \in Monitors : Goto(m, "parked", "done") /\ Leave(m)
      BY <2>1
    <3>2. CASE x = m
      BY <3>1, <3>2, WatchOver DEF Goto, TypeOK
    <3>3. CASE x # m
      BY <1>0, <3>1, <3>3, WatchSame DEF Goto, Leave, StopTimer, TypeOK
    <3> QED BY <3>2, <3>3
  <2>2. CASE UNCHANGED <<pc, monVars, nodeVars, idle>>
    BY <1>1, <2>2
  <2> QED BY <1>2, <2>1, <2>2 DEF Caller, Select, TimeIsOver, SendQuit, ReturnNil
<1>3. CASE Tick
  BY <1>0, <1>3, WatchTick
<1>4. ASSUME NEW m \in Monitors, Monitor(m) \/ Fire(m) \/ NewHead(m) \/ Disconnect(m), x # m
      PROVE  Untouched(x)' /\ Watchful(x)'
  <2>1. pc'[x] = pc[x] /\ timer'[x] = timer[x] /\ fired'[x] = fired[x]
    BY <1>4 DEF Monitor, Dial, Subscribe, Park, TakeLost, TakeTimer, TakeHead, TakeQuit, Handle,
       Send, Fire, NewHead, Disconnect, Goto, At, Leave, StopTimer, OnLost, OnTimer, OnHead,
       TypeOK, monVars
  <2>2. blockNumber'[x] = blockNumber[x] /\ pending'[x] = pending[x]
    BY <1>4 DEF Monitor, Dial, Subscribe, Park, TakeLost, TakeTimer, TakeHead, TakeQuit, Handle,
       Send, Fire, NewHead, Disconnect, Leave, OnLost, OnTimer, OnHead, TypeOK, monVars, nodeVars
  <2>3. height'[x] = height[x] /\ idle'[x] = idle[x]
    BY <1>4 DEF Monitor, Dial, Subscribe, Park, TakeLost, TakeTimer, TakeHead, TakeQuit, Handle,
       Send, Fire, NewHead, Disconnect, Leave, TypeOK, nodeVars
  <2> QED BY <1>0, <2>1, <2>2, <2>3, WatchSame
<1>5. CASE Dial(x)
  <2>1. UNCHANGED <<monVars, nodeVars, idle>>
        /\ (pc' = pc \/ (pc[x] = "dial" /\ pc'[x] = "subscribe"))
    BY <1>5 DEF Dial, Goto, At, TypeOK
  <2> QED BY <1>0, <1>1, <2>1 DEF Untouched, Watchful, monVars, nodeVars
<1>6. CASE Subscribe(x)
  BY <1>0, <1>6, WatchSubscribe
<1>7. CASE Park(x)
  <2>1. /\ pc[x] = "select" /\ pc'[x] = "parked" /\ ~ fired[x] /\ pending[x] = <<>>
        /\ UNCHANGED <<monVars, nodeVars, idle>>
    BY <1>7 DEF Park, Goto, At, TypeOK
  <2> QED BY <1>0, <2>1 DEF Untouched, Watchful, Patience, monVars, nodeVars
<1>8. CASE TakeLost(x) \/ TakeTimer(x) \/ TakeQuit(x) \/ Send(x)
  BY <1>8, WatchOver DEF TakeLost, TakeTimer, TakeQuit, Send, OnLost, OnTimer, Goto, TypeOK
<1>9. CASE TakeHead(x)
  BY <1>0, <1>9, WatchTakeHead
<1>10. CASE Handle(x)
  BY <1>0, <1>10, WatchHandle
<1>11. CASE Fire(x)
  <2>1. timer[x] = 0 /\ timer[x] # Off
    BY <1>11, MonitorTypes DEF Fire
  <2>2. CASE pc[x] = "parked"
    BY <1>11, <2>2, WatchOver DEF Fire, OnTimer, TypeOK
  <2>3. CASE pc[x] # "parked"
    <3>1. timer'[x] = Off /\ fired'[x] /\ UNCHANGED <<pc, blockNumber, pending, height, idle>>
      BY <1>11, <2>3 DEF Fire, StopTimer, TypeOK, nodeVars
    <3> QED BY <1>0, <2>1, <2>3, <3>1 DEF Untouched, Watchful, Patience
  <2> QED BY <2>2, <2>3
<1>12. CASE NewHead(x)
  BY <1>0, <1>12, WatchNewHead
<1>13. CASE Disconnect(x)
  <2>1. CASE pc[x] = "parked"
    BY <1>13, <2>1, WatchOver DEF Disconnect, OnLost, TypeOK
  <2>2. CASE pc[x] # "parked"
    BY <1>0, <1>13, <2>2, WatchSame DEF Disconnect
  <2> QED BY <2>1, <2>2
<1>14. CASE UNCHANGED vars
  BY <1>1, <1>14 DEF vars
<1> QED
  BY <1>2, <1>3, <1>4, <1>5, <1>6, <1>7, <1>8, <1>9, <1>10, <1>11, <1>12, <1>13, <1>14
     DEF Next, Monitor

\* When the time is over and nil is the answer, no monitor has been without a
\* block for longer than its wait, however the blocks, the timers and the
\* caller's select came in between.
THEOREM NilAlive == Spec => []NilMeansAlive
<1>1. WatchInv => NilMeansAlive
  BY DEF WatchInv, NilMeansAlive, Watchful, Patience, Subscribed
<1> QED BY <1>1, TypeCorrect, WatchInit, WatchNext, PTL DEF Spec

=============================================================================

-------------------------- MODULE ConsensusMonitor --------------------------
(***************************************************************************)
(* EnsureConsensusWorking (container/blockchain.go) and the goroutines it  *)
(* starts, one ethereum.ConsensusMonitor per node (container/ethereum.go). *)
(*                                                                         *)
(* The caller and the monitors communicate through two buffered channels.  *)
(* Go's select is modelled as it works: evaluated while several cases are  *)
(* ready it takes any of them; evaluated while none is ready it parks the  *)
(* goroutine, and the first event after that is handed to it.              *)
(*                                                                         *)
(* Time is counted in ticks and every timer counts down.  It passes only   *)
(* while all goroutines wait, for an event or for the network: a goroutine *)
(* that can run does so within the tick.                                   *)
(***************************************************************************)
EXTENDS Naturals, Sequences, FiniteSets

CONSTANTS
  Monitors,     \* one per node of the argument geths
  Timeout,      \* the argument t of EnsureConsensusWorking
  InitialWait,  \* first duration of the monitor's timer (10 s)
  ResetWait,    \* duration set after a block (3 s)
  StableHeight, \* block number from which the timer is reset (3)
  MaxBurst      \* bound: blocks of a node within one tick

ASSUME WaitsAssumption == /\ Timeout \in Nat \ {0}
                          /\ InitialWait \in Nat \ {0} /\ ResetWait \in 1 .. InitialWait
                          /\ StableHeight \in Nat \ {0} /\ MaxBurst \in Nat
ASSUME MonitorsAssumption == IsFiniteSet(Monitors) /\ Monitors # {}

VARIABLES
  caller,      \* where EnsureConsensusWorking is
  deadline,    \* ticks left of its timer
  errCh,       \* channel of errors: a sequence
  quitCh,      \* channel of struct{}: how many it holds
  quitsLeft,   \* iterations left of the loop that sends on quitCh
  verdict,     \* what EnsureConsensusWorking returns
  pc,          \* where each monitor is
  timer,       \* ticks left of each monitor's timer, Off when not running
  fired,       \* whether timer.C holds a value
  blockNumber, \* number of the last header handled, capped at StableHeight
  err,         \* the error a monitor is about to send
  pending,     \* numbers of the headers received and not yet handled
  lost,        \* whether sub.Err() holds an error
  height,      \* the node: number of the last header sent, capped, 0 before
  burst,       \* the node: blocks within this tick
  idle,        \* history: ticks since a block or the subscription, capped
  reports      \* history: all errors sent, in order, with their senders

callerVars == <<caller, deadline, quitsLeft, verdict>>
chanVars == <<errCh, quitCh>>
monVars == <<timer, fired, blockNumber, err>>
nodeVars == <<pending, lost, height, burst>>
vars == <<callerVars, chanVars, pc, monVars, nodeVars, idle, reports>>

Pending == "pending"
Success == "nil"
ErrNoBlock == "ErrNoBlock"
ErrTimeout == "ErrTimeout"
ErrConn == "connection"
Errors == {ErrNoBlock, ErrTimeout, ErrConn}
Off == InitialWait + 1

\* make(chan ..., len(geths)), for both channels.
CapOfOne == 1  \* mutant: a channel for one monitor
Cap == Cardinality(Monitors)

\* Iterations of the loop that sends the quits.
QuitsButOne == Cardinality(Monitors) - 1  \* mutant: the loop ends early
Quits == Cardinality(Monitors)

Lesser(a, b) == IF a < b THEN a ELSE b

Init ==
  /\ caller = "started" /\ verdict = Pending
  /\ deadline = Timeout /\ quitsLeft = 0
  /\ errCh = <<>> /\ quitCh = 0
  /\ pc = [m \in Monitors |-> "dial"]
  /\ timer = [m \in Monitors |-> Off]
  /\ fired = [m \in Monitors |-> FALSE]
  /\ blockNumber = [m \in Monitors |-> 0]
  /\ err = [m \in Monitors |-> ErrConn]
  /\ pending = [m \in Monitors |-> <<>>]
  /\ lost = [m \in Monitors |-> FALSE]
  /\ height = [m \in Monitors |-> 0]
  /\ burst = [m \in Monitors |-> 0]
  /\ idle = [m \in Monitors |-> 0]
  /\ reports = <<>>

\* A panic ends the process: no goroutine goes on.
At(m, place) == caller # "crashed" /\ pc[m] = place

Goto(m, from, to) == At(m, from) /\ pc' = [pc EXCEPT ![m] = to]

StopTimer(m) == timer' = [timer EXCEPT ![m] = Off]

\* A monitor returns: the timer is stopped and the subscription cancelled, and
\* what its variables and channels hold is of no use any more.
Leave(m) ==
  /\ StopTimer(m)
  /\ fired' = [fired EXCEPT ![m] = FALSE]
  /\ blockNumber' = [blockNumber EXCEPT ![m] = 0]
  /\ err' = [err EXCEPT ![m] = ErrConn]
  /\ pending' = [pending EXCEPT ![m] = <<>>]
  /\ lost' = [lost EXCEPT ![m] = FALSE]
  /\ height' = [height EXCEPT ![m] = 0]
  /\ burst' = [burst EXCEPT ![m] = 0]
  /\ idle' = [idle EXCEPT ![m] = 0]

-----------------------------------------------------------------------------
(* EnsureConsensusWorking                                                  *)

\* select on errCh and the timer.  The timer has just been started, so only
\* an error can be there already.
NothingEverSent == TRUE  \* mutant: errors sent before the select are not seen
NothingSent == errCh = <<>>

Select ==
  /\ caller = "started"
  /\ IF NothingSent
       THEN /\ caller' = "parked"
            /\ UNCHANGED <<errCh, verdict>>
       ELSE /\ caller' = "returned" /\ verdict' = Head(errCh)
            /\ errCh' = Tail(errCh)
  /\ UNCHANGED <<deadline, quitsLeft, quitCh, pc, monVars, nodeVars, idle, reports>>

TimeIsOver ==
  /\ caller = "parked" /\ deadline = 0
  /\ caller' = "quitting" /\ verdict' = Success
  /\ quitsLeft' = Quits
  /\ UNCHANGED <<deadline, chanVars, pc, monVars, nodeVars, idle, reports>>

\* quitCh <- struct{}{}, handed to a parked monitor if there is one.
SendQuit ==
  /\ caller = "quitting" /\ quitsLeft > 0
  /\ quitsLeft' = quitsLeft - 1
  /\ \/ /\ \E m \in Monitors : Goto(m, "parked", "done") /\ Leave(m)
        /\ UNCHANGED quitCh
     \/ /\ \A m \in Monitors : pc[m] # "parked"
        /\ quitCh < Cap /\ quitCh' = quitCh + 1
        /\ UNCHANGED <<pc, monVars, nodeVars, idle>>
  /\ UNCHANGED <<caller, deadline, verdict, errCh, reports>>

ReturnNil ==
  /\ caller = "quitting" /\ quitsLeft = 0
  /\ caller' = "returned"
  /\ UNCHANGED <<deadline, quitsLeft, verdict, chanVars, pc, monVars, nodeVars, idle, reports>>

-----------------------------------------------------------------------------
(* ConsensusMonitor                                                        *)

\* NewClient.  When it cannot connect it returns nil and the next line
\* panics, which ends the whole process.
Dial(m) ==
  /\ \/ Goto(m, "dial", "subscribe") /\ UNCHANGED caller
     \/ At(m, "dial") /\ caller' = "crashed" /\ UNCHANGED pc
  /\ UNCHANGED <<deadline, quitsLeft, verdict, chanVars, monVars, nodeVars, idle, reports>>

\* SubscribeNewHead fails, or gives headers from now on; the timer starts.
Subscribe(m) ==
  /\ \/ /\ Goto(m, "subscribe", "select")
        /\ timer' = [timer EXCEPT ![m] = InitialWait]
        /\ idle' = [idle EXCEPT ![m] = 0]
        /\ UNCHANGED err
     \/ /\ Goto(m, "subscribe", "send")
        /\ err' = [err EXCEPT ![m] = ErrConn]
        /\ UNCHANGED <<timer, idle>>
  /\ UNCHANGED <<callerVars, chanVars, fired, blockNumber, nodeVars, reports>>

\* The four cases of the monitor's select: what each does with its event.
OnLost(m) ==
  /\ pc' = [pc EXCEPT ![m] = "send"]
  /\ err' = [err EXCEPT ![m] = ErrConn]
OnTimerNil(m) ==  \* mutant: the outer err, nil, is sent
  /\ pc' = [pc EXCEPT ![m] = "send"]
  /\ err' = [err EXCEPT ![m] = Success]
OnTimer(m) ==
  /\ pc' = [pc EXCEPT ![m] = "send"]
  /\ err' = [err EXCEPT ![m] = IF blockNumber[m] = 0 THEN ErrNoBlock ELSE ErrTimeout]
OnHead(m, number) ==
  /\ pc' = [pc EXCEPT ![m] = "handle"]
  /\ blockNumber' = [blockNumber EXCEPT ![m] = number]

TakeLost(m) ==
  /\ At(m, "select") /\ lost[m]
  /\ lost' = [lost EXCEPT ![m] = FALSE]
  /\ OnLost(m)
  /\ UNCHANGED <<callerVars, chanVars, timer, fired, blockNumber, pending, height, burst, idle, reports>>

TakeTimer(m) ==
  /\ At(m, "select") /\ fired[m]
  /\ fired' = [fired EXCEPT ![m] = FALSE]
  /\ OnTimer(m)
  /\ UNCHANGED <<callerVars, chanVars, timer, blockNumber, nodeVars, idle, reports>>

TakeHead(m) ==
  /\ At(m, "select") /\ pending[m] # <<>>
  /\ pending' = [pending EXCEPT ![m] = Tail(@)]
  /\ OnHead(m, Head(pending[m]))
  /\ UNCHANGED <<callerVars, chanVars, timer, fired, err, lost, height, burst, idle, reports>>

TakeQuit(m) ==
  /\ Goto(m, "select", "done") /\ quitCh > 0
  /\ quitCh' = quitCh - 1
  /\ Leave(m)
  /\ UNCHANGED <<callerVars, errCh, reports>>

Park(m) ==
  /\ Goto(m, "select", "parked")
  /\ ~ lost[m] /\ ~ fired[m] /\ pending[m] = <<>> /\ quitCh = 0
  /\ UNCHANGED <<callerVars, chanVars, monVars, nodeVars, idle, reports>>

\* The timer after a header: a stable chain resets it.
InitialWaitAgain(m) ==  \* mutant: the chain is given the first wait again
  IF blockNumber[m] < StableHeight THEN timer[m] ELSE InitialWait
NewWait(m) == IF blockNumber[m] < StableHeight THEN timer[m] ELSE ResetWait

\* The rest of the header's case.  Reset leaves a value that is already in
\* timer.C there.
Handle(m) ==
  /\ Goto(m, "handle", "select")
  /\ timer' = [timer EXCEPT ![m] = NewWait(m)]
  /\ UNCHANGED <<callerVars, chanVars, fired, blockNumber, err, nodeVars, idle, reports>>

\* errCh <- err, handed to the caller if it is parked; then return.
Send(m) ==
  /\ Goto(m, "send", "done")
  /\ reports' = Append(reports, <<m, err[m]>>)
  /\ Leave(m)
  /\ \/ /\ caller = "parked" /\ caller' = "returned" /\ verdict' = err[m]
        /\ UNCHANGED errCh
     \/ /\ caller # "parked" /\ Len(errCh) < Cap
        /\ errCh' = Append(errCh, err[m])
        /\ UNCHANGED <<caller, verdict>>
  /\ UNCHANGED <<deadline, quitsLeft, quitCh>>

-----------------------------------------------------------------------------
(* The runtime and the nodes                                               *)

\* A monitor's timer runs out: its value goes to the parked monitor or stays.
Fire(m) ==
  /\ caller # "crashed" /\ timer[m] = 0
  /\ StopTimer(m)
  /\ IF pc[m] = "parked"
       THEN OnTimer(m) /\ UNCHANGED fired
       ELSE fired' = [fired EXCEPT ![m] = TRUE] /\ UNCHANGED <<pc, err>>
  /\ UNCHANGED <<callerVars, chanVars, blockNumber, nodeVars, idle, reports>>

Subscribed(m) == caller # "crashed" /\ pc[m] \in {"select", "parked", "handle"}

\* The node of a subscribed monitor has a new block.  The first one may have
\* any number: the chain may be running already.
NewHead(m) ==
  /\ Subscribed(m) /\ ~ lost[m] /\ burst[m] < MaxBurst
  /\ burst' = [burst EXCEPT ![m] = @ + 1]
  /\ \E number \in 1 .. StableHeight :
       /\ height[m] > 0 => number = Lesser(height[m] + 1, StableHeight)
       /\ height' = [height EXCEPT ![m] = number]
  /\ idle' = [idle EXCEPT ![m] = 0]
  /\ IF pc[m] = "parked"
       THEN OnHead(m, height'[m]) /\ UNCHANGED pending
       ELSE /\ pending' = [pending EXCEPT ![m] = Append(@, height'[m])]
            /\ UNCHANGED <<pc, blockNumber>>
  /\ UNCHANGED <<callerVars, chanVars, timer, fired, err, lost, reports>>

\* The connection to the node breaks.
Disconnect(m) ==
  /\ Subscribed(m) /\ ~ lost[m]
  /\ IF pc[m] = "parked"
       THEN OnLost(m) /\ UNCHANGED lost
       ELSE lost' = [lost EXCEPT ![m] = TRUE] /\ UNCHANGED <<pc, err>>
  /\ UNCHANGED <<callerVars, chanVars, timer, fired, blockNumber, pending, height, burst, idle, reports>>

\* Everybody waits and no timer is due.
Quiet == /\ caller \in {"parked", "returned"}
         /\ caller = "parked" => deadline > 0
         /\ \A m \in Monitors : pc[m] \in {"dial", "subscribe", "parked", "done"}
         /\ \A m \in Monitors : timer[m] > 0

Tick ==
  /\ Quiet
  /\ \E m \in Monitors : pc[m] # "done"
  /\ deadline' = IF caller = "parked" THEN deadline - 1 ELSE deadline
  /\ timer' = [m \in Monitors |-> IF timer[m] = Off THEN Off ELSE timer[m] - 1]
  /\ idle' = [m \in Monitors |-> IF Subscribed(m) THEN Lesser(idle[m] + 1, InitialWait + 1) ELSE 0]
  /\ burst' = [m \in Monitors |-> 0]
  /\ UNCHANGED <<caller, quitsLeft, verdict, chanVars, pc, fired, blockNumber, err>>
  /\ UNCHANGED <<pending, lost, height, reports>>

-----------------------------------------------------------------------------
Caller == Select \/ TimeIsOver \/ SendQuit \/ ReturnNil

Monitor(m) == \/ Dial(m) \/ Subscribe(m) \/ Park(m)
              \/ TakeLost(m) \/ TakeTimer(m) \/ TakeHead(m) \/ TakeQuit(m)
              \/ Handle(m) \/ Send(m)

Next ==
  \/ Caller \/ Tick
  \/ \E m \in Monitors : Monitor(m) \/ Fire(m) \/ NewHead(m) \/ Disconnect(m)

\* Goroutines that can run do, and time passes.  A select that finds quitCh
\* ready again and again takes it at some time: ready cases are drawn at
\* random.
Fairness ==
  /\ WF_vars(Caller) /\ WF_vars(Tick)
  /\ \A m \in Monitors : WF_vars(Monitor(m)) /\ WF_vars(Fire(m)) /\ SF_vars(TakeQuit(m))

Spec == Init /\ [][Next]_vars /\ Fairness

-----------------------------------------------------------------------------
(* Properties                                                              *)

\* Type invariant of the caller, the channels, the monitors and their nodes.
TypeOK ==
  /\ caller \in {"started", "parked", "quitting", "returned", "crashed"}
  /\ deadline \in 0 .. Timeout /\ quitsLeft \in 0 .. Quits
  /\ verdict \in {Pending, Success} \cup Errors
  /\ errCh \in Seq(Errors) /\ quitCh \in 0 .. Cap
  /\ pc \in [Monitors -> {"dial", "subscribe", "select", "parked", "handle", "send", "done"}]
  /\ timer \in [Monitors -> 0 .. Off]
  /\ fired \in [Monitors -> BOOLEAN]
  /\ blockNumber \in [Monitors -> 0 .. StableHeight]
  /\ err \in [Monitors -> Errors]
  /\ pending \in [Monitors -> Seq(1 .. StableHeight)]
  /\ lost \in [Monitors -> BOOLEAN]
  /\ height \in [Monitors -> 0 .. StableHeight]
  /\ burst \in [Monitors -> 0 .. MaxBurst]
  /\ idle \in [Monitors -> 0 .. InitialWait + 1]
  /\ reports \in Seq(Monitors \X Errors)

\* The channels are large enough for everybody: no monitor blocks sending its
\* error although the caller may have left, and the caller does not block
\* sending the quits although monitors may have ended before.
NobodyBlocks ==
  /\ \A m \in Monitors : pc[m] = "send" => caller = "parked" \/ Len(errCh) < Cap
  /\ caller = "quitting" /\ quitsLeft > 0 =>
       quitCh < Cap \/ \E m \in Monitors : pc[m] = "parked"

\* EnsureConsensusWorking refines what it promises: its verdict is the first
\* error any monitor sent, and nil only when none was sent before.
Promise == INSTANCE EnsureConsensus
             WITH Monitors <- Monitors, Errors <- Errors, Pending <- Pending,
                  Success <- Success, reports <- reports, verdict <- verdict

VerdictIsFirstError == Promise!Spec

\* nil means that the nodes are alive: when the time is over, every monitor
\* that watches its node has seen a block within its wait, or has not waited
\* longer than that since it subscribed.
NilMeansAlive ==
  caller = "quitting" =>
    \A m \in Monitors : Subscribed(m) =>
      idle[m] <= IF height[m] = StableHeight THEN ResetWait ELSE InitialWait

\* EnsureConsensusWorking returns, unless a monitor's panic ends the process.
CallReturns == caller = "started" ~> caller \in {"returned", "crashed"}

\* A call that returns nil leaves no monitor behind: each one takes a quit or
\* ends by itself, even with blocks coming in all the time.
NilLeavesNoMonitor ==
  verdict = Success ~> caller = "crashed" \/ \A m \in Monitors : pc[m] = "done"

\* Once the chain is stable, ErrTimeout is for a node that did not produce a
\* block for the whole shorter wait (blocks are two seconds apart, and one
\* second more is tolerated): the monitor has handled every header it got, and
\* the timer it reset for the last one has run out.
TimeoutMeansSilence ==
  \A m \in Monitors :
    /\ pc[m] = "send" /\ err[m] = ErrTimeout
    /\ blockNumber[m] = StableHeight /\ pending[m] = <<>>
    => idle[m] >= ResetWait
=============================================================================

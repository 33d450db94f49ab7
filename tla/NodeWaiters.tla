---------------------------- MODULE NodeWaiters ----------------------------
(***************************************************************************)
(* The calls that wait for a node (WaitFor... in container/ethereum.go).   *)
(* WaitForBalances starts a goroutine per account and collects their       *)
(* errors from a channel.  The tests run the other calls in a goroutine    *)
(* per node (WaitFor in utils.go) and expect one result of all of them; an *)
(* expectation that fails ends the process.                                *)
(*                                                                         *)
(* A tick of time is the period of the tickers.  Time passes only while    *)
(* all goroutines wait for an event or for an answer of the node.          *)
(***************************************************************************)
EXTENDS Integers, Sequences, FiniteSets

CONSTANTS
  Pollers,   \* the goroutines: one per node, or per account
  Calls,     \* the calls to make, of AllCalls
  Nums,      \* values of the argument num or expectedPeercount
  Duration,  \* ticks of the time given to the calls that take one
  MaxLevel,  \* bound: block number, peers, balance
  Word       \* number of values of a uint64

ASSUME PollersAssumption == IsFiniteSet(Pollers) /\ Pollers # {}
ASSUME BoundsAssumption == /\ Nums \subseteq Nat /\ Duration \in Nat \ {0}
                           /\ MaxLevel \in Nat /\ Word \in Nat \ {0, 1}

Timed == {"WaitForProposed", "WaitForBlocks", "WaitForNoBlocks", "WaitForBalances"}
Untimed == {"WaitForPeersConnected", "WaitForBlockHeight"}
AllCalls == Timed \cup Untimed

ASSUME CallsAssumption == Calls \subseteq AllCalls

VARIABLES
  call, num,  \* the call and its argument
  expects,    \* what the test expects of it
  caller,     \* where WaitForBalances or WaitFor is
  errc,       \* WaitForBalances: the channel of errors
  taken, err, \* WaitForBalances: errors received, the one it returns
  pc,         \* where each goroutine is
  timer,      \* ticks left of its time, Off when there is no limit
  expired,    \* whether the channel of the timer holds a value
  ticked,     \* whether that of the ticker does
  first,      \* the first block number polled, None before
  result,     \* what the goroutine's wait returned
  level,      \* the node: block number, peers or balance
  start,      \* history: level when the wait began
  most,       \* history: the highest level since then
  reports     \* history: the results nobody expects, with their goroutines

input == <<call, num, expects>>
callerVars == <<caller, errc, taken, err>>
pollVars == <<timer, expired, ticked, first, result>>
vars == <<input, callerVars, pc, pollVars, level, start, most, reports>>

Pending == "pending"
Success == "nil"
ErrNoBlock == "ErrNoBlock"
ErrTimeout == "ErrTimeout"
TooMany == "TooMany"
NoResult == "NoResult"
ErrConn == "connection"
Errors == {ErrNoBlock, ErrTimeout, TooMany, NoResult, ErrConn}
None == -1
Off == Duration + 1

Balances == call = "WaitForBalances"
Polling == call # "WaitForProposed"

\* make(chan error, len(addrs)).
CapOfNone == 0  \* mutant: the channel has no buffer
Cap == Cardinality(Pollers)

\* The tests expect nil, or of a halted chain ErrNoBlock.
Init ==
  /\ call \in Calls /\ num \in Nums
  /\ expects \in IF call = "WaitForBlocks" THEN {Success, ErrNoBlock} ELSE {Success}
  /\ caller = IF Balances THEN "dial" ELSE "join"
  /\ errc = <<>> /\ taken = 0 /\ err = Success
  /\ pc = [p \in Pollers |-> IF Balances THEN "new" ELSE "dial"]
  /\ timer = [p \in Pollers |-> Off]
  /\ expired = [p \in Pollers |-> FALSE] /\ ticked = [p \in Pollers |-> FALSE]
  /\ first = [p \in Pollers |-> None]
  /\ result = [p \in Pollers |-> Pending]
  /\ level \in [Pollers -> 0 .. MaxLevel]
  /\ start = level /\ most = level
  /\ reports = <<>>

At(p, place) == caller # "crashed" /\ pc[p] = place

\* A goroutine's wait returns r.  WaitForBalances is sent it; the function the
\* test passed to WaitFor compares it with what the test expects.
Finish(p, r) ==
  /\ result' = [result EXCEPT ![p] = r]
  /\ timer' = [timer EXCEPT ![p] = Off]
  /\ expired' = [expired EXCEPT ![p] = FALSE]
  /\ ticked' = [ticked EXCEPT ![p] = FALSE]
  /\ first' = [first EXCEPT ![p] = None]
  /\ IF Balances
       THEN pc' = [pc EXCEPT ![p] = "send"] /\ UNCHANGED <<caller, reports>>
       ELSE /\ pc' = [pc EXCEPT ![p] = "done"]
            /\ caller' = IF r = expects THEN caller ELSE "crashed"
            /\ reports' = IF r = expects THEN reports ELSE Append(reports, <<p, r>>)

-----------------------------------------------------------------------------
(* WaitForBalances and WaitFor                                             *)

\* WaitForBalances has one client for all its goroutines.
DialOnce ==
  /\ caller = "dial"
  /\ \/ /\ caller' = "collect" /\ UNCHANGED err
        /\ pc' = [p \in Pollers |-> "select"]
        /\ timer' = [p \in Pollers |-> Duration]
        /\ start' = level /\ most' = level
     \/ caller' = "returned" /\ err' = ErrConn /\ UNCHANGED <<pc, timer, start, most>>
  /\ reports' = IF err' = Success THEN reports ELSE Append(reports, <<"caller", err'>>)
  /\ UNCHANGED <<input, errc, taken, expired, ticked, first, result, level>>

LoopEndsWhenAll(e, n) == n = Cardinality(Pollers)  \* mutant: no break
LoopEndsEarly(e, n) == e # Success \/ n + 1 >= Cardinality(Pollers)  \* mutant: one result less
LoopEnds(e, n) == e # Success \/ n = Cardinality(Pollers)

\* One iteration of the loop that ends with the first error.
Collect ==
  /\ caller = "collect" /\ errc # <<>>
  /\ errc' = Tail(errc) /\ err' = Head(errc) /\ taken' = taken + 1
  /\ caller' = IF LoopEnds(err', taken') THEN "join" ELSE "collect"
  /\ UNCHANGED <<input, pc, pollVars, level, start, most, reports>>

\* wg.Wait().  Nothing ends the goroutines after the first error.
AllDone == \A p \in Pollers : pc[p] = "done"

Join ==
  /\ caller = "join" /\ AllDone
  /\ caller' = "returned"
  /\ UNCHANGED <<input, errc, taken, err, pc, pollVars, level, start, most, reports>>

\* errc <- waitBalance(addr), then wg.Done().
Send(p) ==
  /\ At(p, "send") /\ Len(errc) < Cap
  /\ errc' = Append(errc, result[p])
  /\ pc' = [pc EXCEPT ![p] = "done"]
  /\ reports' = IF result[p] = Success THEN reports ELSE Append(reports, <<p, result[p]>>)
  /\ UNCHANGED <<input, caller, taken, err, pollVars, level, start, most>>

-----------------------------------------------------------------------------
(* The waits                                                               *)

\* NewClient is nil when the node does not answer.  WaitForProposed uses it
\* all the same, which panics; the other calls return an error.
Dial(p) ==
  /\ At(p, "dial")
  /\ \/ /\ pc' = [pc EXCEPT ![p] = IF Polling THEN "select" ELSE "subscribe"]
        /\ timer' = [timer EXCEPT ![p] = IF call \in Timed /\ Polling THEN Duration ELSE Off]
        /\ start' = [start EXCEPT ![p] = level[p]]
        /\ most' = [most EXCEPT ![p] = level[p]]
        /\ UNCHANGED <<caller, reports, expired, ticked, first, result>>
     \/ Polling /\ Finish(p, ErrConn) /\ UNCHANGED <<start, most>>
     \/ ~ Polling /\ caller' = "crashed" /\ UNCHANGED <<pc, pollVars, start, most, reports>>
  /\ UNCHANGED <<input, errc, taken, err, level>>

Subscribe(p) ==
  /\ At(p, "subscribe")
  /\ \/ /\ pc' = [pc EXCEPT ![p] = "select"]
        /\ timer' = [timer EXCEPT ![p] = Duration]
        /\ UNCHANGED <<caller, reports, expired, ticked, first, result>>
     \/ Finish(p, ErrConn)
  /\ UNCHANGED <<input, errc, taken, err, level, start, most>>

\* The time is over.
OnTimeout == CASE call = "WaitForBlocks" -> ErrNoBlock
               [] call = "WaitForNoBlocks" -> Success
               [] call = "WaitForBalances" -> ErrTimeout
               [] call = "WaitForProposed" -> NoResult

TakeTimeout(p) ==
  /\ At(p, "select") /\ expired[p]
  /\ Finish(p, OnTimeout)
  /\ UNCHANGED <<input, errc, taken, err, level, start, most>>

\* WaitForProposed: the connection breaks, or a header comes with its speaker.
TakeHead(p) ==
  /\ At(p, "select") /\ ~ Polling
  /\ \E r \in {ErrConn, Success} : Finish(p, r)
  /\ UNCHANGED <<input, errc, taken, err, level, start, most>>

\* A header of another speaker is dropped, a tick leads to a request.
TakeTick(p) ==
  /\ At(p, "select") /\ ticked[p]
  /\ ticked' = [ticked EXCEPT ![p] = FALSE]
  /\ pc' = [pc EXCEPT ![p] = "poll"]
  /\ UNCHANGED <<input, callerVars, timer, expired, first, result, level, start, most, reports>>

\* Whether the first answer is only the number the others are compared with.
NeverBase(p) == FALSE  \* mutant: the blocks of the past count
IsBase(p) == call \in {"WaitForBlocks", "WaitForNoBlocks"} /\ first[p] = None

BaseBelow(n) == n - num  \* mutant: the blocks to wait for are taken off
Base(n) == n

Since(p, n) == n - (IF first[p] = None THEN 0 ELSE first[p])

Enough(n) == n >= num

MoreThanAllowed(n) == n > num

\* Whether the answer n ends the wait.  A balance is truncated to 64 bits.
Ends(p, n) ==
  CASE call \in Untimed -> Enough(n)
    [] call = "WaitForBlocks" -> Enough(Since(p, n))
    [] call = "WaitForNoBlocks" -> MoreThanAllowed(Since(p, n))
    [] call = "WaitForBalances" -> n % Word > 0

\* The node answers the request, or the request fails.
Poll(p) ==
  /\ At(p, "poll")
  /\ \/ Finish(p, ErrConn)
     \/ ~ IsBase(p) /\ Ends(p, level[p])
        /\ Finish(p, IF call = "WaitForNoBlocks" THEN TooMany ELSE Success)
     \/ /\ IsBase(p) \/ ~ Ends(p, level[p])
        /\ first' = [first EXCEPT ![p] = IF IsBase(p) THEN Base(level[p]) ELSE @]
        /\ pc' = [pc EXCEPT ![p] = "select"]
        /\ UNCHANGED <<caller, reports, timer, expired, ticked, result>>
  /\ UNCHANGED <<input, errc, taken, err, level, start, most>>

-----------------------------------------------------------------------------
(* The nodes and time                                                      *)

\* Blocks only come; peers and money come and go.
Change(p) ==
  /\ caller # "crashed" /\ pc[p] # "done" /\ Polling
  /\ \/ /\ level[p] < MaxLevel /\ level' = [level EXCEPT ![p] = @ + 1]
        /\ most' = [most EXCEPT ![p] = IF level[p] < @ THEN @ ELSE level[p] + 1]
     \/ /\ call \in {"WaitForPeersConnected", "WaitForBalances"} /\ level[p] > 0
        /\ level' = [level EXCEPT ![p] = @ - 1]
        /\ UNCHANGED most
  /\ UNCHANGED <<input, callerVars, pc, pollVars, start, reports>>

Waits(p) == \/ pc[p] \in {"new", "dial", "subscribe", "poll", "done"}
            \/ pc[p] = "select" /\ ~ ticked[p] /\ ~ expired[p]

\* A tick the goroutine has not taken yet is dropped.
Tick ==
  /\ caller \in {"collect", "join"} /\ (caller = "collect" => errc = <<>>)
  /\ \A p \in Pollers : Waits(p)
  /\ \E p \in Pollers : pc[p] \in {"select", "poll"}
  /\ timer' = [p \in Pollers |-> IF timer[p] \in {0, Off} THEN timer[p] ELSE timer[p] - 1]
  /\ expired' = [p \in Pollers |-> expired[p] \/ timer[p] = 1]
  /\ ticked' = [p \in Pollers |-> Polling /\ pc[p] \in {"select", "poll"}]
  /\ UNCHANGED <<input, callerVars, pc, first, result, level, start, most, reports>>

-----------------------------------------------------------------------------
Caller == DialOnce \/ Collect \/ Join

Poller(p) == \/ Dial(p) \/ Subscribe(p) \/ TakeTimeout(p) \/ TakeTick(p)
             \/ Poll(p) \/ Send(p)

Next == Caller \/ Tick \/ \E p \in Pollers : Poller(p) \/ TakeHead(p) \/ Change(p)

\* Goroutines that can run do, requests are answered, and time passes.  A
\* select takes a case that is ready again and again at some time.
Fairness ==
  /\ WF_vars(Caller) /\ WF_vars(Tick)
  /\ \A p \in Pollers : WF_vars(Poller(p)) /\ SF_vars(TakeTimeout(p))

Spec == Init /\ [][Next]_vars /\ Fairness

-----------------------------------------------------------------------------
(* Properties                                                              *)

\* Type invariant of the caller, its goroutines and what they watch.
TypeOK ==
  /\ call \in Calls /\ num \in Nums /\ expects \in {Success, ErrNoBlock}
  /\ caller \in {"dial", "collect", "join", "returned", "crashed"}
  /\ errc \in Seq(Errors \cup {Success}) /\ taken \in 0 .. Cap
  /\ err \in Errors \cup {Success}
  /\ pc \in [Pollers -> {"new", "dial", "subscribe", "select", "poll", "send", "done"}]
  /\ timer \in [Pollers -> 0 .. Off]
  /\ expired \in [Pollers -> BOOLEAN] /\ ticked \in [Pollers -> BOOLEAN]
  /\ first \in [Pollers -> {None} \cup 0 .. MaxLevel]
  /\ result \in [Pollers -> Errors \cup {Pending, Success}]
  /\ level \in [Pollers -> 0 .. MaxLevel] /\ start \in [Pollers -> 0 .. MaxLevel]
  /\ most \in [Pollers -> 0 .. MaxLevel]

\* A result means what the test takes it for, whatever came and went between
\* the polls: WaitForBlocks is content only after the node has made num blocks
\* during the call, whatever its height was before, WaitForBlockHeight when the
\* chain is as high as asked, WaitForPeersConnected and the waits for a balance
\* when there were so many peers, or money, at some time during the call.
\* WaitForNoBlocks complains only of a node that did make more than num blocks.
ResultMeansReached ==
  \A p \in Pollers :
    /\ result[p] = Success => /\ call = "WaitForBlocks" => level[p] - start[p] >= num
                              /\ call = "WaitForBlockHeight" => level[p] >= num
                              /\ call = "WaitForPeersConnected" => most[p] >= num
                              /\ call = "WaitForBalances" => most[p] > 0
    /\ result[p] = TooMany => level[p] - start[p] > num

\* WaitForBalances returns nil only when every account has had money during the
\* call, each seen by a goroutine of its own: none of the results that the loop
\* did not receive, or received after another, is lost.
NilMeansAllFunded ==
  Balances /\ caller = "returned" /\ err = Success => \A p \in Pollers : most[p] > 0

\* What the caller returns refines the promise EnsureConsensusWorking makes:
\* the first error of a goroutine, and nil only if no goroutine had any.
Verdict == INSTANCE EnsureConsensus
             WITH Monitors <- Pollers \cup {"caller"}, Errors <- Errors \cup {Success},
                  verdict <- IF caller = "returned" THEN err ELSE Pending

VerdictIsFirstError == Verdict!Spec

\* Calls with a time limit end, however many blocks or headers come in.  Calls
\* without one end if what they wait for comes and stays.
CallsReturn ==
  call \in Timed \/ <>[](\A p \in Pollers : level[p] >= num) =>
    <>(caller \in {"returned", "crashed"})

=============================================================================

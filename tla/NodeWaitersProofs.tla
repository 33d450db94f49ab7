-------------------------- MODULE NodeWaitersProofs --------------------------
(***************************************************************************)
(* Theorems about NodeWaiters, for any number of goroutines, any bound on  *)
(* what they wait for and any time: type correctness, what the results of  *)
(* the waits mean, that the caller gets the first error, and that it       *)
(* reports success only of accounts that have all been seen with money.    *)
(***************************************************************************)
EXTENDS NodeWaiters, FiniteSetTheorems, SequenceTheorems, TLAPS

Results == Errors \cup {Success}

-----------------------------------------------------------------------------
(* Sequences and sets                                                      *)

\* Cap is the number of goroutines, of which there is one at least.
LEMMA CapType == Cap \in Nat \ {0}
<1>1. Cardinality(Pollers) \in Nat
  BY PollersAssumption, FS_CardinalityType
<1>2. Cardinality(Pollers) # 0
  BY PollersAssumption, FS_EmptySet
<1> QED BY <1>1, <1>2 DEF Cap

\* Receiving the first value of a channel.
LEMMA TailValues ==
  ASSUME NEW S, NEW s \in Seq(S), s # <<>>
  PROVE  /\ Head(s) \in S /\ Head(s) = s[1] /\ Tail(s) \in Seq(S)
         /\ Len(s) \in Nat \ {0} /\ Len(Tail(s)) = Len(s) - 1
         /\ \A k \in 1 .. Len(s) - 1 : Tail(s)[k] = s[k + 1]
  OBVIOUS

\* Sending one more.
LEMMA AppendValues ==
  ASSUME NEW S, NEW s \in Seq(S), NEW e \in S
  PROVE  /\ Append(s, e) \in Seq(S) /\ Len(s) \in Nat /\ Len(Append(s, e)) = Len(s) + 1
         /\ Append(s, e)[Len(s) + 1] = e
         /\ \A k \in 1 .. Len(s) : Append(s, e)[k] = s[k]
  OBVIOUS

Finished == {p \in Pollers : pc[p] = "done"}

\* Those that have ended are finitely many, and fewer than all while one has not.
LEMMA FinishedBound ==
  /\ IsFiniteSet(Finished) /\ Cardinality(Finished) \in Nat /\ Cardinality(Finished) <= Cap
<1>1. IsFiniteSet(Finished) /\ Cardinality(Finished) <= Cardinality(Pollers)
  BY PollersAssumption, FS_Subset DEF Finished
<1> QED BY <1>1, FS_CardinalityType DEF Cap

-----------------------------------------------------------------------------
(* Where everybody is                                                      *)

Places == {"new", "dial", "subscribe", "select", "poll", "send", "done"}

\* Only WaitForBalances starts goroutines that send; when the caller has
\* returned, or has not begun, no goroutine is at work; no time limit runs for
\* a call that has none; who has a result has nothing left to do but send it.
PlaceInv ==
  /\ pc \in [Pollers -> Places]
  /\ caller \in {"dial", "collect", "join", "returned", "crashed"}
  /\ caller \in {"dial", "collect"} => Balances
  /\ caller = "crashed" => ~ Balances
  /\ caller = "dial" => \A p \in Pollers : pc[p] = "new"
  /\ caller = "returned" => \A p \in Pollers : pc[p] \in {"new", "done"}
  /\ \A p \in Pollers : /\ pc[p] \in {"new", "send"} => Balances
                        /\ pc[p] \in {"dial", "subscribe"} => ~ Balances
                        /\ pc[p] = "subscribe" => ~ Polling
                        /\ pc[p] \in {"send", "done"} <=> result[p] # Pending

\* All of this holds when a call begins.
LEMMA PlaceInit == Init => PlaceInv
<1> SUFFICES ASSUME Init PROVE PlaceInv
  OBVIOUS
<1>1. \A p \in Pollers : result[p] = Pending /\ pc[p] = IF Balances THEN "new" ELSE "dial"
  BY DEF Init
<1> QED BY <1>1 DEF Init, PlaceInv, Places

\* A wait that returns sends its result, or ends, as the call has it.
LEMMA FinishPlaces ==
  ASSUME PlaceInv, NEW p \in Pollers, NEW r \in Results, result \in [Pollers -> Results \cup {Pending}],
         Finish(p, r), caller # "crashed", pc[p] \notin {"new", "send", "done"}, UNCHANGED call
  PROVE  PlaceInv'
<1>1. /\ result' = [result EXCEPT ![p] = r] /\ r # Pending
      /\ IF Balances
           THEN pc' = [pc EXCEPT ![p] = "send"] /\ UNCHANGED caller
           ELSE pc' = [pc EXCEPT ![p] = "done"] /\ (caller' = caller \/ caller' = "crashed")
  BY DEF Finish, Results, Errors, Success, Pending, ErrNoBlock, ErrTimeout, TooMany, NoResult, ErrConn
<1>2. caller \notin {"dial", "returned"} /\ Balances' = Balances /\ Polling' = Polling
  BY DEF PlaceInv, Balances, Polling
<1>3. CASE Balances
  <2>1. \A q \in Pollers : /\ pc'[q] = IF q = p THEN "send" ELSE pc[q]
                           /\ result'[q] = IF q = p THEN r ELSE result[q]
    BY <1>1, <1>3 DEF PlaceInv
  <2> QED BY <1>1, <1>2, <1>3, <2>1 DEF PlaceInv, Places
<1>4. CASE ~ Balances
  <2>1. \A q \in Pollers : /\ pc'[q] = IF q = p THEN "done" ELSE pc[q]
                           /\ result'[q] = IF q = p THEN r ELSE result[q]
    BY <1>1, <1>4 DEF PlaceInv
  <2> QED BY <1>1, <1>2, <1>4, <2>1 DEF PlaceInv, Places
<1> QED BY <1>3, <1>4

\* A goroutine goes on within its wait.
LEMMA MovePlaces ==
  ASSUME PlaceInv, NEW p \in Pollers, NEW to, pc[p] \notin {"new", "send", "done"},
         to \in {"select", "poll"} \/ (to = "subscribe" /\ ~ Polling),
         pc' = [pc EXCEPT ![p] = to], UNCHANGED <<caller, result, call>>
  PROVE  PlaceInv'
<1>1. \A q \in Pollers : pc'[q] = IF q = p THEN to ELSE pc[q]
  BY DEF PlaceInv
<1>2. caller \notin {"dial", "returned"} /\ Balances' = Balances /\ Polling' = Polling
  BY DEF PlaceInv, Balances, Polling
<1> QED BY <1>1, <1>2 DEF PlaceInv, Places, Balances, Polling

-----------------------------------------------------------------------------
(* Types and counts                                                        *)

\* A call without a time limit has no timer that runs.
TimerInv == call \notin Timed => \A p \in Pollers : timer[p] = Off /\ ~ expired[p]

\* What has been received and what is in the channel is by goroutines that have
\* ended, one error each.
CountInv ==
  IF Balances THEN taken + Len(errc) = Cardinality(Finished)
              ELSE taken = 0 /\ errc = <<>> /\ err = Success

Inv == TypeOK /\ PlaceInv /\ TimerInv /\ CountInv

\* The invariant holds when a call begins.
LEMMA InvInit == Init => Inv
<1> SUFFICES ASSUME Init PROVE Inv
  OBVIOUS
<1>1. TypeOK
  BY CapType, BoundsAssumption DEF Init, TypeOK, Off, Errors
<1>2. TimerInv
  BY DEF Init, TimerInv
<1>3. CountInv
  <2>1. Balances => Finished = {}
    BY DEF Init, Finished
  <2>2. Balances => Cardinality(Finished) = 0
    BY <2>1, FS_EmptySet
  <2>3. taken = 0 /\ errc = <<>> /\ Len(errc) = 0 /\ err = Success
    BY DEF Init
  <2> QED BY <2>2, <2>3 DEF CountInv
<1> QED BY <1>1, <1>2, <1>3, PlaceInit DEF Inv

\* Results are what the types say, and a wait that times out has one.
LEMMA ResultTypes ==
  /\ {ErrNoBlock, ErrTimeout, TooMany, NoResult, ErrConn, Success} = Results
  /\ Pending \notin Results
  /\ call \in Timed => OnTimeout \in Results
<1>1. ErrNoBlock \in Results /\ ErrTimeout \in Results /\ NoResult \in Results /\ Success \in Results
  BY DEF Results, Errors
<1>2. call \in Timed => OnTimeout \in Results
  BY <1>1 DEF Timed, OnTimeout
<1>3. Pending \notin Results
  BY DEF Results, Errors, Pending, Success, ErrNoBlock, ErrTimeout, TooMany, NoResult, ErrConn
<1> QED BY <1>2, <1>3 DEF Results, Errors

\* The variables of a wait that returns keep their types.
LEMMA FinishTypes ==
  ASSUME TypeOK, NEW p \in Pollers, NEW r \in Results, Finish(p, r)
  PROVE  /\ result' \in [Pollers -> Errors \cup {Pending, Success}]
         /\ timer' \in [Pollers -> 0 .. Off]
         /\ expired' \in [Pollers -> BOOLEAN] /\ ticked' \in [Pollers -> BOOLEAN]
         /\ first' \in [Pollers -> {None} \cup 0 .. MaxLevel]
         /\ TimerInv /\ UNCHANGED call => TimerInv'
<1>1. result' \in [Pollers -> Errors \cup {Pending, Success}]
  BY DEF TypeOK, Finish, Results
<1>2. Off \in 0 .. Off
  BY BoundsAssumption DEF Off
<1>3. /\ timer' \in [Pollers -> 0 .. Off] /\ expired' \in [Pollers -> BOOLEAN]
      /\ ticked' \in [Pollers -> BOOLEAN]
  BY <1>2 DEF TypeOK, Finish
<1>4. first' \in [Pollers -> {None} \cup 0 .. MaxLevel]
  BY DEF TypeOK, Finish
<1>5. TimerInv /\ UNCHANGED call => TimerInv'
  BY DEF TypeOK, Finish, TimerInv
<1> QED BY <1>1, <1>3, <1>4, <1>5

\* What is remembered of the levels has the type of a level.
HistoryTypes == start \in [Pollers -> 0 .. MaxLevel] /\ most \in [Pollers -> 0 .. MaxLevel]

\* What of the invariant a step of a wait keeps by itself.
LEMMA WaitKeeps ==
  ASSUME Inv, PlaceInv', TimerInv', UNCHANGED <<input, errc, taken, err>>,
         Cardinality(Finished)' = Cardinality(Finished) \/ ~ Balances,
         result' \in [Pollers -> Errors \cup {Pending, Success}],
         timer' \in [Pollers -> 0 .. Off], expired' \in [Pollers -> BOOLEAN],
         ticked' \in [Pollers -> BOOLEAN], first' \in [Pollers -> {None} \cup 0 .. MaxLevel],
         level' \in [Pollers -> 0 .. MaxLevel], HistoryTypes'
  PROVE  Inv'
<1>1. TypeOK'
  <2>1. UNCHANGED <<call, num, expects>>
    BY DEF input
  <2>2. pc' \in [Pollers -> Places] /\ caller' \in {"dial", "collect", "join", "returned", "crashed"}
    BY DEF PlaceInv
  <2>3. taken' \in 0 .. Cap /\ Cap' = Cap
    BY DEF Inv, TypeOK, Cap
  <2> QED BY <2>1, <2>2, <2>3 DEF Inv, TypeOK, Places, HistoryTypes
<1>2. CountInv'
  BY DEF Inv, CountInv, Balances, input
<1> QED BY <1>1, <1>2 DEF Inv

\* The set of those that have ended is the same when nobody goes to, or comes
\* from, the end.
LEMMA FinishedSame ==
  ASSUME \A p \in Pollers : pc'[p] = "done" <=> pc[p] = "done"
  PROVE  Cardinality(Finished)' = Cardinality(Finished)
<1>1. Finished' = Finished
  BY DEF Finished
<1> QED BY <1>1

\* A wait that returns.
LEMMA FinishInv ==
  ASSUME Inv, NEW p \in Pollers, NEW r \in Results, Finish(p, r), caller # "crashed",
         pc[p] \notin {"new", "send", "done"},
         UNCHANGED <<input, errc, taken, err, level>>, HistoryTypes'
  PROVE  Inv'
<1>1. result \in [Pollers -> Results \cup {Pending}] /\ UNCHANGED call
  BY DEF Inv, TypeOK, Results, input
<1>2. PlaceInv'
  BY <1>1, FinishPlaces DEF Inv
<1>3. Cardinality(Finished)' = Cardinality(Finished) \/ ~ Balances
  <2>1. SUFFICES ASSUME Balances PROVE Cardinality(Finished)' = Cardinality(Finished)
    OBVIOUS
  <2>2. \A q \in Pollers : pc'[q] = IF q = p THEN "send" ELSE pc[q]
    BY <2>1 DEF Finish, Inv, PlaceInv
  <2> QED BY <2>2, FinishedSame
<1>4. level' \in [Pollers -> 0 .. MaxLevel]
  BY DEF Inv, TypeOK
<1>5. TypeOK /\ TimerInv
  BY DEF Inv
<1> QED BY <1>1, <1>2, <1>3, <1>4, <1>5, FinishTypes, WaitKeeps

\* A wait that goes on.
LEMMA MoveInv ==
  ASSUME Inv, NEW p \in Pollers, NEW to, caller # "crashed", pc[p] \notin {"new", "send", "done"},
         to \in {"select", "poll"} \/ (to = "subscribe" /\ ~ Polling),
         pc' = [pc EXCEPT ![p] = to], UNCHANGED <<input, callerVars, result, level>>,
         timer' \in [Pollers -> 0 .. Off], TimerInv', expired' \in [Pollers -> BOOLEAN],
         ticked' \in [Pollers -> BOOLEAN], first' \in [Pollers -> {None} \cup 0 .. MaxLevel],
         HistoryTypes'
  PROVE  Inv'
<1>1. UNCHANGED <<call, caller, errc, taken, err>>
  BY DEF input, callerVars
<1>2. PlaceInv'
  BY <1>1, MovePlaces DEF Inv
<1>3. Cardinality(Finished)' = Cardinality(Finished)
  <2>1. \A q \in Pollers : pc'[q] = IF q = p THEN to ELSE pc[q]
    BY DEF Inv, PlaceInv
  <2> QED BY <2>1, FinishedSame
<1>4. /\ result' \in [Pollers -> Errors \cup {Pending, Success}]
      /\ level' \in [Pollers -> 0 .. MaxLevel]
  BY DEF Inv, TypeOK
<1> QED BY <1>1, <1>2, <1>3, <1>4, WaitKeeps

\* The steps of the goroutines keep the invariant.
LEMMA PollerInv == ASSUME Inv, NEW p \in Pollers, Poller(p) \/ TakeHead(p) PROVE Inv'
<1>t. TypeOK /\ TimerInv
  BY DEF Inv
<1>r. ErrConn \in Results /\ Success \in Results /\ TooMany \in Results
  BY ResultTypes
<1>d. Off \in 0 .. Off /\ Duration \in 0 .. Off
  BY BoundsAssumption DEF Off
<1>1. CASE Dial(p)
  <2>1. caller # "crashed" /\ pc[p] = "dial" /\ UNCHANGED <<input, errc, taken, err, level>>
    BY <1>1 DEF Dial, At
  <2>2. HistoryTypes'
    BY <1>1, <1>t DEF Dial, TypeOK, HistoryTypes
  <2>3. CASE Polling /\ Finish(p, ErrConn)
    BY <1>r, <2>1, <2>2, <2>3, FinishInv
  <2>4. CASE ~ Polling /\ caller' = "crashed" /\ UNCHANGED <<pc, pollVars, start, most, reports>>
    <3>1. ~ Balances /\ ~ Balances'
      BY <2>1, <2>4 DEF Balances, Polling, input
    <3>2. PlaceInv'
      BY <2>1, <2>4, <3>1 DEF Inv, PlaceInv, pollVars, Polling, input
    <3>3. TimerInv'
      BY <1>t, <2>1, <2>4 DEF TimerInv, pollVars, input
    <3> QED BY <1>t, <2>1, <2>2, <2>4, <3>1, <3>2, <3>3, WaitKeeps DEF TypeOK, pollVars
  <2>5. CASE /\ pc' = [pc EXCEPT ![p] = IF Polling THEN "select" ELSE "subscribe"]
             /\ timer' = [timer EXCEPT ![p] = IF call \in Timed /\ Polling THEN Duration ELSE Off]
             /\ UNCHANGED <<caller, reports, expired, ticked, first, result>>
    <3>1. timer' \in [Pollers -> 0 .. Off]
      BY <1>d, <1>t, <2>5 DEF TypeOK
    <3>2. TimerInv'
      BY <1>t, <2>1, <2>5 DEF TimerInv, TypeOK, input
    <3>3. /\ expired' \in [Pollers -> BOOLEAN] /\ ticked' \in [Pollers -> BOOLEAN]
          /\ first' \in [Pollers -> {None} \cup 0 .. MaxLevel]
      BY <1>t, <2>5 DEF TypeOK
    <3>4. UNCHANGED <<input, callerVars, result, level>>
      BY <2>1, <2>5 DEF callerVars
    <3> QED BY <2>1, <2>2, <2>5, <3>1, <3>2, <3>3, <3>4, MoveInv
  <2> QED BY <1>1, <2>3, <2>4, <2>5 DEF Dial
<1>2. CASE Subscribe(p)
  <2>1. /\ caller # "crashed" /\ pc[p] = "subscribe" /\ UNCHANGED <<input, errc, taken, err, level>>
        /\ HistoryTypes'
    BY <1>2, <1>t DEF Subscribe, At, TypeOK, HistoryTypes
  <2>2. CASE Finish(p, ErrConn)
    BY <1>r, <2>1, <2>2, FinishInv
  <2>3. CASE /\ pc' = [pc EXCEPT ![p] = "select"]
             /\ timer' = [timer EXCEPT ![p] = Duration]
             /\ UNCHANGED <<caller, reports, expired, ticked, first, result>>
    <3>1. timer' \in [Pollers -> 0 .. Off]
      BY <1>d, <1>t, <2>3 DEF TypeOK
    <3>2. call \in Timed
      BY <2>1 DEF Inv, PlaceInv, Polling, Timed
    <3>3. TimerInv'
      BY <2>1, <3>2 DEF TimerInv, input
    <3>4. /\ expired' \in [Pollers -> BOOLEAN] /\ ticked' \in [Pollers -> BOOLEAN]
          /\ first' \in [Pollers -> {None} \cup 0 .. MaxLevel]
      BY <1>t, <2>3 DEF TypeOK
    <3>5. UNCHANGED <<input, callerVars, result, level>>
      BY <2>1, <2>3 DEF callerVars
    <3> QED BY <2>1, <2>3, <3>1, <3>3, <3>4, <3>5, MoveInv
  <2> QED BY <1>2, <2>2, <2>3 DEF Subscribe
<1>3. CASE TakeTimeout(p)
  <2>1. /\ caller # "crashed" /\ pc[p] = "select" /\ expired[p] /\ Finish(p, OnTimeout)
        /\ UNCHANGED <<input, errc, taken, err, level>> /\ HistoryTypes'
    BY <1>3, <1>t DEF TakeTimeout, At, TypeOK, HistoryTypes
  <2>2. OnTimeout \in Results
    BY <1>t, <2>1, ResultTypes DEF TimerInv
  <2> QED BY <2>1, <2>2, FinishInv
<1>4. CASE TakeHead(p)
  <2>1. /\ caller # "crashed" /\ pc[p] = "select"
        /\ UNCHANGED <<input, errc, taken, err, level>> /\ HistoryTypes'
    BY <1>4, <1>t DEF TakeHead, At, TypeOK, HistoryTypes
  <2>2. PICK r \in {ErrConn, Success} : Finish(p, r)
    BY <1>4 DEF TakeHead
  <2> QED BY <1>r, <2>1, <2>2, FinishInv
<1>5. CASE TakeTick(p)
  <2>1. /\ caller # "crashed" /\ pc[p] = "select" /\ pc' = [pc EXCEPT ![p] = "poll"]
        /\ UNCHANGED <<input, callerVars, result, level>>
        /\ ticked' = [ticked EXCEPT ![p] = FALSE]
        /\ UNCHANGED <<call, timer, expired, first, start, most>>
    BY <1>5 DEF TakeTick, At, input
  <2>2. TimerInv'
    BY <1>t, <2>1 DEF TimerInv
  <2>3. /\ expired' \in [Pollers -> BOOLEAN] /\ ticked' \in [Pollers -> BOOLEAN]
        /\ first' \in [Pollers -> {None} \cup 0 .. MaxLevel]
        /\ timer' \in [Pollers -> 0 .. Off] /\ HistoryTypes'
    BY <1>t, <2>1 DEF TypeOK, HistoryTypes
  <2> QED BY <2>1, <2>2, <2>3, MoveInv
<1>6. CASE Poll(p)
  <2>1. /\ caller # "crashed" /\ pc[p] = "poll"
        /\ UNCHANGED <<input, errc, taken, err, level>> /\ HistoryTypes'
    BY <1>6, <1>t DEF Poll, At, TypeOK, HistoryTypes
  <2>2. CASE \E r \in Results : Finish(p, r)
    BY <2>1, <2>2, FinishInv
  <2>3. CASE /\ first' = [first EXCEPT ![p] = IF IsBase(p) THEN Base(level[p]) ELSE @]
             /\ pc' = [pc EXCEPT ![p] = "select"]
             /\ UNCHANGED <<caller, reports, timer, expired, ticked, result>>
    <3>1. first' \in [Pollers -> {None} \cup 0 .. MaxLevel]
      BY <1>t, <2>3 DEF TypeOK, Base
    <3>2. /\ expired' \in [Pollers -> BOOLEAN] /\ ticked' \in [Pollers -> BOOLEAN]
          /\ timer' \in [Pollers -> 0 .. Off]
      BY <1>t, <2>3 DEF TypeOK
    <3>3. TimerInv'
      BY <1>t, <2>1, <2>3 DEF TimerInv, input
    <3>4. UNCHANGED <<input, callerVars, result, level>>
      BY <2>1, <2>3 DEF callerVars
    <3> QED BY <2>1, <2>3, <3>1, <3>2, <3>3, <3>4, MoveInv
  <2> QED BY <1>6, <1>r, <2>2, <2>3 DEF Poll
<1>7. CASE Send(p)
  <2>1. /\ pc[p] = "send" /\ pc' = [pc EXCEPT ![p] = "done"]
        /\ errc' = Append(errc, result[p])
        /\ UNCHANGED <<call, num, expects, caller, taken, err, timer, expired, ticked, first,
                       result, level, start, most>>
    BY <1>7 DEF Send, At, input, pollVars
  <2>2. Balances /\ result[p] \in Results
    BY <2>1, <1>t DEF Inv, PlaceInv, TypeOK, Results
  <2>3. errc \in Seq(Results)
    BY <1>t DEF TypeOK, Results
  <2>4. errc' \in Seq(Results) /\ Len(errc) \in Nat /\ Len(errc') = Len(errc) + 1
    BY <2>1, <2>2, <2>3, AppendValues
  <2>5. \A q \in Pollers : pc'[q] = IF q = p THEN "done" ELSE pc[q]
    BY <2>1 DEF Inv, PlaceInv
  <2>6. Cardinality(Finished)' = Cardinality(Finished) + 1
    <3>1. Finished' = Finished \cup {p} /\ p \notin Finished
      BY <2>1, <2>5 DEF Finished
    <3> QED BY <3>1, FinishedBound, FS_AddElement
  <2>7. CountInv'
    <3>1. taken \in Nat /\ Cardinality(Finished) \in Nat /\ taken + Len(errc) = Cardinality(Finished)
      BY <1>t, <2>2, FinishedBound DEF Inv, CountInv, TypeOK
    <3> QED BY <2>1, <2>2, <2>4, <2>6, <3>1 DEF CountInv, Balances
  <2>8. PlaceInv'
    <3>1. caller \notin {"dial", "returned"}
      BY <2>1 DEF Inv, PlaceInv
    <3>2. Balances' /\ Polling' = Polling
      BY <2>1, <2>2 DEF Balances, Polling
    <3> QED BY <2>1, <2>2, <2>5, <3>1, <3>2 DEF Inv, PlaceInv, Places
  <2>9. TimerInv'
    BY <1>t, <2>1 DEF TimerInv
  <2>10. TypeOK'
    <3>1. pc' \in [Pollers -> Places] /\ Cap' = Cap
      BY <2>8 DEF PlaceInv, Cap
    <3> QED BY <1>t, <2>1, <2>4, <3>1 DEF TypeOK, Places, Results
  <2> QED BY <2>7, <2>8, <2>9, <2>10 DEF Inv
<1> QED BY <1>1, <1>2, <1>3, <1>4, <1>5, <1>6, <1>7 DEF Poller

\* So do those of the caller, of the nodes and of time.
LEMMA OthersInv ==
  ASSUME Inv, Caller \/ Tick \/ (\E p \in Pollers : Change(p)) \/ UNCHANGED vars
  PROVE  Inv'
<1>t. TypeOK /\ TimerInv /\ PlaceInv /\ CountInv
  BY DEF Inv
<1>1. CASE DialOnce
  <2>1. /\ caller = "dial" /\ Balances /\ Balances' = Balances /\ Polling' = Polling
        /\ UNCHANGED <<call, num, expects, errc, taken, expired, ticked, first, result, level>>
    BY <1>1, <1>t DEF DialOnce, PlaceInv, input, Balances, Polling
  <2>2. \A p \in Pollers : pc[p] = "new" /\ result[p] = Pending
    BY <1>t, <2>1 DEF PlaceInv
  <2>3. CASE /\ caller' = "collect" /\ UNCHANGED err
             /\ pc' = [p \in Pollers |-> "select"] /\ timer' = [p \in Pollers |-> Duration]
             /\ start' = level /\ most' = level
    <3>1. PlaceInv'
      BY <2>1, <2>2, <2>3 DEF PlaceInv, Places
    <3>2. CountInv'
      <4>1. Cardinality(Finished)' = Cardinality(Finished)
        BY <2>2, <2>3, FinishedSame
      <4> QED BY <1>t, <2>1, <2>3, <4>1 DEF CountInv
    <3>3. TimerInv'
      BY <2>1 DEF TimerInv, Balances, Timed
    <3>4. timer' \in [Pollers -> 0 .. Off]
      BY <2>3, BoundsAssumption DEF Off
    <3>5. TypeOK'
      BY <1>t, <2>1, <2>3, <3>4 DEF TypeOK, Cap
    <3> QED BY <3>1, <3>2, <3>3, <3>5 DEF Inv
  <2>4. CASE caller' = "returned" /\ err' = ErrConn /\ UNCHANGED <<pc, timer, start, most>>
    <3>1. PlaceInv'
      BY <1>t, <2>1, <2>2, <2>4 DEF PlaceInv
    <3>2. CountInv'
      <4>1. Finished' = Finished
        BY <2>4 DEF Finished
      <4> QED BY <1>t, <2>1, <2>4, <4>1 DEF CountInv
    <3>3. TimerInv' /\ TypeOK'
      BY <1>t, <2>1, <2>4 DEF TimerInv, TypeOK, Cap, Errors
    <3> QED BY <3>1, <3>2, <3>3 DEF Inv
  <2> QED BY <1>1, <2>3, <2>4 DEF DialOnce
<1>2. CASE Collect
  <2>1. /\ caller = "collect" /\ errc # <<>> /\ errc' = Tail(errc) /\ err' = Head(errc)
        /\ taken' = taken + 1 /\ caller' \in {"join", "collect"}
        /\ UNCHANGED <<call, num, expects, pc, timer, expired, ticked, first, result, level, start, most>>
    BY <1>2 DEF Collect, input, pollVars
  <2>2. Balances /\ Balances' = Balances /\ Polling' = Polling
    BY <1>t, <2>1 DEF PlaceInv, Balances, Polling
  <2>3. errc \in Seq(Results)
    BY <1>t DEF TypeOK, Results
  <2>4. /\ err' \in Results /\ errc' \in Seq(Results) /\ Len(errc) \in Nat \ {0}
        /\ Len(errc') = Len(errc) - 1
    BY <2>1, <2>3, TailValues
  <2>5. Finished' = Finished
    BY <2>1 DEF Finished
  <2>6. CountInv' /\ taken' \in 0 .. Cap
    <3>1. /\ taken \in Nat /\ taken + Len(errc) = Cardinality(Finished)
          /\ Cardinality(Finished) <= Cap /\ Cap \in Nat /\ Cardinality(Finished) \in Nat
      BY <1>t, <2>2, FinishedBound, CapType DEF CountInv, TypeOK
    <3> QED BY <2>1, <2>2, <2>4, <2>5, <3>1 DEF CountInv
  <2>7. PlaceInv'
    BY <1>t, <2>1, <2>2 DEF PlaceInv
  <2>8. TimerInv'
    BY <1>t, <2>1 DEF TimerInv
  <2>9. TypeOK'
    BY <1>t, <2>1, <2>4, <2>6 DEF TypeOK, Results, Cap
  <2> QED BY <2>6, <2>7, <2>8, <2>9 DEF Inv
<1>3. CASE Join
  <2>1. /\ caller = "join" /\ AllDone /\ caller' = "returned"
        /\ UNCHANGED <<call, num, expects, errc, taken, err, pc, timer, expired, ticked, first,
                       result, level, start, most>>
    BY <1>3 DEF Join, input, pollVars
  <2>2. PlaceInv'
    BY <1>t, <2>1 DEF PlaceInv, AllDone, Balances, Polling
  <2>3. CountInv'
    <3>1. Finished' = Finished /\ Balances' = Balances
      BY <2>1 DEF Finished, Balances
    <3> QED BY <1>t, <2>1, <3>1 DEF CountInv
  <2>4. TimerInv' /\ TypeOK'
    BY <1>t, <2>1 DEF TimerInv, TypeOK, Cap
  <2> QED BY <2>2, <2>3, <2>4 DEF Inv
<1>4. ASSUME TimerInv', UNCHANGED <<input, callerVars, pc, first, result>>, HistoryTypes',
             timer' \in [Pollers -> 0 .. Off], expired' \in [Pollers -> BOOLEAN],
             ticked' \in [Pollers -> BOOLEAN], level' \in [Pollers -> 0 .. MaxLevel]
      PROVE  Inv'
  <2>1. UNCHANGED <<call, caller, errc, taken, err, first, result, pc>>
    BY <1>4 DEF input, callerVars
  <2>2. PlaceInv'
    BY <1>t, <2>1 DEF PlaceInv, Balances, Polling
  <2>3. Cardinality(Finished)' = Cardinality(Finished)
    BY <2>1, FinishedSame
  <2>4. /\ result' \in [Pollers -> Errors \cup {Pending, Success}]
        /\ first' \in [Pollers -> {None} \cup 0 .. MaxLevel]
    BY <1>t, <2>1 DEF TypeOK
  <2> QED BY <1>4, <2>1, <2>2, <2>3, <2>4, WaitKeeps
<1>5. CASE Tick
  <2>1. /\ UNCHANGED <<input, callerVars, pc, first, result, level, start, most>>
        /\ timer' = [p \in Pollers |-> IF timer[p] \in {0, Off} THEN timer[p] ELSE timer[p] - 1]
        /\ expired' = [p \in Pollers |-> expired[p] \/ timer[p] = 1]
        /\ ticked' = [p \in Pollers |-> Polling /\ pc[p] \in {"select", "poll"}]
    BY <1>5 DEF Tick
  <2>2. timer' \in [Pollers -> 0 .. Off] /\ level' \in [Pollers -> 0 .. MaxLevel] /\ HistoryTypes'
    BY <1>t, <2>1, BoundsAssumption DEF TypeOK, Off, HistoryTypes
  <2>3. expired' \in [Pollers -> BOOLEAN]
    <3>1. \A p \in Pollers : (expired[p] \/ timer[p] = 1) \in BOOLEAN
      OBVIOUS
    <3> QED BY <2>1, <3>1
  <2>4. ticked' \in [Pollers -> BOOLEAN]
    <3>1. \A p \in Pollers : (Polling /\ pc[p] \in {"select", "poll"}) \in BOOLEAN
      OBVIOUS
    <3> QED BY <2>1, <3>1
  <2>5. TimerInv'
    <3>1. Off # 1 /\ call' = call
      BY <2>1, BoundsAssumption DEF Off, input
    <3>2. ASSUME call \notin Timed, NEW p \in Pollers PROVE timer'[p] = Off /\ ~ expired'[p]
      BY <1>t, <2>1, <3>1, <3>2 DEF TimerInv
    <3> QED BY <3>1, <3>2 DEF TimerInv, Off
  <2> QED BY <1>4, <2>1, <2>2, <2>3, <2>4, <2>5
<1>6. ASSUME NEW p \in Pollers, Change(p) PROVE Inv'
  <2>1. /\ UNCHANGED <<input, callerVars, pc, first, result, start>>
        /\ UNCHANGED <<call, timer, expired, ticked>>
        /\ \/ /\ level[p] < MaxLevel /\ level' = [level EXCEPT ![p] = @ + 1]
              /\ most' = [most EXCEPT ![p] = IF level[p] < @ THEN @ ELSE level[p] + 1]
           \/ level[p] > 0 /\ level' = [level EXCEPT ![p] = @ - 1] /\ UNCHANGED most
    BY <1>6 DEF Change, pollVars, input
  <2>2. level' \in [Pollers -> 0 .. MaxLevel]
    <3>1. level \in [Pollers -> 0 .. MaxLevel] /\ MaxLevel \in Nat
      BY <1>t, BoundsAssumption DEF TypeOK
    <3>2. PICK n \in 0 .. MaxLevel : level' = [level EXCEPT ![p] = n]
      BY <2>1, <3>1
    <3> QED BY <3>1, <3>2
  <2>h. HistoryTypes'
    <3>1. /\ level \in [Pollers -> 0 .. MaxLevel] /\ MaxLevel \in Nat
          /\ most \in [Pollers -> 0 .. MaxLevel] /\ start \in [Pollers -> 0 .. MaxLevel]
      BY <1>t, BoundsAssumption DEF TypeOK
    <3>2. most' = most \/ \E n \in 0 .. MaxLevel : most' = [most EXCEPT ![p] = n]
      <4>1. level[p] < MaxLevel => level[p] + 1 \in 0 .. MaxLevel
        BY <3>1
      <4> QED BY <2>1, <3>1, <4>1
    <3> QED BY <2>1, <3>1, <3>2 DEF HistoryTypes
  <2>3. TimerInv'
    BY <1>t, <2>1 DEF TimerInv
  <2>4. timer' \in [Pollers -> 0 .. Off] /\ expired' \in [Pollers -> BOOLEAN]
        /\ ticked' \in [Pollers -> BOOLEAN]
    BY <1>t, <2>1 DEF TypeOK
  <2> QED BY <1>4, <2>1, <2>2, <2>h, <2>3, <2>4
<1>7. CASE UNCHANGED vars
  <2>1. /\ UNCHANGED <<input, callerVars, pc, first, result, start, most>>
        /\ UNCHANGED <<call, timer, expired, ticked, level>>
    BY <1>7 DEF vars, pollVars, input
  <2>2. TimerInv'
    BY <1>t, <2>1 DEF TimerInv
  <2> QED BY <1>4, <1>t, <2>1, <2>2 DEF TypeOK, HistoryTypes
<1> QED BY <1>1, <1>2, <1>3, <1>5, <1>6, <1>7 DEF Caller

\* Every step keeps the invariant.
LEMMA InvNext == Inv /\ [Next]_vars => Inv'
  BY PollerInv, OthersInv DEF Next

\* Type correctness, for any number of goroutines and any bounds.
THEOREM TypeCorrect == Spec => []TypeOK
<1>1. Inv => TypeOK
  BY DEF Inv
<1> QED BY <1>1, InvInit, InvNext, PTL DEF Spec

-----------------------------------------------------------------------------
(* What a result means                                                     *)

Counting == call \in {"WaitForBlocks", "WaitForNoBlocks"}

Rising == call \notin {"WaitForPeersConnected", "WaitForBalances"}

\* No level is above the highest one since the wait began.  A chain that only
\* grows is at least as high as at the start of the wait, and so was the first
\* answer; a wait that has not begun has no answer.
BaseInv ==
  \A p \in Pollers :
    /\ level[p] <= most[p]
    /\ pc[p] = "dial" => first[p] = None
    /\ result[p] = TooMany => call = "WaitForNoBlocks"
    /\ Counting => /\ start[p] <= level[p]
                   /\ first[p] # None => start[p] <= first[p]

\* There is no answer and no result at the beginning.
LEMMA BaseInit == Init => BaseInv /\ ResultMeansReached
<1> SUFFICES ASSUME Init PROVE BaseInv /\ ResultMeansReached
  OBVIOUS
<1>1. \A p \in Pollers : result[p] = Pending /\ first[p] = None /\ level[p] \in Nat /\ start[p] = level[p]
                         /\ most[p] = level[p]
  BY BoundsAssumption DEF Init
<1>2. Pending # Success /\ Pending # TooMany
  BY DEF Pending, Success, TooMany
<1> QED BY <1>1, <1>2 DEF BaseInv, ResultMeansReached

\* What is known of a result stays true while the level does not fall.
LEMMA ResultsStay ==
  ASSUME Inv, BaseInv, ResultMeansReached, UNCHANGED <<call, num, result>>,
         \A p \in Pollers : level[p] <= level'[p] \/ ~ Rising,
         level' \in [Pollers -> 0 .. MaxLevel],
         most' \in [Pollers -> 0 .. MaxLevel],
         \A p \in Pollers : (start'[p] = start[p] /\ most[p] <= most'[p]) \/ result[p] = Pending
  PROVE  ResultMeansReached'
<1> SUFFICES ASSUME NEW p \in Pollers
             PROVE  /\ result[p] = Success => /\ call = "WaitForBlocks" => level'[p] - start'[p] >= num
                                              /\ call = "WaitForBlockHeight" => level'[p] >= num
                                              /\ call = "WaitForPeersConnected" => most'[p] >= num
                                              /\ call = "WaitForBalances" => most'[p] > 0
                    /\ result[p] = TooMany => level'[p] - start'[p] > num
  BY DEF ResultMeansReached
<1>1. /\ level[p] \in Nat /\ start[p] \in Nat /\ level'[p] \in Nat /\ num \in Nat
      /\ most[p] \in Nat /\ most'[p] \in Nat
  BY BoundsAssumption DEF Inv, TypeOK
<1>2. Pending # Success /\ Pending # TooMany
  BY DEF Pending, Success, TooMany
<1>3. /\ result[p] = Success => /\ call = "WaitForBlocks" => level[p] - start[p] >= num
                                /\ call = "WaitForBlockHeight" => level[p] >= num
                                /\ call = "WaitForPeersConnected" => most[p] >= num
                                /\ call = "WaitForBalances" => most[p] > 0
      /\ result[p] = TooMany => level[p] - start[p] > num
  BY DEF ResultMeansReached
<1>4. CASE Rising
  BY <1>1, <1>2, <1>3, <1>4
<1>5. CASE ~ Rising
  BY <1>1, <1>2, <1>3, <1>5 DEF Rising, BaseInv
<1> QED BY <1>4, <1>5

\* A wait of a call that counts blocks returns what its counting says.
LEMMA FinishBase ==
  ASSUME Inv, BaseInv, ResultMeansReached, NEW p \in Pollers, NEW r \in Results, Finish(p, r),
         UNCHANGED <<call, num, start, most, level>>,
         r = Success => /\ call = "WaitForBlocks" => level[p] - start[p] >= num
                        /\ call = "WaitForBlockHeight" => level[p] >= num
                        /\ call = "WaitForPeersConnected" => most[p] >= num
                        /\ call = "WaitForBalances" => most[p] > 0,
         r = TooMany => level[p] - start[p] > num /\ call = "WaitForNoBlocks"
  PROVE  BaseInv' /\ ResultMeansReached'
<1>1. \A q \in Pollers : /\ result'[q] = IF q = p THEN r ELSE result[q]
                         /\ first'[q] = IF q = p THEN None ELSE first[q]
  BY DEF Finish, Inv, TypeOK
<1>2. \A q \in Pollers : pc'[q] = IF q = p THEN pc'[p] ELSE pc[q]
  BY DEF Finish, Inv, PlaceInv
<1>3. BaseInv'
  BY <1>1, <1>2 DEF BaseInv, Counting
<1>4. ResultMeansReached'
  BY <1>1 DEF ResultMeansReached
<1> QED BY <1>3, <1>4

\* The same when nobody's result changes.
LEMMA GoOnBase ==
  ASSUME Inv, BaseInv, ResultMeansReached, UNCHANGED <<call, num, result, first, level, start, most>>,
         \A p \in Pollers : pc'[p] = "dial" => pc[p] = "dial"
  PROVE  BaseInv' /\ ResultMeansReached'
<1>1. BaseInv'
  BY DEF BaseInv, Counting
<1> QED BY <1>1 DEF ResultMeansReached

\* The steps of a goroutine.
LEMMA PollerBase ==
  ASSUME Inv, BaseInv, ResultMeansReached, NEW p \in Pollers, Poller(p) \/ TakeHead(p)
  PROVE  BaseInv' /\ ResultMeansReached'
<1>t. /\ TypeOK /\ PlaceInv /\ TimerInv
      /\ num \in Nat /\ \A q \in Pollers : level[q] \in Nat /\ start[q] \in Nat /\ most[q] \in Nat
  BY BoundsAssumption DEF Inv, TypeOK
<1>r. /\ {ErrConn, Success, TooMany, ErrNoBlock, ErrTimeout, NoResult} \subseteq Results
      /\ ErrConn \notin {Success, TooMany} /\ Success # TooMany
  BY ResultTypes DEF ErrConn, Success, TooMany
<1>1. CASE Finish(p, ErrConn) /\ UNCHANGED <<call, num, start, most, level>>
  BY <1>1, <1>r, FinishBase
<1>2. ASSUME NEW to, to # "dial", pc' = [pc EXCEPT ![p] = to],
             UNCHANGED <<call, num, result, first, level, start, most>>
      PROVE  BaseInv' /\ ResultMeansReached'
  <2>1. \A q \in Pollers : pc'[q] = "dial" => pc[q] = "dial"
    BY <1>2 DEF Inv, PlaceInv
  <2> QED BY <1>2, <2>1, GoOnBase
<1>3. CASE Dial(p)
  <2>1. pc[p] = "dial" /\ UNCHANGED <<call, num, level>>
    BY <1>3 DEF Dial, At, input
  <2>2. CASE Polling /\ Finish(p, ErrConn) /\ UNCHANGED <<start, most>>
    BY <1>1, <2>1, <2>2
  <2>3. CASE UNCHANGED <<pc, pollVars, start, most>>
    BY <2>1, <2>3, GoOnBase DEF pollVars
  <2>4. CASE /\ pc' = [pc EXCEPT ![p] = IF Polling THEN "select" ELSE "subscribe"]
             /\ start' = [start EXCEPT ![p] = level[p]] /\ most' = [most EXCEPT ![p] = level[p]]
             /\ UNCHANGED <<first, result>>
    <3>1. \A q \in Pollers : /\ pc'[q] = "dial" => pc[q] = "dial"
                             /\ start'[q] = IF q = p THEN level[p] ELSE start[q]
                             /\ most'[q] = IF q = p THEN level[p] ELSE most[q]
      BY <2>4, <1>t DEF PlaceInv, TypeOK
    <3>2. result[p] = Pending /\ first[p] = None
      BY <1>t, <2>1 DEF PlaceInv, BaseInv
    <3>3. BaseInv'
      BY <1>t, <2>1, <2>4, <3>1, <3>2 DEF BaseInv, Counting
    <3>4. ResultMeansReached'
      BY <1>t, <2>1, <2>4, <3>1, <3>2, ResultsStay DEF TypeOK
    <3> QED BY <3>3, <3>4
  <2> QED BY <1>3, <2>2, <2>3, <2>4 DEF Dial
<1>4. CASE Subscribe(p)
  <2>1. UNCHANGED <<call, num, level, start, most>>
    BY <1>4 DEF Subscribe, input
  <2>2. CASE Finish(p, ErrConn)
    BY <1>1, <2>1, <2>2
  <2>3. CASE pc' = [pc EXCEPT ![p] = "select"] /\ UNCHANGED <<first, result>>
    BY <1>2, <2>1, <2>3
  <2> QED BY <1>4, <2>2, <2>3 DEF Subscribe
<1>5. CASE TakeTimeout(p)
  <2>1. UNCHANGED <<call, num, level, start, most>> /\ Finish(p, OnTimeout) /\ call \in Timed
    BY <1>5, <1>t DEF TakeTimeout, input, TimerInv
  <2>2. /\ OnTimeout \in Results /\ OnTimeout # TooMany
        /\ OnTimeout = Success => call = "WaitForNoBlocks"
    <3>1. OnTimeout \in Results
      BY <2>1, ResultTypes
    <3> QED BY <2>1, <3>1 DEF OnTimeout, Timed, Success, ErrNoBlock, TooMany, ErrTimeout, NoResult
  <2> QED BY <2>1, <2>2, FinishBase
<1>6. CASE TakeHead(p)
  <2>1. call = "WaitForProposed" /\ UNCHANGED <<call, num, level, start, most>>
    BY <1>6 DEF TakeHead, input, Polling
  <2>2. PICK e \in {ErrConn, Success} : Finish(p, e)
    BY <1>6 DEF TakeHead
  <2> QED BY <1>r, <2>1, <2>2, FinishBase
<1>7. CASE TakeTick(p)
  BY <1>2, <1>7 DEF TakeTick, callerVars, input
<1>8. CASE Poll(p)
  <2>1. pc[p] = "poll" /\ UNCHANGED <<call, num, level, start, most>>
    BY <1>8 DEF Poll, input, At
  <2>2. CASE Finish(p, ErrConn)
    BY <1>1, <2>1, <2>2
  <2>3. CASE /\ ~ IsBase(p) /\ Ends(p, level[p])
             /\ Finish(p, IF call = "WaitForNoBlocks" THEN TooMany ELSE Success)
    <3>1. /\ Counting => first[p] # None /\ first[p] \in Nat /\ start[p] <= first[p]
          /\ first[p] # None => Since(p, level[p]) = level[p] - first[p]
      BY <1>t, <2>3, BoundsAssumption DEF IsBase, Counting, Since, TypeOK, BaseInv
    <3>2. call = "WaitForBlocks" => level[p] - start[p] >= num
      BY <1>t, <2>3, <3>1 DEF Ends, Enough, Counting, Untimed
    <3>3. call = "WaitForBlockHeight" => level[p] >= num
      BY <2>3 DEF Ends, Enough, Untimed
    <3>4. call = "WaitForNoBlocks" => level[p] - start[p] > num
      BY <1>t, <2>3, <3>1 DEF Ends, MoreThanAllowed, Counting, Untimed
    <3>7. call = "WaitForPeersConnected" => most[p] >= num
      BY <1>t, <2>3 DEF Ends, Enough, Untimed, BaseInv
    <3>8. call = "WaitForBalances" => most[p] > 0
      <4>1. 0 % Word = 0
        BY BoundsAssumption
      <4>2. call = "WaitForBalances" => level[p] # 0
        BY <2>3, <4>1 DEF Ends, Untimed
      <4> QED BY <1>t, <4>2 DEF BaseInv
    <3>5. CASE call = "WaitForNoBlocks"
      BY <1>r, <2>1, <2>3, <3>4, <3>5, FinishBase
    <3>6. CASE call # "WaitForNoBlocks"
      BY <1>r, <2>1, <2>3, <3>2, <3>3, <3>6, <3>7, <3>8, FinishBase
    <3> QED BY <3>5, <3>6
  <2>4. CASE /\ first' = [first EXCEPT ![p] = IF IsBase(p) THEN Base(level[p]) ELSE @]
             /\ pc' = [pc EXCEPT ![p] = "select"] /\ UNCHANGED result
    <3>1. \A q \in Pollers :
            /\ pc'[q] = "dial" => pc[q] = "dial" /\ q # p
            /\ first'[q] = IF q = p THEN IF IsBase(p) THEN level[p] ELSE first[p] ELSE first[q]
      BY <1>t, <2>4 DEF PlaceInv, TypeOK, Base
    <3>2. BaseInv'
      BY <1>t, <2>1, <2>4, <3>1 DEF BaseInv, Counting
    <3>3. ResultMeansReached'
      BY <2>1, <2>4 DEF ResultMeansReached
    <3> QED BY <3>2, <3>3
  <2> QED BY <1>8, <2>2, <2>3, <2>4 DEF Poll
<1>9. CASE Send(p)
  BY <1>2, <1>9 DEF Send, input, pollVars
<1> QED BY <1>3, <1>4, <1>5, <1>6, <1>7, <1>8, <1>9 DEF Poller

\* Every step keeps what is known of answers and results.
LEMMA BaseNext ==
  Inv /\ BaseInv /\ ResultMeansReached /\ [Next]_vars => BaseInv' /\ ResultMeansReached'
<1> SUFFICES ASSUME Inv, BaseInv, ResultMeansReached, [Next]_vars
             PROVE  BaseInv' /\ ResultMeansReached'
  OBVIOUS
<1>1. CASE Collect \/ Join \/ Tick \/ UNCHANGED vars
  <2>1. UNCHANGED <<call, num, result, first, level, start, most, pc>>
    BY <1>1 DEF Collect, Join, Tick, vars, input, pollVars
  <2> QED BY <2>1, GoOnBase
<1>3. CASE DialOnce
  <2>1. /\ UNCHANGED <<call, num, result, first, level>> /\ ~ Counting
        /\ UNCHANGED pc \/ pc' = [p \in Pollers |-> "select"]
        /\ UNCHANGED <<start, most>> \/ (start' = level /\ most' = level)
        /\ \A p \in Pollers : result[p] = Pending
    BY <1>3 DEF DialOnce, input, Counting, Inv, PlaceInv, Balances
  <2>2. level \in [Pollers -> 0 .. MaxLevel] /\ most \in [Pollers -> 0 .. MaxLevel]
    BY DEF Inv, TypeOK
  <2>3. \A p \in Pollers : level[p] \in Nat /\ level[p] <= level[p]
    BY <2>2, BoundsAssumption
  <2>4. BaseInv'
    BY <2>1, <2>3 DEF BaseInv, Counting
  <2>5. ResultMeansReached'
    BY <2>1, <2>2, <2>3, ResultsStay
  <2> QED BY <2>4, <2>5
<1>2. ASSUME NEW p \in Pollers, Change(p) PROVE BaseInv' /\ ResultMeansReached'
  <2>1. /\ UNCHANGED <<call, num, result, first, start, pc>>
        /\ \/ /\ level' = [level EXCEPT ![p] = @ + 1]
              /\ most' = [most EXCEPT ![p] = IF level[p] < @ THEN @ ELSE level[p] + 1]
           \/ ~ Rising /\ level' = [level EXCEPT ![p] = @ - 1] /\ UNCHANGED most
    BY <1>2 DEF Change, input, pollVars, Rising
  <2>2. level \in [Pollers -> Nat] /\ start \in [Pollers -> Nat] /\ most \in [Pollers -> Nat]
    BY BoundsAssumption DEF Inv, TypeOK
  <2>3. \A q \in Pollers : level[q] <= level'[q] \/ ~ Rising
    BY <2>1, <2>2
  <2>4. level' \in [Pollers -> 0 .. MaxLevel] /\ most' \in [Pollers -> 0 .. MaxLevel]
    BY <1>2, OthersInv DEF Inv, TypeOK
  <2>m. \A q \in Pollers : most[q] <= most'[q] /\ level'[q] <= most'[q]
    BY <2>1, <2>2 DEF BaseInv
  <2>5. BaseInv'
    <3>1. Counting => Rising
      BY DEF Counting, Rising
    <3>2. \A q \in Pollers : level'[q] \in Nat
      BY <2>4, BoundsAssumption
    <3> QED BY <2>1, <2>2, <2>3, <2>m, <3>1, <3>2 DEF BaseInv, Counting
  <2>6. ResultMeansReached'
    BY <2>1, <2>3, <2>4, <2>m, ResultsStay
  <2> QED BY <2>5, <2>6
<1> QED BY <1>1, <1>2, <1>3, PollerBase DEF Next, Caller

\* Success of a wait means that the blocks, the height, the peers or the money
\* it waits for have been there since it began, and a complaint about too many
\* blocks that there were too many.
THEOREM ResultsTrue == Spec => []ResultMeansReached
  BY InvInit, InvNext, BaseInit, BaseNext, PTL DEF Spec

-----------------------------------------------------------------------------
(* The caller gets the first error                                         *)

\* The first value of the channel that is an error, if there is one, is e.
FirstInChannel(e) ==
  \E k \in 1 .. Len(errc) : /\ errc[k] = e
                            /\ \A j \in 1 .. k - 1 : errc[j] = Success

\* What has been reported comes from goroutines that have ended.  As long as the
\* caller has received no error, the first report is still in the channel, with
\* nothing but successes before it.
FirstInv ==
  /\ reports \in Seq((Pollers \cup {"caller"}) \X Results)
  /\ \A i \in 1 .. Len(reports) : reports[i][1] \in Pollers => pc[reports[i][1]] \in {"new", "done"}
  /\ caller = "dial" => reports = <<>>
  /\ ~ Balances /\ caller # "crashed" => reports = <<>>
  /\ caller \in {"dial", "collect"} => err = Success
  /\ caller = "join" /\ Balances /\ err = Success => taken = Cap
  /\ err # Success => reports # <<>> /\ reports[1][2] = err
  /\ err = Success /\ Balances => IF reports = <<>> THEN \A k \in 1 .. Len(errc) : errc[k] = Success
                                  ELSE reports[1][2] # Success /\ FirstInChannel(reports[1][2])

\* Nothing has been reported at the beginning.
LEMMA FirstInit == Init => FirstInv
  BY DEF Init, FirstInv

\* A step that neither reports nor receives anything.
LEMMA QuietKeeps ==
  ASSUME Inv, FirstInv, UNCHANGED <<call, errc, taken, err, reports>>,
         caller' = caller \/ (caller' = "crashed" /\ ~ Balances),
         \A p \in Pollers : pc[p] \in {"new", "done"} /\ caller # "dial" => pc'[p] = pc[p]
  PROVE  FirstInv'
<1>1. Balances' = Balances /\ Cap' = Cap /\ Len(errc') = Len(errc)
  BY DEF Balances, Cap
<1>2. ASSUME NEW i \in 1 .. Len(reports), reports[i][1] \in Pollers
      PROVE  pc'[reports[i][1]] \in {"new", "done"}
  <2>1. caller # "dial"
    BY <1>2 DEF FirstInv
  <2> QED BY <1>2, <2>1 DEF FirstInv
<1> QED BY <1>1, <1>2 DEF FirstInv, FirstInChannel

\* A goroutine that has reported nothing adds a report at the end.
LEMMA ReportsGrow ==
  ASSUME FirstInv, NEW p \in Pollers \cup {"caller"}, NEW r \in Results,
         reports' = Append(reports, <<p, r>>)
  PROVE  /\ reports' \in Seq((Pollers \cup {"caller"}) \X Results) /\ reports' # <<>>
         /\ Len(reports) \in Nat /\ Len(reports') = Len(reports) + 1
         /\ reports'[Len(reports) + 1] = <<p, r>>
         /\ \A i \in 1 .. Len(reports) : reports'[i] = reports[i]
         /\ reports # <<>> => reports'[1] = reports[1]
         /\ reports = <<>> => reports'[1] = <<p, r>>
<1> DEFINE S == (Pollers \cup {"caller"}) \X Results
<1>1. reports \in Seq(S) /\ <<p, r>> \in S
  BY DEF FirstInv
<1> HIDE DEF S
<1>2. /\ reports' \in Seq(S) /\ Len(reports) \in Nat /\ Len(reports') = Len(reports) + 1
      /\ reports'[Len(reports) + 1] = <<p, r>>
      /\ \A i \in 1 .. Len(reports) : reports'[i] = reports[i]
  BY <1>1, AppendValues
<1>3. reports # <<>> => Len(reports) > 0
  BY <1>1
<1>4. reports = <<>> => Len(reports) = 0
  OBVIOUS
<1>5. reports' # <<>>
  BY <1>2
<1> QED BY <1>2, <1>3, <1>4, <1>5 DEF S

\* Those of the other goroutines have still ended.
LEMMA ReportersEnd ==
  ASSUME Inv, FirstInv, NEW p \in Pollers, NEW r \in Results,
         reports' = Append(reports, <<p, r>>), pc' = [pc EXCEPT ![p] = "done"]
  PROVE  \A i \in 1 .. Len(reports') : reports'[i][1] \in Pollers => pc'[reports'[i][1]] \in {"new", "done"}
<1> SUFFICES ASSUME NEW i \in 1 .. Len(reports'), reports'[i][1] \in Pollers
             PROVE  pc'[reports'[i][1]] \in {"new", "done"}
  OBVIOUS
<1>1. /\ Len(reports) \in Nat /\ Len(reports') = Len(reports) + 1
      /\ reports'[Len(reports) + 1] = <<p, r>>
      /\ \A k \in 1 .. Len(reports) : reports'[k] = reports[k]
  BY ReportsGrow
<1>2. \A q \in Pollers : pc'[q] = IF q = p THEN "done" ELSE pc[q]
  BY DEF Inv, PlaceInv
<1>3. CASE i = Len(reports) + 1
  BY <1>1, <1>2, <1>3
<1>4. CASE i # Len(reports) + 1
  <2>1. i \in 1 .. Len(reports)
    BY <1>1, <1>4
  <2>2. pc[reports[i][1]] \in {"new", "done"}
    BY <1>1, <2>1 DEF FirstInv
  <2> QED BY <1>1, <1>2, <2>1, <2>2
<1> QED BY <1>3, <1>4

\* A wait that returns reports at once what nobody expects, or has to send it.
LEMMA FinishFirst ==
  ASSUME Inv, FirstInv, NEW p \in Pollers, NEW r \in Results, Finish(p, r),
         caller # "crashed", pc[p] \notin {"new", "send", "done"},
         UNCHANGED <<input, errc, taken, err>>
  PROVE  FirstInv'
<1>1. UNCHANGED call /\ Balances' = Balances
  BY DEF input, Balances
<1>2. CASE UNCHANGED <<caller, reports>> /\ \E to : pc' = [pc EXCEPT ![p] = to]
  BY <1>1, <1>2, QuietKeeps DEF Inv, PlaceInv
<1>3. CASE /\ ~ Balances /\ caller' = "crashed" /\ reports' = Append(reports, <<p, r>>)
           /\ pc' = [pc EXCEPT ![p] = "done"]
  <2>1. reports' \in Seq((Pollers \cup {"caller"}) \X Results) /\ reports' # <<>>
    BY <1>3, ReportsGrow
  <2>2. \A i \in 1 .. Len(reports') : reports'[i][1] \in Pollers => pc'[reports'[i][1]] \in {"new", "done"}
    BY <1>3, ReportersEnd
  <2>3. err' = Success
    BY <1>3 DEF Inv, CountInv
  <2> QED BY <1>1, <1>3, <2>1, <2>2, <2>3 DEF FirstInv
<1> QED BY <1>2, <1>3 DEF Finish

\* WaitForBalances: a goroutine sends its result.
LEMMA SendFirst == ASSUME Inv, FirstInv, NEW p \in Pollers, Send(p) PROVE FirstInv'
<1>1. /\ pc[p] = "send" /\ pc' = [pc EXCEPT ![p] = "done"] /\ errc' = Append(errc, result[p])
      /\ UNCHANGED <<call, caller, taken, err>>
      /\ reports' = IF result[p] = Success THEN reports ELSE Append(reports, <<p, result[p]>>)
  BY DEF Send, At, input
<1>2. /\ Balances /\ Balances' /\ result[p] \in Results /\ errc \in Seq(Results) /\ Cap' = Cap
      /\ caller # "dial"
  BY <1>1 DEF Inv, PlaceInv, TypeOK, Results, Balances, Cap
<1>3. /\ Len(errc) \in Nat /\ Len(errc') = Len(errc) + 1 /\ errc'[Len(errc) + 1] = result[p]
      /\ \A k \in 1 .. Len(errc) : errc'[k] = errc[k]
  BY <1>1, <1>2, AppendValues
<1>4. ASSUME NEW e, FirstInChannel(e) PROVE FirstInChannel(e)'
  <2>1. PICK k \in 1 .. Len(errc) : errc[k] = e /\ \A j \in 1 .. k - 1 : errc[j] = Success
    BY <1>4 DEF FirstInChannel
  <2>2. k \in 1 .. Len(errc') /\ errc'[k] = e /\ \A j \in 1 .. k - 1 : errc'[j] = Success
    BY <1>3, <2>1
  <2> QED BY <2>2 DEF FirstInChannel
<1>5. CASE result[p] = Success
  <2>1. reports' = reports
    BY <1>1, <1>5
  <2>2. \A i \in 1 .. Len(reports) : reports[i][1] \in Pollers => pc'[reports[i][1]] \in {"new", "done"}
    BY <1>1 DEF FirstInv, Inv, PlaceInv
  <2>3. (\A k \in 1 .. Len(errc) : errc[k] = Success) => \A k \in 1 .. Len(errc') : errc'[k] = Success
    BY <1>3, <1>5
  <2> QED BY <1>1, <1>2, <1>4, <2>1, <2>2, <2>3 DEF FirstInv
<1>6. CASE result[p] # Success
  <2>1. reports' = Append(reports, <<p, result[p]>>)
    BY <1>1, <1>6
  <2>2. /\ reports' \in Seq((Pollers \cup {"caller"}) \X Results) /\ reports' # <<>>
        /\ reports # <<>> => reports'[1] = reports[1]
        /\ reports = <<>> => reports'[1] = <<p, result[p]>>
    BY <1>2, <2>1, ReportsGrow
  <2>3. \A i \in 1 .. Len(reports') : reports'[i][1] \in Pollers => pc'[reports'[i][1]] \in {"new", "done"}
    BY <1>1, <1>2, <2>1, ReportersEnd
  <2>4. CASE reports # <<>>
    BY <1>1, <1>2, <1>4, <2>2, <2>3, <2>4 DEF FirstInv
  <2>5. CASE reports = <<>>
    <3>1. err = Success /\ \A k \in 1 .. Len(errc) : errc[k] = Success
      BY <1>2, <2>5 DEF FirstInv
    <3>2. FirstInChannel(result[p])'
      <4>1. /\ Len(errc) + 1 \in 1 .. Len(errc') /\ errc'[Len(errc) + 1] = result'[p]
            /\ \A j \in 1 .. (Len(errc) + 1) - 1 : errc'[j] = Success
        BY <1>3, <3>1 DEF Send, pollVars
      <4> QED BY <4>1 DEF FirstInChannel
    <3>3. result' = result
      BY DEF Send, pollVars
    <3> QED BY <1>1, <1>2, <1>6, <2>2, <2>3, <2>5, <3>1, <3>2, <3>3 DEF FirstInv
  <2> QED BY <2>4, <2>5
<1> QED BY <1>5, <1>6

\* WaitForBalances: the caller dials, receives or waits for the others.
LEMMA CallerFirst == ASSUME Inv, FirstInv, Caller PROVE FirstInv'
<1>1. CASE DialOnce
  <2>1. /\ caller = "dial" /\ reports = <<>> /\ err = Success /\ Balances /\ Balances' = Balances
        /\ UNCHANGED <<call, errc, taken>> /\ \A p \in Pollers : pc[p] = "new"
    BY <1>1 DEF DialOnce, FirstInv, Inv, PlaceInv, input, Balances
  <2>2. CASE caller' = "collect" /\ UNCHANGED <<err, reports>>
    BY <2>1, <2>2 DEF FirstInv, FirstInChannel
  <2>3. CASE /\ caller' = "returned" /\ err' = ErrConn /\ UNCHANGED pc
             /\ reports' = Append(reports, <<"caller", ErrConn>>)
    <3>1. ErrConn \in Results /\ ErrConn # Success
      BY ResultTypes DEF ErrConn, Success
    <3>2. /\ reports' \in Seq((Pollers \cup {"caller"}) \X Results) /\ reports' # <<>>
          /\ reports'[1] = <<"caller", ErrConn>> /\ Len(reports') = Len(reports) + 1
      BY <2>1, <2>3, <3>1, ReportsGrow
    <3>3. ASSUME NEW i \in 1 .. Len(reports'), reports'[i][1] \in Pollers
          PROVE  pc'[reports'[i][1]] \in {"new", "done"}
      BY <2>1, <2>3, <3>3
    <3> QED BY <2>1, <2>3, <3>1, <3>2, <3>3 DEF FirstInv
  <2>4. ErrConn # Success
    BY DEF ErrConn, Success
  <2> QED BY <1>1, <2>1, <2>2, <2>3, <2>4 DEF DialOnce
<1>2. CASE Collect
  <2>1. /\ caller = "collect" /\ errc # <<>> /\ errc' = Tail(errc) /\ err' = Head(errc)
        /\ taken' = taken + 1 /\ caller' = IF LoopEnds(err', taken') THEN "join" ELSE "collect"
        /\ UNCHANGED <<call, pc, reports>>
    BY <1>2 DEF Collect, input
  <2>2. Balances /\ Balances' = Balances /\ Cap' = Cap /\ err = Success /\ errc \in Seq(Results)
    BY <2>1 DEF Inv, PlaceInv, TypeOK, Results, FirstInv, Balances, Cap
  <2>3. /\ err' = errc[1] /\ Len(errc) \in Nat \ {0} /\ Len(errc') = Len(errc) - 1
        /\ \A k \in 1 .. Len(errc) - 1 : errc'[k] = errc[k + 1]
    BY <2>1, <2>2, TailValues
  <2>4. CASE reports = <<>>
    <3>1. err' = Success /\ \A k \in 1 .. Len(errc') : errc'[k] = Success
      BY <2>2, <2>3, <2>4 DEF FirstInv
    <3>2. caller' = "join" => taken' = Cap
      BY <2>1, <3>1 DEF LoopEnds, Cap
    <3> QED BY <2>1, <2>2, <2>4, <3>1, <3>2 DEF FirstInv
  <2>5. CASE reports # <<>>
    <3> DEFINE e == reports[1][2]
    <3>1. e # Success /\ FirstInChannel(e)
      BY <2>2, <2>5 DEF FirstInv
    <3>2. PICK k \in 1 .. Len(errc) : errc[k] = e /\ \A j \in 1 .. k - 1 : errc[j] = Success
      BY <3>1 DEF FirstInChannel
    <3> HIDE DEF e
    <3>3. CASE k = 1
      <4>1. err' = e /\ caller' = "join"
        BY <2>1, <2>3, <3>1, <3>2, <3>3 DEF LoopEnds
      <4> QED BY <2>1, <2>2, <2>5, <3>1, <4>1 DEF FirstInv, e
    <3>4. CASE k # 1
      <4>1. err' = Success
        BY <2>3, <3>2, <3>4
      <4>2. /\ k - 1 \in 1 .. Len(errc') /\ errc'[k - 1] = e
            /\ \A j \in 1 .. (k - 1) - 1 : errc'[j] = Success
        BY <2>3, <3>2, <3>4
      <4>3. FirstInChannel(e)'
        BY <2>1, <4>2 DEF FirstInChannel, e
      <4>4. caller' = "join" => taken' = Cap
        BY <2>1, <4>1 DEF LoopEnds, Cap
      <4> QED BY <2>1, <2>2, <2>5, <3>1, <4>1, <4>3, <4>4 DEF FirstInv, e
    <3> QED BY <3>3, <3>4
  <2> QED BY <2>4, <2>5
<1>3. CASE Join
  <2>1. caller' = "returned" /\ UNCHANGED <<call, pc, errc, taken, err, reports>> /\ caller = "join"
    BY <1>3 DEF Join, input
  <2> QED BY <2>1 DEF FirstInv, FirstInChannel, Balances
<1> QED BY <1>1, <1>2, <1>3 DEF Caller

\* Every step keeps the order of the errors.
LEMMA FirstNext == Inv /\ FirstInv /\ [Next]_vars => FirstInv'
<1> SUFFICES ASSUME Inv, FirstInv, [Next]_vars PROVE FirstInv'
  OBVIOUS
<1>1. CASE Tick \/ UNCHANGED vars \/ \E p \in Pollers : Change(p)
  <2>1. UNCHANGED <<call, caller, errc, taken, err, reports, pc>>
    BY <1>1 DEF Tick, vars, Change, input, callerVars
  <2> QED BY <2>1, QuietKeeps
<1>p. {"select", "poll", "subscribe"} \subseteq Places
  BY DEF Places
<1>r. {ErrConn, Success, TooMany} \subseteq Results
  BY ResultTypes
<1>2. ASSUME NEW p \in Pollers, NEW r \in Results, Finish(p, r), caller # "crashed",
             pc[p] \in {"dial", "subscribe", "select", "poll"}, UNCHANGED <<input, errc, taken, err>>
      PROVE  FirstInv'
  BY <1>2, FinishFirst
<1>3. ASSUME NEW p \in Pollers, NEW to \in Places, pc[p] \in {"dial", "subscribe", "select", "poll"},
             pc' = [pc EXCEPT ![p] = to], UNCHANGED <<input, errc, taken, err, caller, reports>>
      PROVE  FirstInv'
  <2>1. \A q \in Pollers : pc[q] \in {"new", "done"} => pc'[q] = pc[q]
    BY <1>3 DEF Inv, PlaceInv
  <2> QED BY <1>3, <2>1, QuietKeeps DEF input
<1>4. ASSUME NEW p \in Pollers, Dial(p) PROVE FirstInv'
  <2>1. caller # "crashed" /\ pc[p] = "dial" /\ UNCHANGED <<input, errc, taken, err>>
    BY <1>4 DEF Dial, At
  <2>2. CASE Finish(p, ErrConn)
    BY <1>r, <1>2, <2>1, <2>2
  <2>3. CASE caller' = "crashed" /\ UNCHANGED <<pc, reports>>
    BY <2>1, <2>3, QuietKeeps DEF Inv, PlaceInv, input
  <2>4. CASE /\ pc' = [pc EXCEPT ![p] = IF Polling THEN "select" ELSE "subscribe"]
             /\ UNCHANGED <<caller, reports>>
    BY <1>3, <1>p, <2>1, <2>4
  <2> QED BY <1>4, <2>2, <2>3, <2>4 DEF Dial
<1>5. ASSUME NEW p \in Pollers, Subscribe(p) \/ TakeTick(p) \/ Poll(p) PROVE FirstInv'
  <2>1. /\ caller # "crashed" /\ pc[p] \in {"subscribe", "select", "poll"}
        /\ UNCHANGED <<input, errc, taken, err>>
    BY <1>5 DEF Subscribe, TakeTick, Poll, At, callerVars
  <2>2. CASE \E r \in Results : Finish(p, r)
    BY <1>2, <2>1, <2>2
  <2>3. CASE (\E to \in Places : pc' = [pc EXCEPT ![p] = to]) /\ UNCHANGED <<caller, reports>>
    <3>1. PICK to \in Places : pc' = [pc EXCEPT ![p] = to]
      BY <2>3
    <3>2. /\ UNCHANGED <<input, errc, taken, err, caller, reports>>
          /\ pc[p] \in {"dial", "subscribe", "select", "poll"}
      BY <2>1, <2>3
    <3> QED BY <1>3, <3>1, <3>2
  <2> QED BY <1>5, <1>r, <1>p, <2>2, <2>3 DEF Subscribe, TakeTick, Poll, callerVars
<1>6. ASSUME NEW p \in Pollers, TakeTimeout(p) \/ TakeHead(p) PROVE FirstInv'
  <2>1. /\ caller # "crashed" /\ pc[p] = "select" /\ UNCHANGED <<input, errc, taken, err>>
    BY <1>6 DEF TakeTimeout, TakeHead, At
  <2>2. \E r \in Results : Finish(p, r)
    <3>1. TakeTimeout(p) => OnTimeout \in Results
      BY ResultTypes DEF TakeTimeout, Inv, TimerInv
    <3> QED BY <1>6, <1>r, <3>1 DEF TakeTimeout, TakeHead
  <2> QED BY <1>2, <2>1, <2>2
<1> QED BY <1>1, <1>4, <1>5, <1>6, SendFirst, CallerFirst DEF Next, Poller

\* When WaitForBalances has received nothing but successes, from all, nobody
\* has reported anything else; the other calls report nothing at that place.
LEMMA JoinedWithoutError ==
  ASSUME Inv, FirstInv, caller = "join", err = Success
  PROVE  reports = <<>>
<1>1. ASSUME ~ Balances PROVE reports = <<>>
  BY <1>1 DEF FirstInv
<1>2. ASSUME Balances PROVE reports = <<>>
  <2>1. /\ taken = Cap /\ taken + Len(errc) = Cardinality(Finished) /\ Cardinality(Finished) <= Cap
        /\ Cap \in Nat /\ errc \in Seq(Results) /\ Cardinality(Finished) \in Nat
    BY <1>2, FinishedBound, CapType DEF FirstInv, Inv, CountInv, TypeOK, Results
  <2>2. Len(errc) = 0
    <3>1. Len(errc) \in Nat
      BY <2>1
    <3> QED BY <2>1, <3>1
  <2>3. ~ FirstInChannel(reports[1][2])
    BY <2>2 DEF FirstInChannel
  <2> QED BY <1>2, <2>3 DEF FirstInv
<1> QED BY <1>1, <1>2

\* Each step is one of the promise, or none.
LEMMA StepKeepsVerdict ==
  Inv /\ FirstInv /\ [Next]_vars =>
    [Verdict!Next]_<<reports, IF caller = "returned" THEN err ELSE Pending>>
<1> DEFINE v == IF caller = "returned" THEN err ELSE Pending
<1> SUFFICES ASSUME Inv, FirstInv, [Next]_vars PROVE [Verdict!Next]_<<reports, v>>
  OBVIOUS
<1>1. ASSUME UNCHANGED reports, caller' = caller \/ "returned" \notin {caller, caller'},
             caller = "returned" => UNCHANGED err
      PROVE  UNCHANGED <<reports, v>>
  BY <1>1
<1>2. CASE DialOnce
  <2>1. caller = "dial" /\ reports = <<>> /\ err = Success
    BY <1>2 DEF DialOnce, FirstInv
  <2>2. CASE caller' = "collect" /\ UNCHANGED <<err, reports>>
    BY <1>1, <2>1, <2>2
  <2>3. CASE caller' = "returned" /\ err' = ErrConn /\ reports' = Append(reports, <<"caller", err'>>)
    <3>1. v = Pending /\ v' = ErrConn /\ ErrConn \in Results /\ "caller" \notin Verdict!Reporters
      BY <2>1, <2>3, ResultTypes DEF Verdict!Reporters
    <3>2. Verdict!Report("caller", ErrConn)
      BY <2>1, <2>3, <3>1 DEF Verdict!Report
    <3> QED BY <3>1, <3>2 DEF Verdict!Next, Results
  <2>4. ErrConn # Success
    BY DEF ErrConn, Success
  <2> QED BY <1>2, <2>1, <2>2, <2>3, <2>4 DEF DialOnce
<1>3. CASE Collect
  BY <1>1, <1>3 DEF Collect, input
<1>4. CASE Join
  <2>1. /\ caller = "join" /\ caller' = "returned" /\ UNCHANGED <<err, reports, call, errc>>
        /\ v = Pending /\ v' = err
    BY <1>4 DEF Join, input
  <2>2. CASE err # Success
    <3>1. reports # <<>> /\ reports[1][2] = err
      BY <2>2 DEF FirstInv
    <3>2. Verdict!Fail
      BY <2>1, <3>1 DEF Verdict!Fail
    <3> QED BY <3>2 DEF Verdict!Next
  <2>3. CASE err = Success
    <3>3. reports = <<>>
      BY <2>1, <2>3, JoinedWithoutError
    <3>4. Verdict!Succeed
      BY <2>1, <2>3, <3>3 DEF Verdict!Succeed
    <3> QED BY <3>4 DEF Verdict!Next
  <2> QED BY <2>2, <2>3
<1>5. ASSUME NEW p \in Pollers, NEW r \in Results, pc[p] \notin {"new", "done"},
             reports' = Append(reports, <<p, r>>), "returned" \notin {caller, caller'}
      PROVE  [Verdict!Next]_<<reports, v>>
  <2>1. v = Pending /\ v' = Pending
    BY <1>5
  <2>2. p \notin Verdict!Reporters
    <3>1. reports \in Seq((Pollers \cup {"caller"}) \X Results)
      BY DEF FirstInv
    <3>2. ASSUME NEW i \in DOMAIN reports PROVE reports[i][1] # p
      <4>1. i \in 1 .. Len(reports)
        BY <3>1, LenProperties
      <4> QED BY <1>5, <4>1 DEF FirstInv
    <3> QED BY <3>2 DEF Verdict!Reporters
  <2>3. Verdict!Report(p, r)
    BY <1>5, <2>1, <2>2 DEF Verdict!Report
  <2> QED BY <2>3 DEF Verdict!Next, Results
<1>6. ASSUME NEW p \in Pollers, Poller(p) \/ TakeHead(p) PROVE [Verdict!Next]_<<reports, v>>
  <2>0. ErrConn \in Results /\ Success \in Results /\ TooMany \in Results
    BY ResultTypes
  <2>1. pc[p] \notin {"new", "done"} /\ caller \notin {"returned", "crashed"}
    <3>1. pc[p] \notin {"new", "done"} /\ caller # "crashed"
      BY <1>6 DEF Poller, TakeHead, Dial, Subscribe, TakeTimeout, TakeTick, Poll, Send, At
    <3> QED BY <3>1 DEF Inv, PlaceInv
  <2>2. ASSUME NEW r \in Results, Finish(p, r) PROVE [Verdict!Next]_<<reports, v>>
    <3>1. \/ UNCHANGED <<caller, reports>>
          \/ /\ caller' \in {caller, "crashed"}
             /\ UNCHANGED reports \/ reports' = Append(reports, <<p, r>>)
      BY <2>2 DEF Finish
    <3> QED BY <1>1, <1>5, <2>1, <2>2, <3>1
  <2>3. CASE Send(p)
    <3>1. UNCHANGED caller /\ pc[p] = "send"
      BY <2>3 DEF Send, At
    <3>2. result[p] \in Results
      BY <3>1 DEF Inv, PlaceInv, TypeOK, Results
    <3>3. UNCHANGED reports \/ reports' = Append(reports, <<p, result[p]>>)
      BY <2>3 DEF Send
    <3> QED BY <1>1, <1>5, <2>1, <3>1, <3>2, <3>3
  <2>4. CASE TakeTimeout(p)
    <3>1. OnTimeout \in Results
      BY <2>4, ResultTypes DEF TakeTimeout, Inv, TimerInv
    <3> QED BY <2>2, <2>4, <3>1 DEF TakeTimeout
  <2>5. CASE TakeHead(p)
    BY <2>0, <2>2, <2>5 DEF TakeHead
  <2>6. CASE Dial(p) \/ Subscribe(p) \/ TakeTick(p) \/ Poll(p)
    <3>1. \/ \E r \in Results : Finish(p, r)
          \/ UNCHANGED reports /\ (caller' = caller \/ caller' = "crashed")
      BY <2>0, <2>6 DEF Dial, Subscribe, TakeTick, Poll, callerVars
    <3> QED BY <1>1, <2>1, <2>2, <3>1
  <2> QED BY <1>6, <2>3, <2>4, <2>5, <2>6 DEF Poller
<1>7. CASE Tick \/ UNCHANGED vars \/ \E p \in Pollers : Change(p)
  BY <1>1, <1>7 DEF Tick, vars, Change, callerVars
<1> QED BY <1>2, <1>3, <1>4, <1>6, <1>7 DEF Next, Caller

\* The caller implements the promise of EnsureConsensus: what it returns is the
\* first error of a goroutine, and nil only if none had any.
THEOREM FirstErrorReturned == Spec => VerdictIsFirstError
<1>1. Init => Verdict!Init
  BY DEF Init, Verdict!Init
<1> QED
  BY <1>1, InvInit, InvNext, FirstInit, FirstNext, StepKeepsVerdict,
     PTL DEF Spec, VerdictIsFirstError, Verdict!Spec

-----------------------------------------------------------------------------
(* Success of WaitForBalances                                              *)

\* A goroutine that has ended without success has reported that; and when the
\* caller has returned nil, all have succeeded.
FundedInv ==
  Balances => /\ \A p \in Pollers : pc[p] = "done" /\ result[p] # Success => reports # <<>>
              /\ caller = "returned" /\ err = Success => \A p \in Pollers : result[p] = Success

\* Nobody has ended at the beginning.
LEMMA FundedInit == Init => FundedInv
  BY DEF Init, FundedInv

\* The steps of a goroutine: only sending its result ends it.
LEMMA PollerFunded ==
  ASSUME Inv, FirstInv, FundedInv, NEW p \in Pollers, Poller(p) \/ TakeHead(p)
  PROVE  FundedInv'
<1> SUFFICES ASSUME Balances PROVE FundedInv'
  BY DEF FundedInv, Balances, Poller, TakeHead, Dial, Subscribe, TakeTimeout, TakeTick, Poll, Send, input
<1>1. Balances' /\ UNCHANGED err /\ caller' \notin {"returned", "crashed"}
  <2>1. caller # "crashed" /\ pc[p] \notin {"new", "done"}
    BY DEF Poller, TakeHead, Dial, Subscribe, TakeTimeout, TakeTick, Poll, Send, At
  <2>2. UNCHANGED <<call, err, caller>>
    BY DEF Balances, Polling, Poller, TakeHead, Dial, Subscribe, TakeTimeout, TakeTick, Poll, Send,
           Finish, input, callerVars
  <2> QED BY <2>1, <2>2 DEF Inv, PlaceInv, Balances
<1>2. CASE Send(p)
  <2>1. /\ pc' = [pc EXCEPT ![p] = "done"] /\ UNCHANGED result
        /\ reports' = IF result[p] = Success THEN reports ELSE Append(reports, <<p, result[p]>>)
        /\ result[p] \in Results /\ pc \in [Pollers -> Places]
    BY <1>2 DEF Send, pollVars, Inv, PlaceInv, TypeOK, Results, At
  <2>2. result[p] # Success => reports' # <<>>
    BY <2>1, ReportsGrow
  <2> QED BY <1>1, <2>1, <2>2 DEF FundedInv
<1>3. CASE ~ Send(p)
  <2>1. \E to \in {"select", "poll", "send", "subscribe"} : pc' = [pc EXCEPT ![p] = to]
    BY <1>3 DEF Balances, Polling, Poller, TakeHead, Dial, Subscribe, TakeTimeout, TakeTick, Poll, Finish
  <2>2. /\ UNCHANGED reports
        /\ result' = result \/ \E r : result' = [result EXCEPT ![p] = r]
    BY <1>3 DEF Balances, Polling, Poller, TakeHead, Dial, Subscribe, TakeTimeout, TakeTick, Poll, Finish,
                callerVars, pollVars
  <2>3. \A q \in Pollers : pc'[q] = "done" => q # p /\ pc[q] = "done" /\ result'[q] = result[q]
    BY <2>1, <2>2 DEF Inv, PlaceInv, TypeOK
  <2> QED BY <1>1, <2>2, <2>3 DEF FundedInv
<1> QED BY <1>2, <1>3

\* Every step keeps it.
LEMMA FundedNext == Inv /\ FirstInv /\ FundedInv /\ [Next]_vars => FundedInv'
<1> SUFFICES ASSUME Inv, FirstInv, FundedInv, [Next]_vars PROVE FundedInv'
  OBVIOUS
<1>1. CASE DialOnce
  <2>1. /\ \A p \in Pollers : pc[p] = "new"
        /\ caller' = "collect" \/ err' = ErrConn
        /\ UNCHANGED pc \/ pc' = [p \in Pollers |-> "select"]
    BY <1>1 DEF DialOnce, Inv, PlaceInv
  <2>2. ErrConn # Success
    BY DEF ErrConn, Success
  <2> QED BY <2>1, <2>2 DEF FundedInv
<1>2. CASE Collect
  <2>1. UNCHANGED <<call, pc, result, reports>> /\ caller' # "returned"
    BY <1>2 DEF Collect, input, pollVars
  <2> QED BY <2>1 DEF FundedInv, Balances
<1>3. CASE Join
  <2>1. /\ UNCHANGED <<call, pc, result, reports, err>> /\ caller = "join"
        /\ \A p \in Pollers : pc[p] = "done"
    BY <1>3 DEF Join, input, pollVars, AllDone
  <2>2. err = Success => reports = <<>>
    BY <2>1, JoinedWithoutError
  <2> QED BY <2>1, <2>2 DEF FundedInv, Balances
<1>4. CASE Tick \/ UNCHANGED vars \/ \E p \in Pollers : Change(p)
  <2>1. UNCHANGED <<call, caller, err, pc, result, reports>>
    BY <1>4 DEF Tick, Change, vars, input, callerVars, pollVars
  <2> QED BY <2>1 DEF FundedInv, Balances
<1> QED BY <1>1, <1>2, <1>3, <1>4, PollerFunded DEF Next, Caller

\* WaitForBalances returns nil only when every account has been seen with money
\* by its goroutine, for any number of accounts.
THEOREM AllFunded == Spec => []NilMeansAllFunded
<1>1. FundedInv /\ ResultMeansReached => NilMeansAllFunded
  BY DEF FundedInv, ResultMeansReached, NilMeansAllFunded, Balances
<1> QED
  BY <1>1, InvInit, InvNext, BaseInit, BaseNext, FirstInit, FirstNext, FundedInit, FundedNext, PTL DEF Spec

=============================================================================

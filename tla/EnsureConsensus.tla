--------------------------- MODULE EnsureConsensus ---------------------------
(***************************************************************************)
(* What EnsureConsensusWorking promises its caller: one verdict, which is  *)
(* the first error a monitor reported, or success when the time is over    *)
(* and nobody has reported anything.                                       *)
(***************************************************************************)
EXTENDS Sequences

CONSTANTS Monitors, Errors, Pending, Success

VARIABLES
  reports,  \* the errors reported so far, in order, each with its monitor
  verdict   \* Pending, Success, or an error

Init == reports = <<>> /\ verdict = Pending

Reporters == {reports[i][1] : i \in DOMAIN reports}

\* A monitor reports, once.  The caller may take the error at that moment.
Report(m, e) ==
  /\ m \notin Reporters
  /\ reports' = Append(reports, <<m, e>>)
  /\ \/ verdict' = verdict
     \/ verdict = Pending /\ reports = <<>> /\ verdict' = e

Fail == /\ verdict = Pending /\ reports # <<>>
        /\ verdict' = reports[1][2]
        /\ UNCHANGED reports

Succeed == /\ verdict = Pending /\ reports = <<>>
           /\ verdict' = Success
           /\ UNCHANGED reports

Next == Fail \/ Succeed \/ \E m \in Monitors, e \in Errors : Report(m, e)

Spec == Init /\ [][Next]_<<reports, verdict>>
=============================================================================

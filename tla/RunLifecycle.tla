---------------------------- MODULE RunLifecycle ----------------------------
(***************************************************************************)
(* What the AutoPkg run history promises to those who read it: a run is    *)
(* started at most once, one that has ended never starts again, and the    *)
(* outcome of a completed run with results is not replaced by a failure.   *)
(***************************************************************************)
CONSTANT Run

VARIABLES
    status,   \* what the run history says of each run
    reported  \* the runs that have results

vars == <<status, reported>>

Init ==
    /\ status = [r \in Run |-> "absent"]
    /\ reported = {}

\* The run appears: waiting, handed to GitHub, or refused by GitHub.
Appear(r) ==
    /\ status[r] = "absent"
    /\ \E first \in {"pending", "running", "failed"} : status' = [status EXCEPT ![r] = first]
    /\ UNCHANGED reported

Start(r) ==
    /\ status[r] = "pending"
    /\ status' = [status EXCEPT ![r] = "running"]
    /\ UNCHANGED reported

Report(r) ==
    /\ status[r] # "absent"
    /\ reported' = reported \cup {r}
    /\ UNCHANGED status

\* A run that was failed may still be completed.
Complete(r) ==
    /\ status[r] # "absent"
    /\ status' = [status EXCEPT ![r] = "completed"]
    /\ UNCHANGED reported

Fail(r) ==
    /\ status[r] \in {"running", "completed"}
    /\ status[r] = "completed" => r \notin reported
    /\ status' = [status EXCEPT ![r] = "failed"]
    /\ UNCHANGED reported

Next == \E r \in Run : Appear(r) \/ Start(r) \/ Report(r) \/ Complete(r) \/ Fail(r)

Spec == Init /\ [][Next]_vars
=============================================================================

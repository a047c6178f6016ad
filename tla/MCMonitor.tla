----------------------------- MODULE MCMonitor ------------------------------
(* Instances of Monitor for TLC. *)
EXTENDS Monitor, TLC

Form(period, grace, notify) ==
    [schedule |-> period, grace |-> grace, notifyOnFail |-> notify]

(* A job every minute with the least grace, alerting on failure. *)
OptedIn == {Form(1, 1, TRUE)}

(***************************************************************************)
(* With durations below 4 ticks and 2 to the minute: a job every minute, a *)
(* schedule without a run time, and a grace that overflows.                *)
(***************************************************************************)
AtTheEdges == {Form(2, 1, TRUE), Form(Never, 1, TRUE), Form(2, 2, TRUE)}

(* Requests are interchangeable. *)
Symmetry == Permutations(Requests)
=============================================================================

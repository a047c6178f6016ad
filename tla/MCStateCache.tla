---------------------------- MODULE MCStateCache ----------------------------
(* Instances of StateCache for TLC. *)
EXTENDS StateCache, TLC

MCForms == {[schedule |-> 2, grace |-> 1, notifyOnFail |-> FALSE]}

(* A check created, and then pinged within a second. *)
Created == NewCheck(CHOOSE f \in MCForms : TRUE, 0)
MCInputs == {Created, AfterComplete(Created, 1)}
=============================================================================
